--------------------------- MODULE CowForkProofs ---------------------------
(***************************************************************************)
(* Proofs about CowFork: who may write which page, for any number of       *)
(* environments and pages, and the refinement of PrivateMemory.            *)
(***************************************************************************)
EXTENDS CowFork, PageOpsProofs, SequenceTheorems

-----------------------------------------------------------------------------
(* The inductive invariant, environment by environment.                    *)

Live(e) == pc[e] \notin {"free", "embryo"}
LoopPCs == {"loop", "share", "mark", "alloc", "temp", "copy", "untemp"}

\* An environment has a directory as long as it is there.
DirAt(e) == pc[e] = "free" <=> m.env_pgdir[e] = NoPage

\* Only pages of the program are ever copy-on-write, and only with fork.
EntriesAt(e) ==
    /\ \A va \in Va : Mapped(m, e, va) =>
          /\ Perm(e, va) \in {{"W"}, {"COW"}}
          /\ va \notin UserVa \/ fork_kind # "cow" => Perm(e, va) = {"W"}
          /\ va \in {PFTEMP, EXSTACK} => fork_kind = "cow"
    /\ Live(e) => \A va \in UserVa : Mapped(m, e, va)
    /\ Mapped(m, e, UTEMP) => pc[e] \in {"copy", "untemp"}
    /\ Mapped(m, e, PFTEMP) => utf[e] # <<>>

\* A fault that fork causes finds an upcall and a stack for it.
UpcallAt(e) ==
    /\ env_pgfault_upcall[e] => Mapped(m, e, EXSTACK)
    /\ Live(e) => handler[e] = env_pgfault_upcall[e]

\* Who cannot take a fault has copy-on-write pages only in the middle of a fork,
\* behind the page that the fork is at.
HandledAt(e) ==
    ~env_pgfault_upcall[e] =>
        /\ pc[e] \in {"run", "exofork"} => \A va \in UserVa : Perm(e, va) = {"W"}
        /\ pc[e] \in LoopPCs =>
              \A va \in UserVa : va >= fork_va[e] => Perm(e, va) = {"W"}

\* A fault on the stack may interrupt the return from one on the data; there are
\* no other nested faults.
FramesAt(e) ==
    /\ utf[e] \in Seq(UserVa \X FaultPCs)
    /\ Len(utf[e]) <= 2
    /\ Len(utf[e]) = 2 => /\ utf[e][1][1] = STACK /\ utf[e][2] = <<DATA, "ret">>
                          /\ Perm(e, DATA) = {"W"}

\* What the fault handler has done so far.
HandlerAt(e) ==
    utf[e] # <<>> =>
        /\ env_pgfault_upcall[e] /\ Live(e) /\ fork_kind = "cow"
        /\ pc[e] # "panic" =>
              LET va == utf[e][1][1]
                  l == utf[e][1][2]
              IN  /\ Mapped(m, e, PFTEMP) <=> l \in {"copy", "map", "unmap"}
                  /\ l = "map" => data[PageAt(e, PFTEMP)] = data[PageAt(e, va)]
                  /\ l = "unmap" => PageAt(e, PFTEMP) = PageAt(e, va)
                  /\ l \in {"unmap", "ret"} => Perm(e, va) = {"W"}

\* The variables of a fork.
ForkAt(e) ==
    /\ pc[e] \in {"free", "embryo", "run", "exofork"} =>
          fork_child[e] = NoEnv /\ fork_va[e] = 0
    /\ pc[e] \in LoopPCs \cup {"xstack", "upcall"} => fork_child[e] # NoEnv
    /\ pc[e] \in {"share", "mark", "xstack", "upcall"} => fork_kind = "cow"
    /\ pc[e] \in {"alloc", "temp", "copy", "untemp"} => fork_kind # "cow"
    /\ pc[e] = "loop" => fork_va[e] <= EXSTACK
    /\ pc[e] \in LoopPCs \ {"loop"} => fork_va[e] \in UserVa
    /\ pc[e] \in {"xstack", "upcall", "status"} => fork_va[e] = NVA
    /\ pc[e] = "share" => fork_pte[e] \cap {"W", "COW"} # {}

\* What the child has so far.
ChildAt(e) ==
    LET c == fork_child[e]
    IN  c # NoEnv =>
        /\ pc[c] = "embryo"
        /\ pc[e] # "panic" => \A va \in UserVa :
              /\ va < fork_va[e] => Mapped(m, c, va)
              /\ va > fork_va[e] => ~Mapped(m, c, va)
              /\ va = fork_va[e] =>
                    (Mapped(m, c, va) <=> pc[e] \in {"mark", "temp", "copy", "untemp"})
        /\ pc[e] = "upcall" => Mapped(m, c, EXSTACK)
        /\ pc[e] = "status" /\ fork_kind = "cow" =>
              env_pgfault_upcall[c] /\ env_pgfault_upcall[e]
        /\ pc[e] \in {"copy", "untemp"} =>
              Mapped(m, e, UTEMP) /\ PageAt(e, UTEMP) = PageAt(c, fork_va[e])

EnvInv(e) ==
    /\ DirAt(e) /\ EntriesAt(e) /\ UpcallAt(e) /\ HandledAt(e)
    /\ FramesAt(e) /\ HandlerAt(e) /\ ForkAt(e) /\ ChildAt(e)

\* A child has one parent.
OneParent ==
    \A e, f \in Env : fork_child[e] = fork_child[f] /\ fork_child[e] # NoEnv => e = f

\* Two entries for one page, the first of them writable.
Shares(n, e, va, f, vb) ==
    /\ Mapped(n, e, va) /\ n.pte[e][va].perm = {"W"}
    /\ n.pte[f][vb].page = n.pte[e][va].page
    /\ e # f \/ va # vb

\* The fault handler has mapped its copy and not yet unmapped it.
HandlerSees(e, va, f, vb) ==
    /\ e = f /\ utf[e] # <<>> /\ utf[e][1][2] = "unmap"
    /\ \/ va = PFTEMP /\ vb = utf[e][1][1]
       \/ vb = PFTEMP /\ va = utf[e][1][1]

\* A parent sees the page that it copies for its child.
ParentSees(e, va, f, vb) ==
    /\ pc[e] \in {"copy", "untemp"}
    /\ va = UTEMP /\ f = fork_child[e] /\ vb = fork_va[e]

\* A parent has given a page to its child and not yet marked its own entry.
NotYetMarked(e, va, f, vb) ==
    /\ pc[e] \in {"mark", "panic"}
    /\ f = fork_child[e] /\ va = vb /\ va = fork_va[e]
    /\ Perm(f, vb) = {"COW"}

Doubled(e, va, f, vb) ==
    \/ HandlerSees(e, va, f, vb)
    \/ ParentSees(e, va, f, vb) \/ ParentSees(f, vb, e, va)
    \/ NotYetMarked(e, va, f, vb)

\* A page that an environment may write is its own, but for these reasons.
OwnPages ==
    \A e, f \in Env, va, vb \in Va : Shares(m, e, va, f, vb) => Doubled(e, va, f, vb)

\* The variables have the shape that Init gives them.
Shape ==
    /\ data \in [Page -> Value]
    /\ env_pgfault_upcall \in [Env -> BOOLEAN]
    /\ handler \in [Env -> BOOLEAN]
    /\ pc \in [Env -> ForkPCs \cup {"free", "embryo", "run", "panic"}]
    /\ fork_kind \in ForkKinds
    /\ fork_child \in [Env -> Env \cup {NoEnv}]
    /\ fork_va \in [Env -> 0..NVA]
    /\ fork_pte \in [Env -> SUBSET Flag]
    /\ DOMAIN utf = Env
    /\ forks \in 0..MaxForks

CowInv ==
    /\ MemInv(m)
    /\ Shape
    /\ \A e \in Env : EnvInv(e)
    /\ OneParent
    /\ OwnPages

-----------------------------------------------------------------------------
(* The loops of env_free.                                                  *)

\* There are five addresses.
LEMMA Addresses == NVA = 5 /\ Va = 0..4 /\ UserVa = {2, 3}
  BY ForkAssumption DEF Va, UserVa, DATA, STACK

\* The loop over the entries, unrolled.
LEMMA RemoveRounds ==
    ASSUME NEW mm, NEW e
    PROVE  \E f : /\ f[0] = mm
                  /\ \A n \in 1..5 : f[n] = page_remove(f[n - 1], e, n - 1)
                  /\ remove_entries(mm, e) = f[5]
  <1> DEFINE G(g) == [n \in 0..NVA |-> IF n = 0 THEN mm ELSE page_remove(g[n - 1], e, n - 1)]
             f == CHOOSE g : g = G(g)
  <1>1. PICK r0, r1, r2, r3, r4, r5 :
            /\ r0 = mm
            /\ r1 = page_remove(r0, e, 0) /\ r2 = page_remove(r1, e, 1)
            /\ r3 = page_remove(r2, e, 2) /\ r4 = page_remove(r3, e, 3)
            /\ r5 = page_remove(r4, e, 4)
    OBVIOUS
  <1>2. PICK w : w = [n \in 0..5 |-> IF n = 0 THEN r0 ELSE IF n = 1 THEN r1
                                     ELSE IF n = 2 THEN r2 ELSE IF n = 3 THEN r3
                                     ELSE IF n = 4 THEN r4 ELSE r5]
    OBVIOUS
  <1>3. w = G(w)
    <2>1. w[0] = r0 /\ w[1] = r1 /\ w[2] = r2 /\ w[3] = r3 /\ w[4] = r4 /\ w[5] = r5
      BY <1>2
    <2>2. \A n \in 0..5 : w[n] = IF n = 0 THEN mm ELSE page_remove(w[n - 1], e, n - 1)
      <3> SUFFICES ASSUME NEW n \in 0..5
                   PROVE  w[n] = IF n = 0 THEN mm ELSE page_remove(w[n - 1], e, n - 1)
        OBVIOUS
      <3>1. n = 0 \/ n = 1 \/ n = 2 \/ n = 3 \/ n = 4 \/ n = 5
        OBVIOUS
      <3> QED BY <1>1, <2>1, <3>1
    <2>3. w = [n \in 0..5 |-> w[n]]
      BY <1>2
    <2> QED BY <2>2, <2>3, Addresses
  <1>4. f = G(f)
    BY <1>3
  <1>5. remove_entries(mm, e) = f[NVA]
    BY DEF remove_entries
  <1> HIDE DEF f
  <1>6. f[0] = mm /\ \A n \in 1..5 : f[n] = page_remove(f[n - 1], e, n - 1)
    BY <1>4, Addresses
  <1> QED BY <1>5, <1>6, Addresses

\* The loop over the tables, unrolled.
LEMMA TableRounds ==
    ASSUME NEW mm, NEW e
    PROVE  \E f : /\ f[0] = mm
                  /\ \A n \in 1..5 :
                        f[n] = IF HasTable(f[n - 1], e, n - 1)
                               THEN free_table(f[n - 1], e, PDX[n - 1]) ELSE f[n - 1]
                  /\ free_tables(mm, e) = f[5]
  <1> DEFINE R(x, n) == IF HasTable(x, e, n) THEN free_table(x, e, PDX[n]) ELSE x
             G(g) == [n \in 0..NVA |-> IF n = 0 THEN mm
                                       ELSE IF HasTable(g[n - 1], e, n - 1)
                                       THEN free_table(g[n - 1], e, PDX[n - 1])
                                       ELSE g[n - 1]]
             f == CHOOSE g : g = G(g)
  <1>1. PICK r0, r1, r2, r3, r4, r5 :
            /\ r0 = mm /\ r1 = R(r0, 0) /\ r2 = R(r1, 1)
            /\ r3 = R(r2, 2) /\ r4 = R(r3, 3) /\ r5 = R(r4, 4)
    OBVIOUS
  <1>2. PICK w : w = [n \in 0..5 |-> IF n = 0 THEN r0 ELSE IF n = 1 THEN r1
                                     ELSE IF n = 2 THEN r2 ELSE IF n = 3 THEN r3
                                     ELSE IF n = 4 THEN r4 ELSE r5]
    OBVIOUS
  <1>3. w = G(w)
    <2>1. w[0] = r0 /\ w[1] = r1 /\ w[2] = r2 /\ w[3] = r3 /\ w[4] = r4 /\ w[5] = r5
      BY <1>2
    <2>2. \A n \in 0..5 : w[n] = IF n = 0 THEN mm ELSE R(w[n - 1], n - 1)
      <3> SUFFICES ASSUME NEW n \in 0..5
                   PROVE  w[n] = IF n = 0 THEN mm ELSE R(w[n - 1], n - 1)
        OBVIOUS
      <3>1. n = 0 \/ n = 1 \/ n = 2 \/ n = 3 \/ n = 4 \/ n = 5
        OBVIOUS
      <3> QED BY <1>1, <2>1, <3>1
    <2>3. w = [n \in 0..5 |-> w[n]]
      BY <1>2
    <2> QED BY <2>2, <2>3, Addresses
  <1>4. f = G(f)
    BY <1>3
  <1>5. free_tables(mm, e) = f[NVA]
    BY DEF free_tables
  <1> HIDE DEF f
  <1>6. f[0] = mm /\ \A n \in 1..5 : f[n] = R(f[n - 1], n - 1)
    BY <1>4, Addresses
  <1> QED BY <1>5, <1>6, Addresses

\* The memory after a round of the first loop.
EntriesLeft(mm, x, e, n) ==
    /\ MemInv(x) /\ x.env_pgdir = mm.env_pgdir
    /\ \A f \in Env \ {e}, va \in Va : x.pte[f][va] = mm.pte[f][va]
    /\ \A va \in 0..(n - 1) : ~Mapped(x, e, va)

\* A round of the first loop.
LEMMA EntryRemoved ==
    ASSUME NEW mm, NEW e \in Env, NEW n \in 0..4, NEW x, EntriesLeft(mm, x, e, n),
           NEW y, y = page_remove(x, e, n)
    PROVE  EntriesLeft(mm, y, e, n + 1)
  <1>1. n \in Va
    BY Addresses
  <1>2. MemInv(y) /\ y.env_pgdir = x.env_pgdir /\ y.pte = Entered(x.pte, e, n, Zero)
    BY <1>1, RemoveKeeps DEF EntriesLeft
  <1>3. y.pte[e][n] = Zero /\ PtesDiffer(x, y, e, n)
    BY <1>1, <1>2, EnteredIs DEF EntriesLeft, MemInv
  <1>4. \A va \in 0..n : ~Mapped(y, e, va)
    <2>1. ~Mapped(y, e, n)
      BY <1>3 DEF Mapped, Zero
    <2>2. \A va \in 0..(n - 1) : y.pte[e][va] = x.pte[e][va]
      BY <1>3, Addresses DEF PtesDiffer
    <2>3. \A va \in 0..(n - 1) : ~Mapped(y, e, va)
      BY <2>2 DEF EntriesLeft, Mapped
    <2>4. \A va \in 0..n : va = n \/ va \in 0..(n - 1)
      OBVIOUS
    <2> QED BY <2>1, <2>3, <2>4
  <1>5. \A f \in Env \ {e}, va \in Va : y.pte[f][va] = mm.pte[f][va]
    BY <1>3 DEF PtesDiffer, EntriesLeft
  <1>6. 0..(n + 1 - 1) = 0..n
    OBVIOUS
  <1> QED BY <1>2, <1>4, <1>5, <1>6 DEF EntriesLeft

\* The first loop.
LEMMA EntriesRemoved ==
    ASSUME NEW mm, MemInv(mm), NEW e \in Env, NEW x, x = remove_entries(mm, e)
    PROVE  EntriesLeft(mm, x, e, 5)
  <1>1. PICK f : /\ f[0] = mm
                 /\ \A n \in 1..5 : f[n] = page_remove(f[n - 1], e, n - 1)
                 /\ x = f[5]
    BY RemoveRounds
  <1>2. EntriesLeft(mm, f[0], e, 0)
    BY <1>1 DEF EntriesLeft
  <1>3. /\ f[1] = page_remove(f[0], e, 0) /\ f[2] = page_remove(f[1], e, 1)
        /\ f[3] = page_remove(f[2], e, 2) /\ f[4] = page_remove(f[3], e, 3)
        /\ f[5] = page_remove(f[4], e, 4)
    BY <1>1
  <1>4. EntriesLeft(mm, f[1], e, 1)
    BY <1>2, <1>3, EntryRemoved
  <1>5. EntriesLeft(mm, f[2], e, 2)
    BY <1>3, <1>4, EntryRemoved
  <1>6. EntriesLeft(mm, f[3], e, 3)
    BY <1>3, <1>5, EntryRemoved
  <1>7. EntriesLeft(mm, f[4], e, 4)
    BY <1>3, <1>6, EntryRemoved
  <1>8. EntriesLeft(mm, f[5], e, 5)
    BY <1>3, <1>7, EntryRemoved
  <1> QED BY <1>1, <1>8

\* The memory after a round of the second loop.
TablesLeft(mm, x, e, n) ==
    /\ MemInv(x) /\ x.env_pgdir = mm.env_pgdir /\ x.pte = mm.pte
    /\ \A va \in 0..(n - 1) : ~HasTable(x, e, va)

\* free_table clears one slot of the directory.
LEMMA FreeTablePde ==
    ASSUME NEW x \in Memory, NEW e \in Env, NEW i \in Pdx, NEW y, y = free_table(x, e, i)
    PROVE  y.pde[e] = [x.pde[e] EXCEPT ![i] = NoPage]
  <1> DEFINE d == [x EXCEPT !.pde[e][i] = NoPage]
  <1>1. d.pde[e] = [x.pde[e] EXCEPT ![i] = NoPage]
    BY Fields
  <1>2. y = page_decref(d, x.pde[e][i])
    BY DEF free_table
  <1> HIDE DEF d
  <1>3. y.pde = d.pde
    BY <1>2, Fields DEF page_decref, page_free
  <1> QED BY <1>1, <1>3

\* A round of the second loop.
LEMMA TableFreed ==
    ASSUME NEW mm, NEW e \in Env, \A va \in Va : ~Mapped(mm, e, va),
           NEW n \in 0..4, NEW x, TablesLeft(mm, x, e, n),
           NEW y, y = IF HasTable(x, e, n) THEN free_table(x, e, PDX[n]) ELSE x
    PROVE  TablesLeft(mm, y, e, n + 1)
  <1>1. \A va \in 0..n : va = n \/ va \in 0..(n - 1)
    OBVIOUS
  <1>2. 0..(n + 1 - 1) = 0..n
    OBVIOUS
  <1>3. CASE ~HasTable(x, e, n)
    BY <1>1, <1>2, <1>3 DEF TablesLeft
  <1>4. CASE HasTable(x, e, n)
    <2>1. PDX[n] \in Pdx /\ x.pde[e][PDX[n]] # NoPage /\ MemInv(x) /\ x \in Memory
      BY <1>4, Addresses, Tables DEF HasTable, TablesLeft, MemInv
    <2>2. \A va \in Va : PDX[va] = PDX[n] => ~Mapped(x, e, va)
      BY DEF TablesLeft, Mapped
    <2>3. y = free_table(x, e, PDX[n])
      BY <1>4
    <2>4. MemInv(y) /\ y.env_pgdir = x.env_pgdir /\ y.pte = x.pte
      BY <2>1, <2>2, <2>3, FreeTableKeeps
    <2>5. y.pde[e] = [x.pde[e] EXCEPT ![PDX[n]] = NoPage]
      BY <2>1, <2>3, FreeTablePde
    <2>6. \A va \in 0..n : y.pde[e][PDX[va]] = NoPage
      <3> SUFFICES ASSUME NEW va \in 0..n PROVE y.pde[e][PDX[va]] = NoPage
        OBVIOUS
      <3>1. x.pde[e] \in [Pdx -> Page \cup {NoPage}]
        BY <2>1, Fields
      <3>3. va \in Va /\ PDX[va] \in Pdx
        BY Tables, Addresses
      <3>2. va # n => x.pde[e][PDX[va]] = NoPage
        BY <1>1 DEF TablesLeft, HasTable
      <3> QED BY <2>1, <2>5, <3>1, <3>2, <3>3
    <2> QED BY <1>2, <2>4, <2>6 DEF TablesLeft, HasTable
  <1> QED BY <1>3, <1>4

\* The second loop.
LEMMA TablesFreed ==
    ASSUME NEW mm, MemInv(mm), NEW e \in Env, \A va \in Va : ~Mapped(mm, e, va),
           NEW x, x = free_tables(mm, e)
    PROVE  TablesLeft(mm, x, e, 5)
  <1>1. PICK f : /\ f[0] = mm
                 /\ \A n \in 1..5 :
                       f[n] = IF HasTable(f[n - 1], e, n - 1)
                              THEN free_table(f[n - 1], e, PDX[n - 1]) ELSE f[n - 1]
                 /\ x = f[5]
    BY TableRounds
  <1> DEFINE R(a, n) == IF HasTable(a, e, n) THEN free_table(a, e, PDX[n]) ELSE a
  <1>2. TablesLeft(mm, f[0], e, 0)
    BY <1>1 DEF TablesLeft
  <1>3. /\ f[1] = R(f[0], 0) /\ f[2] = R(f[1], 1) /\ f[3] = R(f[2], 2)
        /\ f[4] = R(f[3], 3) /\ f[5] = R(f[4], 4)
    BY <1>1
  <1>4. TablesLeft(mm, f[1], e, 1)
    BY <1>2, <1>3, TableFreed
  <1>5. TablesLeft(mm, f[2], e, 2)
    BY <1>3, <1>4, TableFreed
  <1>6. TablesLeft(mm, f[3], e, 3)
    BY <1>3, <1>5, TableFreed
  <1>7. TablesLeft(mm, f[4], e, 4)
    BY <1>3, <1>6, TableFreed
  <1>8. TablesLeft(mm, f[5], e, 5)
    BY <1>3, <1>7, TableFreed
  <1> QED BY <1>1, <1>8

\* env_free: nothing of an environment is left, and nothing else changes that
\* others see.
LEMMA EnvFreed ==
    ASSUME NEW mm, MemInv(mm), NEW e \in Env, mm.env_pgdir[e] # NoPage,
           NEW n, n = env_free(mm, e)
    PROVE  /\ MemInv(n)
           /\ n.env_pgdir = [mm.env_pgdir EXCEPT ![e] = NoPage]
           /\ \A f \in Env \ {e} : n.pte[f] = mm.pte[f]
           /\ \A va \in Va : n.pte[e][va] = Zero
  <1>1. PICK x : x = remove_entries(mm, e)
    OBVIOUS
  <1>2. PICK y : y = free_tables(x, e)
    OBVIOUS
  <1>3. n = free_pgdir(y, e)
    BY <1>1, <1>2 DEF env_free
  <1>4. EntriesLeft(mm, x, e, 5)
    BY <1>1, EntriesRemoved
  <1>5. Va = 0..(5 - 1)
    BY Addresses
  <1>6. MemInv(x) /\ x.env_pgdir = mm.env_pgdir /\ \A va \in Va : ~Mapped(x, e, va)
    BY <1>4, <1>5 DEF EntriesLeft
  <1>7. TablesLeft(x, y, e, 5)
    BY <1>2, <1>6, TablesFreed
  <1>8. MemInv(y) /\ y.env_pgdir = mm.env_pgdir /\ y.pte = x.pte
        /\ \A va \in Va : ~HasTable(y, e, va)
    BY <1>5, <1>6, <1>7 DEF TablesLeft
  <1>9. \A i \in Pdx : y.pde[e][i] = NoPage
    BY <1>8 DEF HasTable, Pdx
  <1>10. MemInv(n) /\ n.env_pgdir = [mm.env_pgdir EXCEPT ![e] = NoPage] /\ n.pte = x.pte
    BY <1>3, <1>8, <1>9, FreePgdirKeeps
  <1>11. \A va \in Va : n.pte[e][va] = Zero
    <2>1. \A va \in Va : x.pte[e][va] = Zero
      BY <1>6 DEF MemInv, Nested
    <2> QED BY <1>10, <2>1
  <1>12. \A f \in Env \ {e} : n.pte[f] = mm.pte[f]
    <2> SUFFICES ASSUME NEW f \in Env \ {e} PROVE x.pte[f] = mm.pte[f]
      BY <1>10
    <2>1. x.pte[f] \in [Va -> PTE] /\ mm.pte[f] \in [Va -> PTE]
      BY <1>6, Fields DEF MemInv
    <2>2. \A va \in Va : x.pte[f][va] = mm.pte[f][va]
      BY <1>4 DEF EntriesLeft
    <2> QED BY <2>1, <2>2
  <1> QED BY <1>10, <1>11, <1>12

-----------------------------------------------------------------------------
(* What a step leaves alone.                                               *)

\* Nothing of x changes.
Same(x) ==
    /\ pc'[x] = pc[x] /\ utf'[x] = utf[x]
    /\ fork_child'[x] = fork_child[x] /\ fork_va'[x] = fork_va[x]
    /\ fork_pte'[x] = fork_pte[x]
    /\ env_pgfault_upcall'[x] = env_pgfault_upcall[x] /\ handler'[x] = handler[x]
    /\ m'.pte[x] = m.pte[x]
    /\ m'.env_pgdir[x] = NoPage <=> m.env_pgdir[x] = NoPage

\* What x has mapped keeps its contents.
DataSame(x) == \A va \in Va : Mapped(m, x, va) => data'[PageAt(x, va)] = data[PageAt(x, va)]

\* The fault handler never runs with less than its first frame.
LEMMA FrameIs ==
    ASSUME NEW e \in Env, FramesAt(e), utf[e] # <<>>
    PROVE  /\ utf[e][1][1] \in UserVa /\ utf[e][1][2] \in FaultPCs
           /\ utf[e][1][1] \in Va /\ PFTEMP \in Va
           /\ utf[e][1] = <<utf[e][1][1], utf[e][1][2]>>
           /\ Len(utf[e]) = 1 \/ Len(utf[e]) = 2
  <1>1. PICK s : s = utf[e] /\ s \in Seq(UserVa \X FaultPCs) /\ s # <<>> /\ Len(s) <= 2
    BY DEF FramesAt
  <1>2. Len(s) \in Nat /\ Len(s) # 0
    BY <1>1, LenProperties, EmptySeq
  <1>3. s[1] \in UserVa \X FaultPCs
    BY <1>1, <1>2, ElementOfSeq
  <1>4. utf[e][1] \in UserVa \X FaultPCs
    BY <1>1, <1>3
  <1>5. Len(utf[e]) = 1 \/ Len(utf[e]) = 2
    <2>1. \A n \in Nat : n # 0 /\ n <= 2 => n = 1 \/ n = 2
      OBVIOUS
    <2> QED BY <1>1, <1>2, <2>1
  <1> QED BY <1>4, <1>5, Addresses DEF PFTEMP

\* A step that does not touch x or its child keeps what holds of x.
LEMMA EnvSame ==
    ASSUME NEW x \in Env, EnvInv(x), Same(x), fork_kind' = fork_kind,
           fork_child[x] # NoEnv => fork_child[x] \in Env /\ Same(fork_child[x]),
           utf[x] # <<>> => DataSame(x)
    PROVE  EnvInv(x)'
  <1>1. DirAt(x)'
    BY DEF EnvInv, DirAt, Same
  <1>2. EntriesAt(x)' /\ UpcallAt(x)' /\ HandledAt(x)'
    BY DEF EnvInv, EntriesAt, UpcallAt, HandledAt, Same, Live, Mapped, Perm
  <1>3. FramesAt(x)'
    BY DEF EnvInv, FramesAt, Same, Perm
  <1>4. HandlerAt(x)'
    <2>1. CASE utf[x] = <<>>
      BY <2>1 DEF HandlerAt, Same
    <2>2. CASE utf[x] # <<>>
      <3>1. PICK va, l : va = utf[x][1][1] /\ l = utf[x][1][2] /\ va \in UserVa /\ va \in Va
        BY <2>2, FrameIs DEF EnvInv
      <3>2. /\ env_pgfault_upcall[x] /\ Live(x) /\ fork_kind = "cow"
            /\ pc[x] # "panic" =>
                  /\ Mapped(m, x, PFTEMP) <=> l \in {"copy", "map", "unmap"}
                  /\ l = "map" => data[PageAt(x, PFTEMP)] = data[PageAt(x, va)]
                  /\ l = "unmap" => PageAt(x, PFTEMP) = PageAt(x, va)
                  /\ l \in {"unmap", "ret"} => Perm(x, va) = {"W"}
        BY <2>2, <3>1 DEF EnvInv, HandlerAt
      <3>3. Mapped(m, x, va) /\ PFTEMP \in Va
        BY <2>2, <3>1, <3>2, FrameIs DEF EnvInv, EntriesAt
      <3>4. l = "map" /\ pc[x] # "panic" => data'[PageAt(x, PFTEMP)'] = data'[PageAt(x, va)']
        BY <2>2, <3>1, <3>2, <3>3 DEF DataSame, PageAt, Same
      <3>5. utf'[x][1][1] = va /\ utf'[x][1][2] = l
        BY <3>1 DEF Same
      <3> QED BY <3>2, <3>4, <3>5 DEF HandlerAt, Same, Live, Mapped, PageAt, Perm
    <2> QED BY <2>1, <2>2
  <1>5. ForkAt(x)'
    BY DEF EnvInv, ForkAt, Same
  <1>6. ChildAt(x)'
    <2>1. CASE fork_child[x] = NoEnv
      BY <2>1 DEF ChildAt, Same
    <2>2. CASE fork_child[x] # NoEnv
      <3>1. PICK c : c = fork_child[x] /\ c # NoEnv /\ Same(c)
        BY <2>2
      <3>2. fork_child'[x] = c
        BY <3>1 DEF Same
      <3>3. ChildAt(x)
        BY DEF EnvInv
      <3> QED BY <3>1, <3>2, <3>3 DEF ChildAt, Same, Mapped, PageAt
    <2> QED BY <2>1, <2>2
  <1> QED BY <1>1, <1>2, <1>3, <1>4, <1>5, <1>6 DEF EnvInv

-----------------------------------------------------------------------------
(* What the system calls do to the entries.                                *)

\* n is m with entry z at va of e.
Puts(n, e, va, z) ==
    /\ n.pte[e][va] = z
    /\ \A v \in Va \ {va} : n.pte[e][v] = m.pte[e][v]
    /\ \A f \in Env \ {e} : n.pte[f] = m.pte[f]

\* page_insert and page_remove write one entry.
LEMMA EnteredPuts ==
    ASSUME m \in Memory, NEW e \in Env, NEW va \in Va, NEW z,
           NEW n, n.pte = Entered(m.pte, e, va, z)
    PROVE  Puts(n, e, va, z)
  <1>1. m.pte \in [Env -> [Va -> PTE]]
    BY Fields
  <1> QED BY <1>1 DEF Entered, Puts

\* sys_page_alloc.
LEMMA AllocPuts ==
    ASSUME MemInv(m), NEW e \in Env, NEW va \in Va, m.env_pgdir[e] # NoPage,
           NEW r, r = env_page_alloc(m, e, va, {"W"})
    PROVE  /\ MemInv(r.mem) /\ r.mem.env_pgdir = m.env_pgdir
           /\ r.ret = "ok" => \E p \in Page :
                 Unused(m, p) /\ Puts(r.mem, e, va, [page |-> p, perm |-> {"W"}])
           /\ r.ret # "ok" => r.mem.pte = m.pte
  <1>1. {"W"} \in SUBSET Flag
    BY DEF Flag
  <1>2. /\ MemInv(r.mem)
        /\ r.mem.env_pgdir = m.env_pgdir
        /\ r.ret = "ok" => EntersFresh(m, r.mem, e, va, {"W"})
        /\ r.ret # "ok" => r.mem.pte = m.pte
        /\ r.ret = "ok" => Lost(r.mem) = Lost(m)
        /\ CountsFall(m, r.mem) /\ LosesLast(m, r.mem)
    BY <1>1, PageAllocGives
  <1>3. m \in Memory
    BY DEF MemInv
  <1> HIDE DEF MemInv
  <1>4. ASSUME r.ret = "ok"
        PROVE  \E p \in Page :
                  Unused(m, p) /\ Puts(r.mem, e, va, [page |-> p, perm |-> {"W"}])
    <2>1. PICK p \in Page : /\ Unused(m, p)
                            /\ r.mem.pte = Entered(m.pte, e, va, [page |-> p, perm |-> {"W"}])
      BY <1>2, <1>4 DEF EntersFresh
    <2>2. Puts(r.mem, e, va, [page |-> p, perm |-> {"W"}])
      BY <1>3, <2>1, EnteredPuts
    <2> QED BY <2>1, <2>2
  <1> QED BY <1>2, <1>4

\* sys_page_map.
LEMMA MapPuts ==
    ASSUME MemInv(m), NEW s \in Env, NEW sva \in Va, Mapped(m, s, sva),
           NEW e \in Env, NEW va \in Va, m.env_pgdir[e] # NoPage,
           NEW perm \in SUBSET Flag,
           NEW r, r = env_page_map(m, s, sva, e, va, perm)
    PROVE  /\ MemInv(r.mem) /\ r.mem.env_pgdir = m.env_pgdir
           /\ r.ret = "ok" => Puts(r.mem, e, va, [page |-> PageAt(s, sva), perm |-> perm])
           /\ r.ret # "ok" => r.mem.pte = m.pte
  <1>1. Mapped(m, s, sva) => m.pp_ref[m.pte[s][sva].page] < MaxRef
    <2>1. PICK p : p = m.pte[s][sva].page
      OBVIOUS
    <2>2. Cardinality(PteRefs(m, p)) < MaxRef
      BY ShareAssumption, FewSlots
    <2> QED BY <2>1, <2>2, CountOfMapped
  <1>2. /\ MemInv(r.mem) /\ r.mem.env_pgdir = m.env_pgdir
        /\ r.ret = "ok" =>
              /\ m.pte[s][sva].page \in Page
              /\ r.mem.pte = Entered(m.pte, e, va,
                                     [page |-> m.pte[s][sva].page, perm |-> perm])
        /\ r.ret # "ok" => r.mem.pte = m.pte
        /\ Lost(r.mem) = Lost(m)
    BY <1>1, PageMapGives
  <1>3. m \in Memory
    BY DEF MemInv
  <1> HIDE DEF MemInv
  <1>4. ASSUME r.ret = "ok"
        PROVE  Puts(r.mem, e, va, [page |-> PageAt(s, sva), perm |-> perm])
    <2>1. r.mem.pte = Entered(m.pte, e, va, [page |-> PageAt(s, sva), perm |-> perm])
      BY <1>2, <1>4 DEF PageAt
    <2> QED BY <1>3, <2>1, EnteredPuts
  <1> QED BY <1>2, <1>4

\* sys_page_unmap.
LEMMA RemovePuts ==
    ASSUME MemInv(m), NEW e \in Env, NEW va \in Va, NEW n, n = page_remove(m, e, va)
    PROVE  MemInv(n) /\ n.env_pgdir = m.env_pgdir /\ Puts(n, e, va, Zero)
  <1>1. MemInv(n) /\ n.env_pgdir = m.env_pgdir /\ n.pte = Entered(m.pte, e, va, Zero)
    BY RemoveKeeps
  <1>2. m \in Memory
    BY DEF MemInv
  <1> QED BY <1>1, <1>2, EnteredPuts

\* What is mapped after a step has the contents that it had before.
DataKept(n) ==
    \A x \in Env, va \in Va :
        Mapped(n, x, va) => data'[n.pte[x][va].page] = data[n.pte[x][va].page]

\* What is mapped keeps its contents: only free pages are cleared.
LEMMA SetMemKeeps ==
    ASSUME NEW n, MemInv(n), SetMem(n), data \in [Page -> Value]
    PROVE  m' = n /\ data' \in [Page -> Value] /\ DataKept(n)
  <1>1. data' \in [Page -> Value]
    BY ForkAssumption DEF SetMem
  <1>2. DataKept(n)
    <2> SUFFICES ASSUME NEW x \in Env, NEW va \in Va, Mapped(n, x, va)
                 PROVE  data'[n.pte[x][va].page] = data[n.pte[x][va].page]
      BY DEF DataKept
    <2>1. PICK p : p = n.pte[x][va].page
      OBVIOUS
    <2>2. p \in Page /\ p \notin n.page_free_list
      BY <2>1, MappedPage
    <2> QED BY <2>1, <2>2 DEF SetMem
  <1> QED BY <1>1, <1>2 DEF SetMem

-----------------------------------------------------------------------------
(* The frames of the fault handler.                                        *)

\* A frame for a fault on the program's pages.
LEMMA FramePushed ==
    ASSUME NEW e \in Env, NEW va \in UserVa, FramesAt(e), DOMAIN utf = Env,
           utf' = [utf EXCEPT ![e] = <<<<va, "alloc">>>> \o @],
           \/ utf[e] = <<>>
           \/ /\ Len(utf[e]) = 1 /\ utf[e][1] = <<DATA, "ret">> /\ va = STACK
              /\ Perm(e, DATA) = {"W"},
           m'.pte[e] = m.pte[e]
    PROVE  /\ FramesAt(e)' /\ DOMAIN utf' = Env /\ utf'[e] # <<>>
           /\ utf'[e][1][1] = va /\ utf'[e][1][2] = "alloc"
           /\ \A x \in Env \ {e} : utf'[x] = utf[x]
  <1>1. PICK s : s = utf[e] /\ s \in Seq(UserVa \X FaultPCs)
    BY DEF FramesAt
  <1>2. PICK h : h = <<<<va, "alloc">>>>
    OBVIOUS
  <1>3. h \in Seq(UserVa \X FaultPCs) /\ Len(h) = 1 /\ h[1] = <<va, "alloc">>
    BY <1>2 DEF FaultPCs
  <1>4. /\ h \o s \in Seq(UserVa \X FaultPCs)
        /\ Len(h \o s) = 1 + Len(s)
        /\ \A i \in 1 .. 1 + Len(s) : (h \o s)[i] = IF i <= 1 THEN h[i] ELSE s[i - 1]
    BY <1>1, <1>3, ConcatProperties
  <1>5. PICK t : t = h \o s
    OBVIOUS
  <1>6. utf'[e] = t /\ DOMAIN utf' = Env /\ \A x \in Env \ {e} : utf'[x] = utf[x]
    BY <1>1, <1>2, <1>5
  <1>7. \/ Len(s) = 0
        \/ Len(s) = 1 /\ s[1] = <<DATA, "ret">> /\ va = STACK /\ Perm(e, DATA) = {"W"}
    BY <1>1, EmptySeq
  <1>8. /\ t \in Seq(UserVa \X FaultPCs) /\ Len(t) = 1 + Len(s)
        /\ t[1] = <<va, "alloc">> /\ (Len(s) = 1 => t[2] = s[1])
    BY <1>3, <1>4, <1>5, <1>7
  <1>9. t # <<>> /\ Len(t) <= 2
    BY <1>7, <1>8, EmptySeq
  <1>10. Perm(e, DATA)' = Perm(e, DATA)
    BY DEF Perm
  <1>11. FramesAt(e)'
    BY <1>6, <1>7, <1>8, <1>9, <1>10 DEF FramesAt
  <1> QED BY <1>6, <1>8, <1>9, <1>11

\* The newest frame goes on.
LEMMA FrameMoves ==
    ASSUME NEW e \in Env, NEW l \in FaultPCs, FramesAt(e), utf[e] # <<>>,
           DOMAIN utf = Env, Handler(e, l),
           Perm(e, DATA)' = Perm(e, DATA) \/ utf[e][1][1] = DATA
    PROVE  /\ FramesAt(e)' /\ DOMAIN utf' = Env /\ utf'[e] # <<>>
           /\ utf'[e][1][1] = utf[e][1][1] /\ utf'[e][1][2] = l
           /\ \A x \in Env \ {e} : utf'[x] = utf[x]
  <1>1. PICK s : s = utf[e] /\ s \in Seq(UserVa \X FaultPCs)
    BY DEF FramesAt
  <1>2. PICK va, k : va = s[1][1] /\ k = s[1][2] /\ s[1] = <<va, k>> /\ va \in UserVa
    BY <1>1, FrameIs
  <1>3. Len(s) \in {1, 2} /\ 1 \in 1..Len(s) /\ <<va, l>> \in UserVa \X FaultPCs
    BY <1>1, <1>2, FrameIs
  <1>4. PICK t : t = [s EXCEPT ![1] = <<va, l>>]
    OBVIOUS
  <1>5. t \in Seq(UserVa \X FaultPCs) /\ Len(t) = Len(s)
        /\ \A j \in 1 .. Len(s) : t[j] = IF j = 1 THEN <<va, l>> ELSE s[j]
    BY <1>1, <1>3, <1>4, ExceptSeq
  <1>6. [s EXCEPT ![1][2] = l] = t
    <2>1. [s[1] EXCEPT ![2] = l] = <<va, l>>
      BY <1>2
    <2> QED BY <1>4, <2>1
  <1>7. utf'[e] = t /\ DOMAIN utf' = Env /\ \A x \in Env \ {e} : utf'[x] = utf[x]
    BY <1>1, <1>6 DEF Handler
  <1>8. t # <<>> /\ t[1] = <<va, l>> /\ (Len(t) = 2 => t[2] = s[2])
    BY <1>3, <1>5, EmptySeq
  <1>9. FramesAt(e)'
    <2>1. Len(t) <= 2
      BY <1>3, <1>5
    <2>2. ASSUME Len(t) = 2
          PROVE  t[1][1] = STACK /\ t[2] = <<DATA, "ret">> /\ Perm(e, DATA)' = {"W"}
      <3>1. s[1][1] = STACK /\ s[2] = <<DATA, "ret">> /\ Perm(e, DATA) = {"W"}
        BY <1>1, <1>5, <2>2 DEF FramesAt
      <3>2. utf[e][1][1] # DATA
        BY <1>1, <3>1 DEF STACK, DATA
      <3> QED BY <1>2, <1>8, <2>2, <3>1, <3>2
    <2> QED BY <1>5, <1>7, <2>1, <2>2 DEF FramesAt
  <1> QED BY <1>1, <1>2, <1>7, <1>8, <1>9

\* The newest frame goes.
LEMMA FramePopped ==
    ASSUME NEW e \in Env, FramesAt(e), utf[e] # <<>>, DOMAIN utf = Env,
           utf' = [utf EXCEPT ![e] = Tail(@)], m'.pte[e] = m.pte[e]
    PROVE  /\ FramesAt(e)' /\ DOMAIN utf' = Env
           /\ utf'[e] # <<>> => /\ utf'[e][1][1] = DATA /\ utf'[e][1][2] = "ret"
                                /\ Perm(e, DATA) = {"W"}
           /\ \A x \in Env \ {e} : utf'[x] = utf[x]
  <1>1. PICK s : s = utf[e] /\ s \in Seq(UserVa \X FaultPCs) /\ s # <<>>
    BY DEF FramesAt
  <1>2. PICK t : t = Tail(s)
    OBVIOUS
  <1>3. t \in Seq(UserVa \X FaultPCs) /\ Len(t) = Len(s) - 1
        /\ \A i \in 1 .. Len(t) : t[i] = s[i + 1]
    BY <1>1, <1>2, HeadTailProperties
  <1>4. Len(s) \in {1, 2}
    BY <1>1, FrameIs
  <1>5. utf'[e] = t /\ DOMAIN utf' = Env /\ \A x \in Env \ {e} : utf'[x] = utf[x]
    BY <1>1, <1>2
  <1>6. ASSUME t # <<>>
        PROVE  t[1] = <<DATA, "ret">> /\ Perm(e, DATA) = {"W"}
    <2>1. Len(t) # 0
      BY <1>3, <1>6, EmptySeq
    <2>2. Len(t) = 1 /\ Len(s) = 2 /\ t[1] = s[2]
      BY <1>3, <1>4, <2>1
    <2> QED BY <1>1, <2>2 DEF FramesAt
  <1>7. Len(t) <= 2 /\ Len(t) # 2
    <2>1. Len(t) = Len(s) - 1
      BY <1>3
    <2>2. CASE Len(s) = 1
      BY ONLY <2>1, <2>2
    <2>3. CASE Len(s) = 2
      BY ONLY <2>1, <2>3
    <2> QED BY <1>4, <2>2, <2>3
  <1>8. FramesAt(e)'
    <2>1. /\ utf'[e] \in Seq(UserVa \X FaultPCs)
          /\ Len(utf'[e]) <= 2 /\ Len(utf'[e]) # 2
      BY <1>3, <1>5, <1>7
    <2> QED BY <2>1 DEF FramesAt
  <1>9. t # <<>> => t[1][1] = DATA /\ t[1][2] = "ret" /\ Perm(e, DATA) = {"W"}
    BY ONLY <1>6
  <1> QED BY ONLY <1>5, <1>8, <1>9

-----------------------------------------------------------------------------
(* Which pages are shared after a step.                                    *)

\* The reasons for sharing that x is in do not go away.
Keeps(x) ==
    /\ utf'[x] = utf[x] \/ utf[x] = <<>> \/ utf[x][1][2] # "unmap"
    /\ \/ pc[x] \notin {"copy", "untemp", "mark", "panic"}
       \/ /\ fork_child'[x] = fork_child[x] /\ fork_va'[x] = fork_va[x]
          /\ \/ pc'[x] = pc[x]
             \/ pc[x] = "copy" /\ pc'[x] = "untemp"
             \/ pc[x] = "mark" /\ pc'[x] = "panic"

\* A reason holds as long as both environments keep theirs.
LEMMA ReasonStays ==
    ASSUME NEW x, NEW f, NEW va, NEW vb, Keeps(x), Keeps(f),
           Doubled(x, va, f, vb), Perm(f, vb)' = Perm(f, vb)
    PROVE  Doubled(x, va, f, vb)'
  <1>1. HandlerSees(x, va, f, vb) => HandlerSees(x, va, f, vb)'
    BY DEF Keeps, HandlerSees
  <1>2. ParentSees(x, va, f, vb) => ParentSees(x, va, f, vb)'
    BY DEF Keeps, ParentSees
  <1>3. ParentSees(f, vb, x, va) => ParentSees(f, vb, x, va)'
    BY DEF Keeps, ParentSees
  <1>4. NotYetMarked(x, va, f, vb) => NotYetMarked(x, va, f, vb)'
    BY DEF Keeps, NotYetMarked
  <1> QED BY <1>1, <1>2, <1>3, <1>4 DEF Doubled

\* Entries other than the new one are shared as before.
LEMMA PutsShares ==
    ASSUME NEW n, NEW d \in Env, NEW v \in Va, NEW z, Puts(n, d, v, z),
           NEW x \in Env, NEW f \in Env, NEW va \in Va, NEW vb \in Va,
           Shares(n, x, va, f, vb), x # d \/ va # v, f # d \/ vb # v
    PROVE  Shares(m, x, va, f, vb) /\ n.pte[f][vb].perm = Perm(f, vb)
  <1>1. n.pte[x][va] = m.pte[x][va]
    BY DEF Puts
  <1>2. n.pte[f][vb] = m.pte[f][vb]
    BY DEF Puts
  <1> QED BY <1>1, <1>2 DEF Shares, Mapped, Perm

\* A page that was unused is shared with nobody, and neither is an entry that
\* is cleared.
LEMMA FreshShares ==
    ASSUME NEW n, NEW d \in Env, NEW v \in Va, NEW z, Puts(n, d, v, z),
           z.page = NoPage \/ Unused(m, z.page),
           NEW x \in Env, NEW f \in Env, NEW va \in Va, NEW vb \in Va,
           Shares(n, x, va, f, vb)
    PROVE  (x # d \/ va # v) /\ (f # d \/ vb # v)
  <1>1. n.pte[d][v] = z
    BY DEF Puts
  <1>2. n.pte[x][va].page # NoPage /\ n.pte[f][vb].page = n.pte[x][va].page /\ (x # f \/ va # vb)
    BY DEF Shares, Mapped
  <1>3. x # d \/ va # v => n.pte[x][va].page # z.page
    <2> SUFFICES ASSUME x # d \/ va # v, n.pte[x][va].page = z.page PROVE FALSE
      OBVIOUS
    <2>1. n.pte[x][va] = m.pte[x][va]
      BY DEF Puts
    <2> QED BY <1>2, <2>1 DEF Unused
  <1>4. f # d \/ vb # v => n.pte[f][vb].page # z.page
    <2> SUFFICES ASSUME f # d \/ vb # v, n.pte[f][vb].page = z.page PROVE FALSE
      OBVIOUS
    <2>1. n.pte[f][vb] = m.pte[f][vb]
      BY DEF Puts
    <2> QED BY <1>2, <2>1 DEF Unused
  <1> QED BY <1>1, <1>2, <1>3, <1>4

\* Nothing changes in the tables.
LEMMA OwnSame ==
    ASSUME OwnPages, m'.pte = m.pte, \A x \in Env : Keeps(x)
    PROVE  OwnPages'
  <1> SUFFICES ASSUME NEW x \in Env, NEW f \in Env, NEW va \in Va, NEW vb \in Va,
                      Shares(m', x, va, f, vb)
               PROVE  Doubled(x, va, f, vb)'
    BY DEF OwnPages
  <1>1. Shares(m, x, va, f, vb) /\ Perm(f, vb)' = Perm(f, vb)
    BY DEF Shares, Mapped, Perm
  <1>2. Doubled(x, va, f, vb)
    BY <1>1 DEF OwnPages
  <1> QED BY <1>1, <1>2, ReasonStays

\* A fresh page is entered.
LEMMA OwnFresh ==
    ASSUME OwnPages, NEW d \in Env, NEW v \in Va, NEW z, Puts(m', d, v, z),
           z.page = NoPage \/ Unused(m, z.page), \A x \in Env : Keeps(x)
    PROVE  OwnPages'
  <1> SUFFICES ASSUME NEW x \in Env, NEW f \in Env, NEW va \in Va, NEW vb \in Va,
                      Shares(m', x, va, f, vb)
               PROVE  Doubled(x, va, f, vb)'
    BY DEF OwnPages
  <1>0. PICK n : n = m'
    OBVIOUS
  <1>1. (x # d \/ va # v) /\ (f # d \/ vb # v)
    BY <1>0, FreshShares
  <1>2. Shares(m, x, va, f, vb) /\ n.pte[f][vb].perm = Perm(f, vb)
    <2>1. Puts(n, d, v, z) /\ Shares(n, x, va, f, vb)
      BY <1>0
    <2> QED BY <1>1, <2>1, PutsShares
  <1>3. Doubled(x, va, f, vb) /\ Perm(f, vb)' = Perm(f, vb)
    BY <1>0, <1>2 DEF OwnPages, Perm
  <1> QED BY <1>3, ReasonStays

-----------------------------------------------------------------------------
(* The environments that a step does not touch.                            *)

Envs == \A e \in Env : EnvInv(e)

\* Only an embryo is a child.
LEMMA NoChild ==
    ASSUME Envs, NEW e \in Env, pc[e] # "embryo", e # NoEnv
    PROVE  \A x \in Env : fork_child[x] # e
  BY DEF Envs, EnvInv, ChildAt

\* NoEnv is no environment.
LEMMA NoEnvIsNone == NoEnv \notin Env
  BY ForkAssumption

\* Tables of others are not touched, nor is the contents of their pages.
LEMMA KeptSame ==
    ASSUME NEW x \in Env, DataKept(m'), m'.pte[x] = m.pte[x]
    PROVE  DataSame(x)
  BY DEF DataKept, DataSame, Mapped, PageAt

\* Everybody else keeps the invariant.
LEMMA OthersKeep ==
    ASSUME Envs, Shape, fork_kind' = fork_kind, NEW S \in SUBSET Env,
           \A x \in Env \ S : /\ Same(x)
                              /\ fork_child[x] \notin S
                              /\ utf[x] # <<>> => DataSame(x)
    PROVE  \A x \in Env \ S : EnvInv(x)'
  <1> SUFFICES ASSUME NEW x \in Env \ S PROVE EnvInv(x)'
    OBVIOUS
  <1>1. EnvInv(x) /\ Same(x) /\ (utf[x] # <<>> => DataSame(x))
    BY DEF Envs
  <1>2. fork_child[x] # NoEnv => fork_child[x] \in Env /\ Same(fork_child[x])
    BY DEF Shape
  <1> QED BY <1>1, <1>2, EnvSame

-----------------------------------------------------------------------------
(* Steps that change no table.                                             *)

\* sys_exofork fails.
LEMMA ExoforkFailsKeeps ==
    ASSUME CowInv, NEW e \in Env, ExoforkFails(e), UNCHANGED <<forks, fork_kind>>
    PROVE  CowInv'
  <1>1. Envs /\ Shape /\ EnvInv(e)
    BY DEF CowInv, Envs
  <1>2. \A x \in Env \ {e} : Same(x) /\ DataSame(x)
    BY <1>1 DEF ExoforkFails, Same, DataSame, Shape, Goto, forkVars, progVars, PageAt
  <1>3. \A x \in Env \ {e} : EnvInv(x)'
    <2>1. \A x \in Env \ {e} : fork_child[x] # e
      BY <1>1, NoChild, NoEnvIsNone DEF ExoforkFails
    <2> QED BY <1>1, <1>2, <2>1, OthersKeep
  <1>4. EnvInv(e)'
    BY <1>1 DEF ExoforkFails, Goto, forkVars, progVars, Executes, Shape, EnvInv, DirAt, EntriesAt, UpcallAt, HandledAt, FramesAt,
        HandlerAt, ForkAt, ChildAt, Live, LoopPCs, Mapped, Perm, PageAt
  <1>5. Shape' /\ OneParent'
    BY DEF CowInv, Shape, OneParent, ExoforkFails, Goto, forkVars, progVars
  <1>6. OwnPages'
    <2>1. \A x \in Env : Keeps(x)
      BY <1>1 DEF ExoforkFails, Goto, Keeps, Shape, forkVars
    <2> QED BY <2>1, OwnSame DEF CowInv, ExoforkFails
  <1>7. MemInv(m)'
    BY DEF CowInv, ExoforkFails
  <1> QED BY <1>3, <1>4, <1>5, <1>6, <1>7 DEF CowInv

\* The lowest of some addresses.
LEMMA LowestVa ==
    ASSUME NEW S \in SUBSET Va, S # {}
    PROVE  Min(S) \in S /\ \A y \in S : Min(S) <= y
  <1>1. S \subseteq 0..4
    BY Addresses
  <1>2. \E x \in S : \A y \in S : x <= y
    <2>1. CASE 0 \in S
      BY <1>1, <2>1
    <2>2. CASE 0 \notin S /\ 1 \in S
      <3>1. \A y \in S : 1 <= y
        BY <1>1, <2>2
      <3> QED BY <2>2, <3>1
    <2>3. CASE 0 \notin S /\ 1 \notin S /\ 2 \in S
      <3>1. \A y \in S : 2 <= y
        BY <1>1, <2>3
      <3> QED BY <2>3, <3>1
    <2>4. CASE 0 \notin S /\ 1 \notin S /\ 2 \notin S /\ 3 \in S
      <3>1. \A y \in S : 3 <= y
        BY <1>1, <2>4
      <3> QED BY <2>4, <3>1
    <2>5. CASE 0 \notin S /\ 1 \notin S /\ 2 \notin S /\ 3 \notin S
      <3>1. \A y \in S : y = 4
        BY <1>1, <2>5
      <3> QED BY <3>1
    <2> QED BY <2>1, <2>2, <2>3, <2>4, <2>5
  <1> QED BY <1>2 DEF Min

\* The next page of a fork.
LEMMA LoopKeeps ==
    ASSUME CowInv, NEW e \in Env, Loop(e), UNCHANGED <<forks, fork_kind>>
    PROVE  CowInv'
  <1>1. /\ Envs /\ Shape /\ EnvInv(e)
        /\ utf[e] = <<>> /\ pc[e] = "loop" /\ Live(e)
    BY DEF CowInv, Envs, Loop, Executes, Live
  <1>2. \A x \in Env \ {e} : Same(x) /\ DataSame(x)
    BY <1>1 DEF Loop, Same, DataSame, Shape, Goto, progVars, PageAt
  <1>3. \A x \in Env \ {e} : EnvInv(x)'
    <2>1. \A x \in Env \ {e} : fork_child[x] # e
      BY <1>1, NoChild, NoEnvIsNone
    <2> QED BY <1>1, <1>2, <2>1, OthersKeep
  <1>4. /\ fork_kind \in {"cow", "v0", "dumb"}
        /\ fork_va[e] \in 0..NVA /\ fork_va[e] <= 4 /\ ToDo(e) \in SUBSET Va
    BY <1>1, ForkAssumption DEF Shape, ToDo, EnvInv, ForkAt, EXSTACK
  <1>5. \A va \in Va : Considered(e, va) => va \in UserVa
    <2>1. \A va \in Va : Mapped(m, e, va) => va # UTEMP /\ va # PFTEMP
      BY <1>1 DEF EnvInv, EntriesAt
    <2>2. \A va \in Va : Mapped(m, e, va) /\ fork_kind # "cow" => va # EXSTACK
      BY <1>1 DEF EnvInv, EntriesAt
    <2>3. \A va \in Va : va \in {UTEMP, PFTEMP, EXSTACK} \cup UserVa
      BY Addresses DEF UTEMP, PFTEMP, EXSTACK
    <2> QED BY <1>4, <2>1, <2>2, <2>3 DEF Considered
  <1>6. \A va \in UserVa : Considered(e, va) /\ va \in Va
    <2>1. \A va \in UserVa : Mapped(m, e, va) /\ va # EXSTACK /\ va \in Va
      BY <1>1, Addresses DEF EnvInv, EntriesAt, EXSTACK
    <2> QED BY <1>4, <2>1 DEF Considered
  <1>7. ASSUME ToDo(e) # {} PROVE EnvInv(e)' /\ Shape'
    <2>1. PICK va : va = Min(ToDo(e))
      OBVIOUS
    <2>2. va \in ToDo(e) /\ \A y \in ToDo(e) : va <= y
      BY <1>4, <1>7, <2>1, LowestVa
    <2>3. /\ va \in UserVa /\ va \in Va /\ va >= fork_va[e]
          /\ \A u \in UserVa : u >= fork_va[e] => u >= va
      BY <1>5, <1>6, <2>2, Addresses DEF ToDo
    <2>4. /\ fork_va' = [fork_va EXCEPT ![e] = va]
          /\ fork_pte' = [fork_pte EXCEPT ![e] = Perm(e, va)]
          /\ Goto(e, Way(e, Perm(e, va)))
      BY <1>7, <2>1 DEF Loop
    <2>5. /\ Mapped(m, e, va) /\ Perm(e, va) \in {{"W"}, {"COW"}}
          /\ fork_kind # "cow" => Perm(e, va) = {"W"}
      BY <1>1, <2>3 DEF EnvInv, EntriesAt
    <2>6. Way(e, Perm(e, va)) = IF fork_kind = "cow" THEN "share" ELSE "alloc"
      BY <2>5 DEF Way
    <2>7. EnvInv(e)'
      <3>1. /\ fork_va'[e] = va /\ fork_pte'[e] = Perm(e, va)
            /\ pc'[e] = IF fork_kind = "cow" THEN "share" ELSE "alloc"
            /\ fork_child'[e] = fork_child[e] /\ pc'[fork_child[e]] = pc[fork_child[e]]
        <4>1. fork_child[e] # NoEnv /\ fork_child[e] \in Env /\ fork_child[e] # e
          BY <1>1 DEF Shape, EnvInv, ChildAt, ForkAt, LoopPCs
        <4>2. fork_child' = fork_child
          BY DEF Loop
        <4> QED BY <1>1, <2>4, <2>6, <4>1, <4>2 DEF Shape, Goto
      <3>2. UNCHANGED <<m, data, progVars, utf, fork_child, fork_kind>>
        BY DEF Loop
      <3>3. ChildAt(e)'
        <4>1. \A u \in UserVa : (u < va => u < fork_va[e]) /\ (u >= va => u >= fork_va[e])
          BY <1>4, <2>3, Addresses
        <4>2. \A u \in UserVa : u >= fork_va[e] => u = fork_va[e] \/ u > fork_va[e]
          BY <1>4, Addresses
        <4> QED BY <1>1, <2>3, <3>1, <3>2, <4>1, <4>2, Addresses DEF EnvInv, ChildAt, progVars, Mapped, PageAt
      <3>4. HandledAt(e)'
        <4>1. \A u \in UserVa : u >= va => u >= fork_va[e]
          BY <1>4, <2>3, Addresses
        <4> QED BY <1>1, <3>1, <3>2, <4>1 DEF EnvInv, HandledAt, progVars, Perm, LoopPCs
      <3> QED BY <1>1, <2>3, <2>5, <3>1, <3>2, <3>3, <3>4 DEF EnvInv, DirAt, EntriesAt, UpcallAt,
               FramesAt, HandlerAt, ForkAt, Live, LoopPCs, Mapped, Perm, PageAt, progVars
    <2>8. Shape'
      BY <1>1, <2>3, <2>4, <2>5, <2>6, Addresses DEF Shape, Goto, Loop, progVars, ForkPCs, Flag
    <2> QED BY <2>7, <2>8
  <1>8. ASSUME ToDo(e) = {} PROVE EnvInv(e)' /\ Shape'
    <2>1. /\ fork_va' = [fork_va EXCEPT ![e] = NVA]
          /\ Goto(e, IF fork_kind = "cow" THEN "xstack" ELSE "status")
          /\ UNCHANGED fork_pte
      BY <1>8 DEF Loop
    <2>2. \A u \in UserVa : u < fork_va[e] /\ u < NVA
      <3>1. \A u \in UserVa : ~(u >= fork_va[e])
        BY <1>6, <1>8 DEF ToDo
      <3> QED BY <1>4, <3>1, Addresses
    <2>3. fork_child[e] # NoEnv /\ fork_child[e] \in Env /\ fork_child[e] # e
      BY <1>1 DEF Shape, EnvInv, ChildAt, ForkAt, LoopPCs
    <2>4. UNCHANGED <<m, data, progVars, utf, fork_child, fork_kind>>
      BY DEF Loop
    <2>5. /\ fork_va'[e] = NVA /\ pc'[e] = IF fork_kind = "cow" THEN "xstack" ELSE "status"
          /\ fork_child'[e] = fork_child[e] /\ pc'[fork_child[e]] = pc[fork_child[e]]
      BY <1>1, <2>1, <2>3, <2>4 DEF Shape, Goto
    <2>6. ChildAt(e)'
      <3>1. \A u \in UserVa : ~(u > NVA) /\ u # NVA
        BY Addresses
      <3> QED BY <1>1, <2>2, <2>3, <2>4, <2>5, <3>1 DEF EnvInv, ChildAt, progVars, Mapped, PageAt
    <2>7. EnvInv(e)'
      BY <1>1, <2>4, <2>5, <2>6 DEF EnvInv, DirAt, EntriesAt, UpcallAt, HandledAt,
         FramesAt, HandlerAt, ForkAt, Live, LoopPCs, Mapped, Perm, PageAt, progVars
    <2>8. Shape'
      BY <1>1, <2>1, Addresses DEF Shape, Goto, Loop, progVars, ForkPCs
    <2> QED BY <2>7, <2>8
  <1>9. MemInv(m)' /\ OneParent'
    BY DEF CowInv, OneParent, Loop
  <1>10. OwnPages'
    <2>1. \A x \in Env : Keeps(x)
      BY <1>1 DEF Loop, Goto, Keeps, Shape
    <2> QED BY <2>1, OwnSame DEF CowInv, Loop
  <1> QED BY <1>3, <1>7, <1>8, <1>9, <1>10 DEF CowInv

\* The copy of a page for a child: no fault handler runs.
LEMMA CopyKeeps ==
    ASSUME CowInv, NEW e \in Env, Copy(e), UNCHANGED <<forks, fork_kind>>
    PROVE  CowInv'
  <1>1. /\ Envs /\ Shape /\ EnvInv(e)
        /\ utf[e] = <<>> /\ pc[e] = "copy" /\ Live(e)
    BY DEF CowInv, Envs, Copy, AtPage, Executes, Live
  <1>2. fork_kind # "cow" /\ \A x \in Env : utf[x] = <<>>
    BY <1>1 DEF Envs, EnvInv, ForkAt, HandlerAt
  <1>3. /\ UNCHANGED <<m, progVars, forkVars, utf>> /\ Goto(e, "untemp")
        /\ data' = [data EXCEPT ![PageAt(e, UTEMP)] = data[PageAt(e, fork_va[e])]]
    BY DEF Copy, CopyTo
  <1>4. \A x \in Env \ {e} : EnvInv(x)'
    <2>1. \A x \in Env \ {e} : Same(x)
      BY <1>1, <1>3 DEF Same, Shape, Goto, progVars, forkVars
    <2>2. \A x \in Env \ {e} : fork_child[x] # e
      BY <1>1, NoChild, NoEnvIsNone
    <2> QED BY <1>1, <1>2, <2>1, <2>2, OthersKeep
  <1>5. EnvInv(e)'
    <2>1. fork_child[e] # NoEnv /\ fork_child[e] \in Env /\ fork_child[e] # e
      BY <1>1 DEF Shape, EnvInv, ChildAt, ForkAt, LoopPCs
    <2>2. /\ pc'[e] = "untemp" /\ fork_child'[e] = fork_child[e]
          /\ pc'[fork_child[e]] = pc[fork_child[e]]
      BY <1>1, <1>3, <2>1 DEF Shape, Goto, forkVars
    <2> QED BY <1>1, <1>2, <1>3, <2>1, <2>2 DEF EnvInv, DirAt, EntriesAt, UpcallAt, HandledAt,
         FramesAt, HandlerAt, ForkAt, ChildAt, Live, LoopPCs, Mapped, Perm, PageAt,
         progVars, forkVars
  <1>6. Shape'
    <2>1. data[PageAt(e, fork_va[e])] \in Value
      <3>1. Mapped(m, e, fork_va[e]) /\ fork_va[e] \in Va
        BY <1>1, Addresses DEF EnvInv, ForkAt, EntriesAt, LoopPCs
      <3>2. PageAt(e, fork_va[e]) \in Page
        BY <3>1, MappedPage DEF CowInv, PageAt
      <3> QED BY <1>1, <3>2 DEF Shape
    <2> QED BY <1>1, <1>3, <2>1 DEF Shape, Goto, progVars, forkVars, ForkPCs
  <1>7. MemInv(m)' /\ OneParent'
    BY <1>3 DEF CowInv, OneParent, forkVars
  <1>8. OwnPages'
    <2>1. \A x \in Env : Keeps(x)
      BY <1>1, <1>3 DEF Goto, Keeps, Shape, forkVars
    <2> QED BY <1>3, <2>1, OwnSame DEF CowInv
  <1> QED BY <1>4, <1>5, <1>6, <1>7, <1>8 DEF CowInv

\* The child starts, or there is no child any more.
LEMMA StatusKeeps ==
    ASSUME CowInv, NEW e \in Env, Status(e), UNCHANGED <<forks, fork_kind>>
    PROVE  CowInv'
  <1>1. /\ Envs /\ Shape /\ EnvInv(e)
        /\ utf[e] = <<>> /\ pc[e] = "status" /\ Live(e)
    BY DEF CowInv, Envs, Status, AtPage, Executes, Live
  <1>2. PICK c : c = fork_child[e]
    OBVIOUS
  <1>3. UNCHANGED <<m, data, env_pgfault_upcall, utf, forks, fork_kind>>
    BY DEF Status
  <1>4. fork_va[e] = NVA
    BY <1>1 DEF EnvInv, ForkAt
  <1>5. \A x \in Env : fork_child[x] # e
    BY <1>1, NoChild, NoEnvIsNone
  <1>6. CASE c = NoEnv
    <2>1. Goto(e, "panic") /\ UNCHANGED <<handler, forkVars>>
      BY <1>2, <1>6 DEF Status
    <2>2. \A x \in Env \ {e} : EnvInv(x)'
      <3>1. \A x \in Env \ {e} : Same(x) /\ DataSame(x)
        BY <1>1, <1>3, <2>1 DEF Same, DataSame, Shape, Goto, forkVars, PageAt
      <3> QED BY <1>1, <1>3, <1>5, <3>1, OthersKeep
    <2>3. EnvInv(e)'
      BY <1>1, <1>2, <1>3, <1>6, <2>1 DEF Goto, Shape, EnvInv, DirAt, EntriesAt, UpcallAt,
         HandledAt, FramesAt, HandlerAt, ForkAt, ChildAt, Live, LoopPCs, Mapped, Perm, PageAt,
         forkVars
    <2>4. Shape' /\ OneParent' /\ MemInv(m)'
      BY <1>3, <2>1 DEF CowInv, Shape, OneParent, Goto, forkVars
    <2>5. OwnPages'
      <3>1. \A x \in Env : Keeps(x)
        BY <1>1, <1>3, <2>1 DEF Goto, Keeps, Shape, forkVars
      <3> QED BY <1>3, <3>1, OwnSame DEF CowInv
    <2> QED BY <2>2, <2>3, <2>4, <2>5 DEF CowInv
  <1>7. CASE c # NoEnv
    <2>1. /\ c \in Env /\ c # e /\ pc[c] = "embryo" /\ EnvInv(c)
          /\ \A va \in UserVa : Mapped(m, c, va)
          /\ fork_kind = "cow" => env_pgfault_upcall[c] /\ env_pgfault_upcall[e]
      <3>1. \A va \in UserVa : va < NVA
        BY Addresses
      <3> QED BY <1>1, <1>2, <1>4, <1>7, <3>1 DEF Shape, Envs, EnvInv, ChildAt
    <2>2. /\ pc' = [pc EXCEPT ![e] = "run", ![c] = "run"]
          /\ handler' = [handler EXCEPT ![c] = handler[e]]
          /\ Reset(e)
      BY <1>2, <1>7 DEF Status
    <2>3. /\ pc'[e] = "run" /\ pc'[c] = "run" /\ handler'[c] = handler[e] /\ handler'[e] = handler[e]
          /\ fork_child'[e] = NoEnv /\ fork_va'[e] = 0 /\ fork_pte'[e] = {}
          /\ fork_child'[c] = fork_child[c] /\ fork_va'[c] = fork_va[c]
          /\ \A x \in Env \ {e, c} : /\ pc'[x] = pc[x] /\ handler'[x] = handler[x]
                                     /\ fork_child'[x] = fork_child[x]
                                     /\ fork_va'[x] = fork_va[x] /\ fork_pte'[x] = fork_pte[x]
      BY <1>1, <2>1, <2>2 DEF Shape, Reset
    <2>4. fork_kind # "cow" => ~env_pgfault_upcall[c] /\ ~env_pgfault_upcall[e]
      <3>1. EXSTACK \in Va
        BY Addresses DEF EXSTACK
      <3> QED BY <1>1, <2>1, <3>1 DEF EnvInv, UpcallAt, EntriesAt
    <2>5. \A x \in Env \ {e, c} : EnvInv(x)'
      <3>1. \A x \in Env \ {e, c} : Same(x) /\ DataSame(x)
        BY <1>1, <1>3, <2>1, <2>3 DEF Same, DataSame, PageAt
      <3>2. \A x \in Env \ {e, c} : fork_child[x] # c
        BY <1>2, <1>7 DEF CowInv, OneParent
      <3>3. {e, c} \in SUBSET Env /\ \A x \in Env \ {e, c} : fork_child[x] \notin {e, c}
        BY <1>5, <2>1, <3>2
      <3> QED BY <1>1, <1>3, <3>1, <3>3, OthersKeep
    <2>6. EnvInv(e)'
      <3>1. fork_kind # "cow" => \A va \in UserVa : Perm(e, va) = {"W"}
        BY <1>1, Addresses DEF EnvInv, EntriesAt
      <3> QED BY <1>1, <1>3, <2>1, <2>3, <2>4, <3>1 DEF EnvInv, DirAt, EntriesAt, UpcallAt,
         HandledAt, FramesAt, HandlerAt, ForkAt, ChildAt, Live, LoopPCs, Mapped, Perm
    <2>7. EnvInv(c)'
      <3>1. utf[c] = <<>> /\ fork_child[c] = NoEnv /\ fork_va[c] = 0
        BY <2>1 DEF EnvInv, HandlerAt, ForkAt, Live
      <3>2. handler[e] = env_pgfault_upcall[c]
        <4>1. handler[e] = env_pgfault_upcall[e]
          BY <1>1 DEF EnvInv, UpcallAt
        <4>2. env_pgfault_upcall[e] \in BOOLEAN /\ env_pgfault_upcall[c] \in BOOLEAN
          BY <1>1, <2>1 DEF Shape
        <4> QED BY <2>1, <2>4, <4>1, <4>2
      <3>3. fork_kind # "cow" => \A va \in UserVa : Perm(c, va) = {"W"}
        BY <2>1, Addresses DEF EnvInv, EntriesAt
      <3> QED BY <1>3, <2>1, <2>3, <2>4, <3>1, <3>2, <3>3 DEF EnvInv, DirAt, EntriesAt, UpcallAt,
         HandledAt, FramesAt, HandlerAt, ForkAt, ChildAt, Live, LoopPCs, Mapped, Perm
    <2>8. Shape' /\ OneParent' /\ MemInv(m)'
      <3>1. Shape'
        <4>1. handler[e] \in BOOLEAN
          BY <1>1 DEF Shape
        <4>2. /\ pc' \in [Env -> ForkPCs \cup {"free", "embryo", "run", "panic"}]
              /\ handler' \in [Env -> BOOLEAN]
          BY <1>1, <2>2, <4>1 DEF Shape
        <4>3. 0 \in 0..NVA /\ {} \in SUBSET Flag
          BY Addresses
        <4>4. /\ fork_child' \in [Env -> Env \cup {NoEnv}]
              /\ fork_va' \in [Env -> 0..NVA]
              /\ fork_pte' \in [Env -> SUBSET Flag]
          BY <1>1, <2>2, <4>3 DEF Shape, Reset
        <4> QED BY <1>1, <1>3, <4>2, <4>4 DEF Shape
      <3>2. OneParent'
        <4>1. \A x \in Env : fork_child'[x] = fork_child[x] \/ fork_child'[x] = NoEnv
          BY <1>1, <2>3
        <4> QED BY <4>1 DEF CowInv, OneParent
      <3> QED BY <1>3, <3>1, <3>2 DEF CowInv
    <2>9. OwnPages'
      <3>1. \A x \in Env : Keeps(x)
        BY <1>1, <1>3, <2>1, <2>3 DEF Keeps
      <3> QED BY <1>3, <3>1, OwnSame DEF CowInv
    <2> QED BY <2>5, <2>6, <2>7, <2>8, <2>9 DEF CowInv
  <1> QED BY <1>6, <1>7

\* Nobody sees a page that another environment may write while the fault handler
\* runs.
LEMMA OtherPages ==
    ASSUME Envs, OwnPages, NEW e \in Env, NEW x \in Env, e # x, utf[x] # <<>>,
           NEW va \in Va, Mapped(m, e, va), Perm(e, va) = {"W"}, NEW vb \in Va
    PROVE  PageAt(x, vb) # PageAt(e, va)
  <1> SUFFICES ASSUME PageAt(x, vb) = PageAt(e, va) PROVE FALSE
    OBVIOUS
  <1>1. Doubled(e, va, x, vb)
    BY DEF OwnPages, Shares, PageAt, Perm
  <1>2. fork_kind = "cow" /\ Live(x)
    BY DEF Envs, EnvInv, HandlerAt
  <1>3. pc[e] \notin {"copy", "untemp"} /\ pc[x] \notin {"copy", "untemp"}
    BY <1>2 DEF Envs, EnvInv, ForkAt
  <1>4. fork_child[e] # x
    BY <1>2, NoEnvIsNone DEF Envs, EnvInv, ChildAt, Live
  <1> QED BY <1>1, <1>3, <1>4 DEF Doubled, HandlerSees, ParentSees, NotYetMarked

\* One page of an environment is written.
LEMMA WriteSame ==
    ASSUME Envs, Shape, OwnPages, NEW e \in Env, NEW va \in Va,
           Mapped(m, e, va), Perm(e, va) = {"W"},
           NEW v, data' = [data EXCEPT ![PageAt(e, va)] = v],
           NEW x \in Env, e # x, utf[x] # <<>>
    PROVE  DataSame(x)
  <1>1. \A vb \in Va : PageAt(x, vb) # PageAt(e, va)
    BY OtherPages
  <1> QED BY <1>1 DEF DataSame, Shape

\* A store that does not fault.
LEMMA StoreKeeps ==
    ASSUME CowInv, NEW e \in Env, NEW va \in UserVa, NEW v \in Value, Store(e, va, v),
           user_mem_check(m, e, va, {"W"}), UNCHANGED <<forks, fork_kind>>
    PROVE  CowInv'
  <1>1. /\ Envs /\ Shape /\ OwnPages /\ EnvInv(e) /\ utf[e] = <<>> /\ pc[e] # "embryo"
    BY DEF CowInv, Envs, Store, Executes
  <1>2. /\ UNCHANGED <<m, progVars, pc, forkVars, utf>>
        /\ data' = [data EXCEPT ![PageAt(e, va)] = v]
    BY DEF Store
  <1>3. va \in Va /\ Mapped(m, e, va) /\ Perm(e, va) = {"W"}
    BY <1>1, Addresses DEF user_mem_check, Perm, EnvInv, EntriesAt
  <1>4. \A x \in Env \ {e} : EnvInv(x)'
    <2>1. \A x \in Env \ {e} : Same(x)
      BY <1>2 DEF Same, progVars, forkVars
    <2>2. \A x \in Env \ {e} : fork_child[x] # e
      BY <1>1, NoChild, NoEnvIsNone
    <2>3. \A x \in Env \ {e} : utf[x] # <<>> => DataSame(x)
      BY <1>1, <1>2, <1>3, WriteSame
    <2> QED BY <1>1, <2>1, <2>2, <2>3, OthersKeep
  <1>5. EnvInv(e)'
    <2>1. DirAt(e)' /\ UpcallAt(e)' /\ HandledAt(e)'
      BY <1>1, <1>2 DEF EnvInv, DirAt, UpcallAt, HandledAt, Live, LoopPCs, Mapped, Perm,
         progVars, forkVars
    <2>2. EntriesAt(e)' /\ FramesAt(e)'
      BY <1>1, <1>2 DEF EnvInv, EntriesAt, FramesAt, Live, Mapped, Perm
    <2>3. HandlerAt(e)'
      BY <1>1, <1>2 DEF HandlerAt
    <2>4. ForkAt(e)'
      BY <1>1, <1>2 DEF EnvInv, ForkAt, LoopPCs, forkVars
    <2>5. ChildAt(e)'
      BY <1>1, <1>2 DEF EnvInv, ChildAt, Mapped, PageAt, progVars, forkVars
    <2> QED BY <2>1, <2>2, <2>3, <2>4, <2>5 DEF EnvInv
  <1>6. Shape' /\ MemInv(m)' /\ OneParent'
    BY <1>2 DEF CowInv, Shape, OneParent, progVars, forkVars
  <1>7. OwnPages'
    <2>1. \A x \in Env : Keeps(x)
      BY <1>2 DEF Keeps, forkVars
    <2> QED BY <1>1, <1>2, <2>1, OwnSame
  <1> QED BY <1>4, <1>5, <1>6, <1>7 DEF CowInv

\* The fault handler copies the page.
LEMMA PfCopyKeeps ==
    ASSUME CowInv, NEW e \in Env, PfCopy(e), UNCHANGED <<forks, fork_kind>>
    PROVE  CowInv'
  <1>1. /\ Envs /\ Shape /\ OwnPages /\ EnvInv(e) /\ utf[e] # <<>>
        /\ pc[e] # "panic" /\ utf[e][1][2] = "copy"
    BY DEF CowInv, Envs, PfCopy, InHandler
  <1>2. PICK va : va = utf[e][1][1] /\ va \in UserVa /\ va \in Va /\ PFTEMP \in Va
    BY <1>1, FrameIs DEF EnvInv
  <1>3. /\ UNCHANGED <<m, progVars, pc, forkVars>> /\ Handler(e, "map")
        /\ data' = [data EXCEPT ![PageAt(e, PFTEMP)] = data[PageAt(e, va)]]
    BY <1>2 DEF PfCopy, CopyTo
  <1>4. Mapped(m, e, PFTEMP) /\ Perm(e, PFTEMP) = {"W"} /\ Mapped(m, e, va) /\ Live(e)
    <2>1. PFTEMP \notin UserVa
      BY Addresses DEF PFTEMP
    <2> QED BY <1>1, <1>2, <2>1 DEF EnvInv, HandlerAt, EntriesAt
  <1>5. PageAt(e, PFTEMP) \in Page /\ PageAt(e, va) \in Page
    BY <1>2, <1>4, MappedPage DEF CowInv, PageAt
  <1>6. /\ FramesAt(e)' /\ DOMAIN utf' = Env /\ utf'[e] # <<>>
        /\ utf'[e][1][1] = va /\ utf'[e][1][2] = "map"
        /\ \A x \in Env \ {e} : utf'[x] = utf[x]
    <2>1. Perm(e, DATA)' = Perm(e, DATA)
      BY <1>3 DEF Perm
    <2>2. FramesAt(e) /\ DOMAIN utf = Env /\ "map" \in FaultPCs
      BY <1>1 DEF EnvInv, Shape, FaultPCs
    <2> QED BY <1>1, <1>2, <1>3, <2>1, <2>2, FrameMoves
  <1>7. \A x \in Env \ {e} : EnvInv(x)'
    <2>1. \A x \in Env \ {e} : Same(x)
      BY <1>3, <1>6 DEF Same, progVars, forkVars
    <2>2. \A x \in Env \ {e} : fork_child[x] # e
      BY <1>1, <1>4, NoChild, NoEnvIsNone DEF Live
    <2>3. \A x \in Env \ {e} : utf[x] # <<>> => DataSame(x)
      BY <1>1, <1>2, <1>3, <1>4, WriteSame
    <2> QED BY <1>1, <2>1, <2>2, <2>3, OthersKeep
  <1>8. EnvInv(e)'
    <2>1. data'[PageAt(e, PFTEMP)] = data'[PageAt(e, va)]
      BY <1>1, <1>3, <1>5 DEF Shape
    <2>2. HandlerAt(e)'
      BY <1>1, <1>2, <1>3, <1>4, <1>6, <2>1 DEF EnvInv, HandlerAt, Live, Mapped, Perm, PageAt,
         progVars
    <2> QED BY <1>1, <1>3, <1>6, <2>2 DEF EnvInv, DirAt, EntriesAt, UpcallAt, HandledAt,
       ForkAt, ChildAt, Live, LoopPCs, Mapped, Perm, PageAt, progVars, forkVars
  <1>9. Shape' /\ MemInv(m)' /\ OneParent'
    <2>1. data' \in [Page -> Value]
      BY <1>1, <1>3, <1>5 DEF Shape
    <2> QED BY <1>3, <1>6, <2>1 DEF CowInv, Shape, OneParent, progVars, forkVars
  <1>10. OwnPages'
    <2>1. \A x \in Env : Keeps(x)
      BY <1>1, <1>3, <1>6 DEF Keeps, forkVars
    <2> QED BY <1>1, <1>3, <2>1, OwnSame
  <1> QED BY <1>7, <1>8, <1>9, <1>10 DEF CowInv

\* A fault for which there are an upcall and a stack.
LEMMA FaultPushes ==
    ASSUME CowInv, NEW e \in Env, NEW va \in UserVa, PageFault(e, va),
           env_pgfault_upcall[e], Live(e), pc[e] # "panic",
           \/ utf[e] = <<>>
           \/ /\ Len(utf[e]) = 1 /\ utf[e][1] = <<DATA, "ret">> /\ va = STACK
              /\ Perm(e, DATA) = {"W"},
           UNCHANGED <<forks, fork_kind>>
    PROVE  CowInv'
  <1>1. Envs /\ Shape /\ OwnPages /\ EnvInv(e)
    BY DEF CowInv, Envs
  <1>2. EXSTACK \in Va /\ PFTEMP \in Va /\ EXSTACK \notin UserVa /\ va \in Va
    BY Addresses DEF EXSTACK, PFTEMP
  <1>3. Mapped(m, e, EXSTACK) /\ Perm(e, EXSTACK) = {"W"} /\ fork_kind = "cow"
    BY <1>1, <1>2 DEF EnvInv, UpcallAt, EntriesAt
  <1>4. user_mem_check(m, e, EXSTACK, {"W"})
    BY <1>2, <1>3 DEF CowInv, MemInv, Nested, user_mem_check, Perm
  <1>5. /\ utf' = [utf EXCEPT ![e] = <<<<va, "alloc">>>> \o @]
        /\ UNCHANGED <<m, data, progVars, pc, forkVars>>
    BY <1>4 DEF PageFault
  <1>6. /\ FramesAt(e)' /\ DOMAIN utf' = Env /\ utf'[e] # <<>>
        /\ utf'[e][1][1] = va /\ utf'[e][1][2] = "alloc"
        /\ \A x \in Env \ {e} : utf'[x] = utf[x]
    <2>1. FramesAt(e) /\ DOMAIN utf = Env /\ m'.pte[e] = m.pte[e]
      BY <1>1, <1>5 DEF EnvInv, Shape
    <2> QED BY <1>5, <2>1, FramePushed
  <1>7. \A x \in Env \ {e} : EnvInv(x)'
    <2>1. \A x \in Env \ {e} : Same(x) /\ DataSame(x)
      BY <1>5, <1>6 DEF Same, DataSame, PageAt, progVars, forkVars
    <2>2. \A x \in Env \ {e} : fork_child[x] # e
      BY <1>1, NoChild, NoEnvIsNone DEF Live
    <2> QED BY <1>1, <2>1, <2>2, OthersKeep
  <1>8. utf[e] = <<>> \/ utf[e][1][2] = "ret"
    OBVIOUS
  <1>9. EnvInv(e)'
    <2>1. ~Mapped(m, e, PFTEMP)
      BY <1>1, <1>8 DEF EnvInv, EntriesAt, HandlerAt
    <2>2. HandlerAt(e)'
      BY <1>3, <1>5, <1>6, <2>1 DEF HandlerAt, Live, Mapped, progVars
    <2> QED BY <1>1, <1>5, <1>6, <2>2 DEF EnvInv, DirAt, EntriesAt, UpcallAt, HandledAt,
       ForkAt, ChildAt, Live, LoopPCs, Mapped, Perm, PageAt, progVars, forkVars
  <1>10. Shape' /\ MemInv(m)' /\ OneParent'
    BY <1>5, <1>6 DEF CowInv, Shape, OneParent, progVars, forkVars
  <1>11. OwnPages'
    <2>1. \A x \in Env : Keeps(x)
      BY <1>5, <1>6, <1>8 DEF Keeps, forkVars
    <2> QED BY <1>1, <1>5, <2>1, OwnSame
  <1> QED BY <1>7, <1>9, <1>10, <1>11 DEF CowInv

\* The end of the fault handler.
LEMMA PfRetKeeps ==
    ASSUME CowInv, NEW e \in Env, PfRet(e), UNCHANGED <<forks, fork_kind>>
    PROVE  CowInv'
  <1>1. /\ Envs /\ Shape /\ OwnPages /\ EnvInv(e) /\ utf[e] # <<>>
        /\ pc[e] # "panic" /\ utf[e][1][2] = "ret"
    BY DEF CowInv, Envs, PfRet, InHandler
  <1>2. PICK va : /\ va = utf[e][1][1] /\ va \in UserVa /\ va \in Va
                  /\ utf[e][1] = <<va, "ret">> /\ (Len(utf[e]) = 1 \/ Len(utf[e]) = 2)
    BY <1>1, FrameIs DEF EnvInv
  <1>3. Perm(e, va) = {"W"} /\ Live(e) /\ env_pgfault_upcall[e] /\ ~Mapped(m, e, PFTEMP)
    BY <1>1, <1>2 DEF EnvInv, HandlerAt
  <1>4. CASE Len(utf[e]) = 1 /\ ~user_mem_check(m, e, STACK, {"W"})
    <2>1. PageFault(e, STACK)
      BY <1>4 DEF PfRet
    <2>2. STACK \in UserVa /\ STACK \in Va /\ va \in {DATA, STACK}
      BY <1>2, Addresses DEF UserVa
    <2>3. Mapped(m, e, STACK)
      BY <1>1, <1>3, <2>2 DEF EnvInv, EntriesAt
    <2>4. Perm(e, STACK) # {"W"}
      BY <1>4, <2>2, <2>3 DEF CowInv, MemInv, Nested, user_mem_check, Perm
    <2>5. va = DATA
      BY <1>3, <2>2, <2>4
    <2> QED BY <1>1, <1>2, <1>3, <1>4, <2>1, <2>2, <2>5, FaultPushes
  <1>5. CASE ~(Len(utf[e]) = 1 /\ ~user_mem_check(m, e, STACK, {"W"}))
    <2>1. /\ utf' = [utf EXCEPT ![e] = Tail(@)]
          /\ UNCHANGED <<m, data, progVars, pc, forkVars>>
      BY <1>5 DEF PfRet
    <2>2. /\ FramesAt(e)' /\ DOMAIN utf' = Env
          /\ utf'[e] # <<>> => /\ utf'[e][1][1] = DATA /\ utf'[e][1][2] = "ret"
                               /\ Perm(e, DATA) = {"W"}
          /\ \A x \in Env \ {e} : utf'[x] = utf[x]
      <3>1. FramesAt(e) /\ DOMAIN utf = Env /\ m'.pte[e] = m.pte[e]
        BY <1>1, <2>1 DEF EnvInv, Shape
      <3> QED BY <1>1, <2>1, <3>1, FramePopped
    <2>3. \A x \in Env \ {e} : EnvInv(x)'
      <3>1. \A x \in Env \ {e} : Same(x) /\ DataSame(x)
        BY <2>1, <2>2 DEF Same, DataSame, PageAt, progVars, forkVars
      <3>2. \A x \in Env \ {e} : fork_child[x] # e
        BY <1>1, <1>3, NoChild, NoEnvIsNone DEF Live
      <3> QED BY <1>1, <3>1, <3>2, OthersKeep
    <2>4. EnvInv(e)'
      <3>1. HandlerAt(e)'
        BY <1>1, <1>3, <2>1, <2>2 DEF EnvInv, HandlerAt, Live, Mapped, Perm, progVars
      <3> QED BY <1>1, <1>3, <2>1, <2>2, <3>1 DEF EnvInv, DirAt, EntriesAt, UpcallAt, HandledAt,
         ForkAt, ChildAt, Live, LoopPCs, Mapped, Perm, PageAt, progVars, forkVars
    <2>5. Shape' /\ MemInv(m)' /\ OneParent'
      BY <2>1, <2>2 DEF CowInv, Shape, OneParent, progVars, forkVars
    <2>6. OwnPages'
      <3>1. \A x \in Env : Keeps(x)
        BY <1>1, <2>1, <2>2 DEF Keeps, forkVars
      <3> QED BY <1>1, <2>1, <3>1, OwnSame
    <2> QED BY <2>3, <2>4, <2>5, <2>6 DEF CowInv
  <1> QED BY <1>4, <1>5

-----------------------------------------------------------------------------
(* The end of an environment.                                              *)

\* env_destroy frees one environment and leaves the memory of the others.
LEMMA Destroyed ==
    ASSUME MemInv(m), Shape, NEW d \in Env, m.env_pgdir[d] # NoPage, EnvDestroy(d)
    PROVE  /\ MemInv(m)' /\ DataKept(m')
           /\ \A x \in Env \ {d} : m'.pte[x] = m.pte[x] /\ m'.env_pgdir[x] = m.env_pgdir[x]
           /\ \A va \in Va : m'.pte[d][va] = Zero
           /\ m'.env_pgdir[d] = NoPage
           /\ data' \in [Page -> Value]
           /\ env_pgfault_upcall' \in [Env -> BOOLEAN] /\ handler' \in [Env -> BOOLEAN]
           /\ DOMAIN utf' = Env
           /\ ~env_pgfault_upcall'[d] /\ ~handler'[d] /\ utf'[d] = <<>>
           /\ \A x \in Env \ {d} : /\ env_pgfault_upcall'[x] = env_pgfault_upcall[x]
                                   /\ handler'[x] = handler[x] /\ utf'[x] = utf[x]
  <1>1. PICK n : n = env_free(m, d)
    OBVIOUS
  <1>2. /\ MemInv(n)
        /\ n.env_pgdir = [m.env_pgdir EXCEPT ![d] = NoPage]
        /\ \A f \in Env \ {d} : n.pte[f] = m.pte[f]
        /\ \A va \in Va : n.pte[d][va] = Zero
    BY <1>1, EnvFreed
  <1>3. m' = n /\ data' \in [Page -> Value] /\ DataKept(n)
    <2>1. SetMem(n)
      BY <1>1 DEF EnvDestroy
    <2> QED BY <1>2, <2>1, SetMemKeeps DEF Shape
  <1>4. m.env_pgdir \in [Env -> Page \cup {NoPage}]
    BY Fields DEF MemInv
  <1>5. /\ env_pgfault_upcall' = [env_pgfault_upcall EXCEPT ![d] = FALSE]
        /\ handler' = [handler EXCEPT ![d] = FALSE]
        /\ utf' = [utf EXCEPT ![d] = <<>>]
    BY DEF EnvDestroy
  <1>6. /\ env_pgfault_upcall' \in [Env -> BOOLEAN] /\ handler' \in [Env -> BOOLEAN]
        /\ DOMAIN utf' = Env
        /\ ~env_pgfault_upcall'[d] /\ ~handler'[d] /\ utf'[d] = <<>>
        /\ \A x \in Env \ {d} : /\ env_pgfault_upcall'[x] = env_pgfault_upcall[x]
                                /\ handler'[x] = handler[x] /\ utf'[x] = utf[x]
    BY <1>5 DEF Shape
  <1>7. /\ \A x \in Env \ {d} : n.env_pgdir[x] = m.env_pgdir[x]
        /\ n.env_pgdir[d] = NoPage
    BY <1>2, <1>4
  <1>8. MemInv(m')
    BY <1>2, <1>3
  <1>9. /\ DataKept(m')
        /\ \A x \in Env \ {d} : m'.pte[x] = m.pte[x] /\ m'.env_pgdir[x] = m.env_pgdir[x]
        /\ \A va \in Va : m'.pte[d][va] = Zero
        /\ m'.env_pgdir[d] = NoPage
    BY <1>2, <1>3, <1>7
  <1> QED BY <1>3, <1>6, <1>8, <1>9

\* An environment without a frame.
LEMMA NoFrames ==
    ASSUME NEW e, utf'[e] = <<>>
    PROVE  FramesAt(e)'
  BY EmptySeq DEF FramesAt

\* Nothing is left of it.
LEMMA Gone ==
    ASSUME NEW d \in Env, pc'[d] = "free", utf'[d] = <<>>, ~env_pgfault_upcall'[d],
           fork_child'[d] = NoEnv, fork_va'[d] = 0, m'.env_pgdir[d] = NoPage,
           \A va \in Va : m'.pte[d][va] = Zero
    PROVE  EnvInv(d)'
  <1>1. \A va \in Va : ~Mapped(m, d, va)'
    BY DEF Mapped, Zero
  <1>2. UTEMP \in Va /\ PFTEMP \in Va
    BY Addresses DEF UTEMP, PFTEMP
  <1>3. FramesAt(d)'
    BY NoFrames
  <1> QED BY <1>1, <1>2, <1>3 DEF EnvInv, DirAt, EntriesAt, UpcallAt, HandledAt,
         HandlerAt, ForkAt, ChildAt, Live, LoopPCs

\* Who shared a page with it does so no longer.
LEMMA OwnGone ==
    ASSUME OwnPages, NEW d \in Env, \A x \in Env \ {d} : Keeps(x) /\ m'.pte[x] = m.pte[x],
           \A va \in Va : m'.pte[d][va] = Zero
    PROVE  OwnPages'
  <1> SUFFICES ASSUME NEW x \in Env, NEW f \in Env, NEW va \in Va, NEW vb \in Va,
                      Shares(m', x, va, f, vb)
               PROVE  Doubled(x, va, f, vb)'
    BY DEF OwnPages
  <1>1. x # d /\ f # d
    BY DEF Shares, Mapped, Zero
  <1>2. Shares(m, x, va, f, vb) /\ Perm(f, vb)' = Perm(f, vb)
    BY <1>1 DEF Shares, Mapped, Perm
  <1>3. Doubled(x, va, f, vb)
    BY <1>2 DEF OwnPages
  <1> QED BY <1>1, <1>2, <1>3, ReasonStays

\* An environment that is not in the middle of a page ends, by itself or because
\* of a fault.
LEMMA EndKeeps ==
    ASSUME CowInv, NEW e \in Env, Live(e), EnvDestroy(e), Goto(e, "free"),
           Reset(e) \/ (UNCHANGED forkVars /\ pc[e] = "run"),
           UNCHANGED <<forks, fork_kind>>
    PROVE  CowInv'
  <1>1. Envs /\ Shape /\ OwnPages /\ EnvInv(e)
    BY DEF CowInv, Envs
  <1>2. m.env_pgdir[e] # NoPage
    BY <1>1 DEF EnvInv, DirAt, Live
  <1>3. /\ MemInv(m)' /\ DataKept(m')
        /\ \A x \in Env \ {e} : m'.pte[x] = m.pte[x] /\ m'.env_pgdir[x] = m.env_pgdir[x]
        /\ \A va \in Va : m'.pte[e][va] = Zero
        /\ m'.env_pgdir[e] = NoPage
        /\ data' \in [Page -> Value]
        /\ env_pgfault_upcall' \in [Env -> BOOLEAN] /\ handler' \in [Env -> BOOLEAN]
        /\ DOMAIN utf' = Env
        /\ ~env_pgfault_upcall'[e] /\ ~handler'[e] /\ utf'[e] = <<>>
        /\ \A x \in Env \ {e} : /\ env_pgfault_upcall'[x] = env_pgfault_upcall[x]
                                /\ handler'[x] = handler[x] /\ utf'[x] = utf[x]
    BY <1>1, <1>2, Destroyed DEF CowInv
  <1>4. /\ fork_child'[e] = NoEnv /\ fork_va'[e] = 0 /\ pc'[e] = "free"
        /\ \A x \in Env \ {e} : /\ fork_child'[x] = fork_child[x] /\ fork_va'[x] = fork_va[x]
                                /\ fork_pte'[x] = fork_pte[x] /\ pc'[x] = pc[x]
    <2>1. pc[e] = "run" => fork_child[e] = NoEnv /\ fork_va[e] = 0
      BY <1>1 DEF EnvInv, ForkAt
    <2> QED BY <1>1, <2>1 DEF Shape, Goto, Reset, forkVars
  <1>5. \A x \in Env \ {e} : EnvInv(x)'
    <2>1. \A x \in Env \ {e} : Same(x) /\ DataSame(x)
      BY <1>3, <1>4, KeptSame DEF Same
    <2>2. \A x \in Env \ {e} : fork_child[x] # e
      BY <1>1, NoChild, NoEnvIsNone DEF Live
    <2> QED BY <1>1, <2>1, <2>2, OthersKeep
  <1>6. EnvInv(e)'
    BY <1>3, <1>4, Gone
  <1>7. Shape' /\ OneParent'
    <2>1. 0 \in 0..NVA /\ {} \in SUBSET Flag
      BY Addresses
    <2>2. /\ fork_child' \in [Env -> Env \cup {NoEnv}]
          /\ fork_va' \in [Env -> 0..NVA]
          /\ fork_pte' \in [Env -> SUBSET Flag]
      BY <1>1, <2>1 DEF Shape, Reset, forkVars
    <2>3. pc' \in [Env -> ForkPCs \cup {"free", "embryo", "run", "panic"}]
      BY <1>1 DEF Shape, Goto
    <2>4. \A x \in Env : fork_child'[x] = fork_child[x] \/ fork_child'[x] = NoEnv
      BY <1>4
    <2> QED BY <1>1, <1>3, <2>2, <2>3, <2>4 DEF CowInv, Shape, OneParent
  <1>8. OwnPages'
    <2>1. \A x \in Env \ {e} : Keeps(x)
      BY <1>3, <1>4 DEF Keeps
    <2> QED BY <1>1, <1>3, <2>1, OwnGone
  <1> QED BY <1>3, <1>5, <1>6, <1>7, <1>8 DEF CowInv

\* exit.
LEMMA ExitKeeps ==
    ASSUME CowInv, NEW e \in Env, Exit(e), UNCHANGED <<forks, fork_kind>>
    PROVE  CowInv'
  BY EndKeeps DEF Exit, Executes, Live

\* A store that faults.
LEMMA StoreFaults ==
    ASSUME CowInv, NEW e \in Env, NEW va \in UserVa, NEW v \in Value, Store(e, va, v),
           ~user_mem_check(m, e, va, {"W"}), UNCHANGED <<forks, fork_kind>>
    PROVE  CowInv'
  <1>1. PageFault(e, va) /\ utf[e] = <<>> /\ Live(e) /\ pc[e] # "panic"
    BY DEF Store, Executes, Live
  <1>2. CASE env_pgfault_upcall[e]
    BY <1>1, <1>2, FaultPushes
  <1>3. CASE ~env_pgfault_upcall[e]
    <2>1. EnvDestroy(e) /\ Goto(e, "free") /\ Reset(e)
      BY <1>1, <1>3 DEF PageFault
    <2> QED BY <1>1, <2>1, EndKeeps
  <1> QED BY <1>2, <1>3

\* The child's upcall, or the end of the child.
LEMMA UpcallKeeps ==
    ASSUME CowInv, NEW e \in Env, Upcall(e), UNCHANGED <<forks, fork_kind>>
    PROVE  CowInv'
  <1>1. /\ Envs /\ Shape /\ OwnPages /\ EnvInv(e)
        /\ utf[e] = <<>> /\ pc[e] = "upcall" /\ Live(e)
    BY DEF CowInv, Envs, Upcall, AtPage, Executes, Live
  <1>2. PICK c : c = fork_child[e]
    OBVIOUS
  <1>3. /\ c # NoEnv /\ c \in Env /\ c # e /\ pc[c] = "embryo" /\ EnvInv(c)
        /\ Mapped(m, c, EXSTACK) /\ fork_kind = "cow" /\ fork_va[e] = NVA
    BY <1>1, <1>2 DEF Shape, Envs, EnvInv, ChildAt, ForkAt
  <1>4. UNCHANGED <<fork_va, fork_pte, forks, fork_kind>>
    BY DEF Upcall
  <1>5. \A x \in Env \ {e, c} : fork_child[x] \notin {e, c}
    <2>1. \A x \in Env : fork_child[x] # e
      BY <1>1, NoChild, NoEnvIsNone
    <2>2. \A x \in Env \ {e, c} : fork_child[x] # c
      BY <1>2, <1>3 DEF CowInv, OneParent
    <2> QED BY <2>1, <2>2
  <1>6. utf[c] = <<>> /\ fork_child[c] = NoEnv /\ fork_va[c] = 0
    BY <1>3 DEF EnvInv, HandlerAt, ForkAt, Live
  <1>7. CASE env_pgfault_upcall[e]
    <2>1. /\ env_pgfault_upcall' = [env_pgfault_upcall EXCEPT ![c] = TRUE]
          /\ Goto(e, "status")
          /\ UNCHANGED <<m, data, handler, fork_child, utf>>
      BY <1>2, <1>7 DEF Upcall
    <2>2. /\ env_pgfault_upcall'[c] /\ env_pgfault_upcall'[e] = env_pgfault_upcall[e]
          /\ pc'[e] = "status" /\ pc'[c] = "embryo"
          /\ \A x \in Env \ {e, c} : /\ pc'[x] = pc[x]
                                     /\ env_pgfault_upcall'[x] = env_pgfault_upcall[x]
      BY <1>1, <1>3, <2>1 DEF Shape, Goto
    <2>3. \A x \in Env \ {e, c} : EnvInv(x)'
      <3>1. \A x \in Env \ {e, c} : Same(x) /\ DataSame(x)
        BY <1>4, <2>1, <2>2 DEF Same, DataSame, PageAt
      <3> QED BY <1>1, <1>3, <1>4, <1>5, <3>1, OthersKeep
    <2>4. EnvInv(e)'
      <3>1. DirAt(e)' /\ UpcallAt(e)' /\ HandledAt(e)'
        BY <1>1, <1>7, <2>1, <2>2 DEF EnvInv, DirAt, UpcallAt, HandledAt, Live, LoopPCs,
           Mapped, Perm
      <3>2. EntriesAt(e)' /\ FramesAt(e)'
        BY <1>1, <1>4, <2>1, <2>2 DEF EnvInv, EntriesAt, FramesAt, Live, Mapped, Perm
      <3>3. HandlerAt(e)'
        BY <1>1, <2>1 DEF HandlerAt
      <3>4. ForkAt(e)'
        BY <1>1, <1>3, <1>4, <2>1, <2>2 DEF EnvInv, ForkAt, LoopPCs
      <3>5. ChildAt(e)'
        BY <1>1, <1>2, <1>3, <1>4, <1>7, <2>1, <2>2 DEF EnvInv, ChildAt, Mapped
      <3> QED BY <3>1, <3>2, <3>3, <3>4, <3>5 DEF EnvInv
    <2>5. EnvInv(c)'
      BY <1>3, <1>4, <1>6, <2>1, <2>2 DEF EnvInv, DirAt, EntriesAt, UpcallAt,
         HandledAt, FramesAt, HandlerAt, ForkAt, ChildAt, Live, LoopPCs, Mapped, Perm
    <2>6. Shape' /\ OneParent' /\ MemInv(m)'
      <3>1. /\ pc' \in [Env -> ForkPCs \cup {"free", "embryo", "run", "panic"}]
            /\ env_pgfault_upcall' \in [Env -> BOOLEAN]
        BY <1>1, <2>1 DEF Shape, Goto, ForkPCs
      <3> QED BY <1>1, <1>4, <2>1, <3>1 DEF CowInv, Shape, OneParent
    <2>7. OwnPages'
      <3>1. \A x \in Env : Keeps(x)
        BY <1>1, <1>3, <1>4, <2>1, <2>2 DEF Keeps
      <3> QED BY <1>1, <2>1, <3>1, OwnSame
    <2> QED BY <2>3, <2>4, <2>5, <2>6, <2>7 DEF CowInv
  <1>8. CASE ~env_pgfault_upcall[e]
    <2>1. /\ EnvDestroy(c)
          /\ pc' = [pc EXCEPT ![e] = "status", ![c] = "free"]
          /\ fork_child' = [fork_child EXCEPT ![e] = NoEnv]
      BY <1>2, <1>8 DEF Upcall
    <2>2. m.env_pgdir[c] # NoPage
      BY <1>3 DEF EnvInv, DirAt
    <2>3. /\ MemInv(m)' /\ DataKept(m')
          /\ \A x \in Env \ {c} : m'.pte[x] = m.pte[x] /\ m'.env_pgdir[x] = m.env_pgdir[x]
          /\ \A va \in Va : m'.pte[c][va] = Zero
          /\ m'.env_pgdir[c] = NoPage
          /\ data' \in [Page -> Value]
          /\ env_pgfault_upcall' \in [Env -> BOOLEAN] /\ handler' \in [Env -> BOOLEAN]
          /\ DOMAIN utf' = Env
          /\ ~env_pgfault_upcall'[c] /\ ~handler'[c] /\ utf'[c] = <<>>
          /\ \A x \in Env \ {c} : /\ env_pgfault_upcall'[x] = env_pgfault_upcall[x]
                                  /\ handler'[x] = handler[x] /\ utf'[x] = utf[x]
      BY <1>1, <1>3, <2>1, <2>2, Destroyed DEF CowInv
    <2>4. /\ pc'[e] = "status" /\ pc'[c] = "free" /\ fork_child'[e] = NoEnv
          /\ fork_child'[c] = NoEnv /\ fork_va'[c] = 0
          /\ \A x \in Env \ {e, c} : pc'[x] = pc[x] /\ fork_child'[x] = fork_child[x]
      BY <1>1, <1>3, <1>4, <1>6, <2>1 DEF Shape
    <2>5. \A x \in Env \ {e, c} : EnvInv(x)'
      <3>1. \A x \in Env \ {e, c} : Same(x) /\ DataSame(x)
        BY <1>4, <2>3, <2>4, KeptSame DEF Same
      <3> QED BY <1>1, <1>3, <1>4, <1>5, <3>1, OthersKeep
    <2>6. EnvInv(e)'
      <3>1. DirAt(e)' /\ UpcallAt(e)' /\ HandledAt(e)'
        <4>1. /\ m'.pte[e] = m.pte[e] /\ m'.env_pgdir[e] = m.env_pgdir[e]
              /\ env_pgfault_upcall'[e] = env_pgfault_upcall[e] /\ handler'[e] = handler[e]
              /\ pc'[e] = "status"
          BY <1>3, <2>3, <2>4
        <4>2. DirAt(e)' /\ HandledAt(e)'
          BY <1>1, <4>1 DEF EnvInv, DirAt, HandledAt, LoopPCs
        <4>3. UpcallAt(e)'
          BY <1>1, <4>1 DEF EnvInv, UpcallAt, Live, Mapped
        <4> QED BY <4>2, <4>3
      <3>2. EntriesAt(e)' /\ FramesAt(e)'
        <4>1. /\ m'.pte[e] = m.pte[e] /\ utf'[e] = <<>> /\ fork_kind' = fork_kind
              /\ pc'[e] = "status"
          BY <1>1, <1>3, <1>4, <2>3, <2>4
        <4>2. EntriesAt(e)'
          BY <1>1, <4>1 DEF EnvInv, EntriesAt, Live, Mapped, Perm
        <4> QED BY <4>1, <4>2, NoFrames
      <3>3. HandlerAt(e)'
        BY <1>1, <1>3, <2>3 DEF HandlerAt
      <3>4. ForkAt(e)'
        BY <1>1, <1>3, <1>4, <2>4 DEF EnvInv, ForkAt, LoopPCs
      <3>5. ChildAt(e)'
        BY <2>4 DEF ChildAt
      <3> QED BY <3>1, <3>2, <3>3, <3>4, <3>5 DEF EnvInv
    <2>7. EnvInv(c)'
      BY <1>3, <2>3, <2>4, Gone
    <2>8. Shape' /\ OneParent'
      <3>1. /\ pc' \in [Env -> ForkPCs \cup {"free", "embryo", "run", "panic"}]
            /\ fork_child' \in [Env -> Env \cup {NoEnv}]
        BY <1>1, <2>1 DEF Shape, ForkPCs
      <3>2. \A x \in Env : fork_child'[x] = fork_child[x] \/ fork_child'[x] = NoEnv
        BY <1>6, <2>4
      <3> QED BY <1>1, <1>4, <2>3, <3>1, <3>2 DEF CowInv, Shape, OneParent
    <2>9. OwnPages'
      <3>1. \A x \in Env \ {c} : Keeps(x)
        BY <1>1, <1>3, <1>4, <2>3, <2>4 DEF Keeps
      <3> QED BY <1>1, <1>3, <2>3, <3>1, OwnGone
    <2> QED BY <2>3, <2>5, <2>6, <2>7, <2>8, <2>9 DEF CowInv
  <1> QED BY <1>7, <1>8

-----------------------------------------------------------------------------
(* Steps of the fault handler that change the tables.                      *)

\* What every step of the fault handler starts from.
LEMMA InTheHandler ==
    ASSUME CowInv, NEW e \in Env, NEW l, InHandler(e, l)
    PROVE  /\ Envs /\ Shape /\ OwnPages /\ EnvInv(e) /\ utf[e] # <<>>
           /\ pc[e] # "panic" /\ utf[e][1][2] = l
           /\ utf[e][1][1] \in UserVa /\ utf[e][1][1] \in Va
           /\ PFTEMP \in Va /\ PFTEMP \notin UserVa
           /\ fork_kind = "cow" /\ env_pgfault_upcall[e] /\ Live(e)
           /\ m.env_pgdir[e] # NoPage
           /\ pc[e] \notin {"copy", "untemp"}
           /\ \A x \in Env : fork_child[x] # e
  <1>1. /\ Envs /\ Shape /\ OwnPages /\ EnvInv(e) /\ utf[e] # <<>>
        /\ pc[e] # "panic" /\ utf[e][1][2] = l
    BY DEF CowInv, Envs, InHandler
  <1>2. utf[e][1][1] \in UserVa /\ utf[e][1][1] \in Va /\ PFTEMP \in Va
    BY <1>1, FrameIs DEF EnvInv
  <1>3. fork_kind = "cow" /\ env_pgfault_upcall[e] /\ Live(e)
    BY <1>1 DEF EnvInv, HandlerAt
  <1>4. m.env_pgdir[e] # NoPage /\ pc[e] \notin {"copy", "untemp"}
    BY <1>1, <1>3 DEF EnvInv, DirAt, Live, ForkAt
  <1>5. \A x \in Env : fork_child[x] # e
    BY <1>1, <1>3, NoChild, NoEnvIsNone DEF Live
  <1> QED BY <1>1, <1>2, <1>3, <1>4, <1>5, Addresses DEF PFTEMP

\* What e does to its own tables in the handler does not concern the others.
LEMMA HandlerOthers ==
    ASSUME CowInv, NEW e \in Env, \A x \in Env : fork_child[x] # e,
           DataKept(m'), \A x \in Env \ {e} : m'.pte[x] = m.pte[x],
           m'.env_pgdir = m.env_pgdir, UNCHANGED <<progVars, forkVars, fork_kind>>,
           \A x \in Env \ {e} : pc'[x] = pc[x] /\ utf'[x] = utf[x]
    PROVE  \A x \in Env \ {e} : EnvInv(x)'
  <1>1. Envs /\ Shape
    BY DEF CowInv, Envs
  <1>2. \A x \in Env \ {e} : Same(x)
    BY DEF Same, progVars, forkVars
  <1>3. \A x \in Env \ {e} : DataSame(x)
    BY KeptSame
  <1> QED BY <1>1, <1>2, <1>3, OthersKeep

\* A page for the copy, or a panic.
LEMMA PfAllocKeeps ==
    ASSUME CowInv, NEW e \in Env, PfAlloc(e), UNCHANGED <<forks, fork_kind>>
    PROVE  CowInv'
  <1>1. InHandler(e, "alloc")
    BY DEF PfAlloc
  <1>2. PICK va : va = utf[e][1][1]
    OBVIOUS
  <1>3. /\ Envs /\ Shape /\ OwnPages /\ EnvInv(e) /\ utf[e] # <<>>
        /\ pc[e] # "panic" /\ utf[e][1][2] = "alloc"
        /\ va \in UserVa /\ va \in Va
        /\ PFTEMP \in Va /\ PFTEMP \notin UserVa
        /\ fork_kind = "cow" /\ env_pgfault_upcall[e] /\ Live(e)
        /\ m.env_pgdir[e] # NoPage
        /\ pc[e] \notin {"copy", "untemp"}
        /\ \A x \in Env : fork_child[x] # e
    BY <1>1, <1>2, InTheHandler
  <1>4. PICK r : r = env_page_alloc(m, e, PFTEMP, {"W"})
    OBVIOUS
  <1>5. /\ MemInv(r.mem) /\ r.mem.env_pgdir = m.env_pgdir
        /\ r.ret = "ok" => \E p \in Page :
              Unused(m, p) /\ Puts(r.mem, e, PFTEMP, [page |-> p, perm |-> {"W"}])
        /\ r.ret # "ok" => r.mem.pte = m.pte
    BY <1>3, <1>4, AllocPuts DEF CowInv
  <1>6. /\ SetMem(r.mem) /\ Goto(e, IF r.ret = "ok" THEN pc[e] ELSE "panic")
        /\ Handler(e, "copy") /\ UNCHANGED <<progVars, forkVars>>
    BY <1>4 DEF PfAlloc, Syscall
  <1>7. m' = r.mem /\ data' \in [Page -> Value] /\ DataKept(r.mem)
    BY <1>3, <1>5, <1>6, SetMemKeeps DEF Shape
  <1>8. MemInv(m)' /\ DataKept(m') /\ m'.env_pgdir = m.env_pgdir
    BY <1>5, <1>7
  <1>9. /\ pc'[e] = (IF r.ret = "ok" THEN pc[e] ELSE "panic")
        /\ \A x \in Env \ {e} : pc'[x] = pc[x]
        /\ pc' \in [Env -> ForkPCs \cup {"free", "embryo", "run", "panic"}]
        /\ fork_child[e] # NoEnv => /\ fork_child[e] \in Env \ {e}
                                    /\ pc'[fork_child[e]] = pc[fork_child[e]]
    BY <1>3, <1>6 DEF Shape, Goto
  <1>10. ASSUME Perm(e, DATA)' = Perm(e, DATA)
         PROVE  /\ FramesAt(e)' /\ DOMAIN utf' = Env /\ utf'[e] # <<>>
                /\ utf'[e][1][1] = va /\ utf'[e][1][2] = "copy"
                /\ \A x \in Env \ {e} : utf'[x] = utf[x]
    <2>1. FramesAt(e) /\ DOMAIN utf = Env /\ "copy" \in FaultPCs
      BY <1>3 DEF EnvInv, Shape, FaultPCs
    <2> QED BY <1>2, <1>3, <1>6, <1>10, <2>1, FrameMoves
  <1>11. CASE r.ret # "ok"
    <2>1. m'.pte = m.pte
      BY <1>5, <1>7, <1>11
    <2>2. /\ FramesAt(e)' /\ DOMAIN utf' = Env /\ utf'[e] # <<>>
          /\ utf'[e][1][1] = va /\ utf'[e][1][2] = "copy"
          /\ \A x \in Env \ {e} : utf'[x] = utf[x]
      BY <1>10, <2>1 DEF Perm
    <2>3. \A x \in Env \ {e} : EnvInv(x)'
      BY <1>3, <1>6, <1>8, <1>9, <2>1, <2>2, HandlerOthers
    <2>4. EnvInv(e)'
      <3>1. DirAt(e)' /\ EntriesAt(e)'
        BY <1>3, <1>6, <1>8, <1>9, <1>11, <2>1, <2>2 DEF EnvInv, DirAt, EntriesAt, Live, Mapped, Perm
      <3>2. UpcallAt(e)' /\ HandledAt(e)' /\ HandlerAt(e)'
        BY <1>3, <1>6, <1>9, <1>11, <2>1, <2>2 DEF EnvInv, UpcallAt,
         HandledAt, HandlerAt, Live, Mapped, progVars
      <3>3. ForkAt(e)'
        BY <1>3, <1>6, <1>9, <1>11 DEF EnvInv, ForkAt, LoopPCs, forkVars
      <3>4. ChildAt(e)'
        BY <1>3, <1>6, <1>9, <1>11, <2>1 DEF EnvInv, ChildAt, forkVars
      <3> QED BY <2>2, <3>1, <3>2, <3>3, <3>4 DEF EnvInv
    <2>5. OwnPages'
      <3>1. \A x \in Env : Keeps(x)
        BY <1>3, <1>6, <1>9, <2>2 DEF Keeps, forkVars
      <3> QED BY <1>3, <2>1, <3>1, OwnSame
    <2>6. Shape' /\ OneParent'
      BY <1>6, <1>7, <1>9, <2>2 DEF CowInv, Shape, OneParent, progVars, forkVars
    <2> QED BY <1>8, <2>3, <2>4, <2>5, <2>6 DEF CowInv
  <1>12. CASE r.ret = "ok"
    <2>1. PICK p \in Page : Unused(m, p) /\ Puts(m', e, PFTEMP, [page |-> p, perm |-> {"W"}])
      BY <1>5, <1>7, <1>12
    <2>2. /\ m'.pte[e][PFTEMP] = [page |-> p, perm |-> {"W"}] /\ p # NoPage
          /\ \A v \in Va \ {PFTEMP} : m'.pte[e][v] = m.pte[e][v]
          /\ \A x \in Env \ {e} : m'.pte[x] = m.pte[x]
      BY <2>1, NoPageIsNone DEF Puts
    <2>3. \A v \in UserVa : v \in Va /\ m'.pte[e][v] = m.pte[e][v]
      BY <1>3, <2>2, Addresses
    <2>4. /\ FramesAt(e)' /\ DOMAIN utf' = Env /\ utf'[e] # <<>>
          /\ utf'[e][1][1] = va /\ utf'[e][1][2] = "copy"
          /\ \A x \in Env \ {e} : utf'[x] = utf[x]
      BY <1>10, <2>3 DEF Perm, UserVa
    <2>5. \A x \in Env \ {e} : EnvInv(x)'
      BY <1>3, <1>6, <1>8, <1>9, <2>2, <2>4, HandlerOthers
    <2>6. EnvInv(e)'
      <3>1. Mapped(m, e, PFTEMP)'
        BY <2>2 DEF Mapped
      <3>2. /\ m'.pte[e][EXSTACK] = m.pte[e][EXSTACK] /\ m'.pte[e][UTEMP] = m.pte[e][UTEMP]
        BY <2>2, Addresses DEF EXSTACK, UTEMP, PFTEMP
      <3>3. EntriesAt(e)'
        <4>1. \A v \in Va : v # PFTEMP => m'.pte[e][v] = m.pte[e][v]
          BY <2>2
        <4>2. Perm(e, PFTEMP)' = {"W"}
          BY <2>2 DEF Perm
        <4>3. ASSUME NEW v \in Va, Mapped(m, e, v)'
              PROVE  /\ Perm(e, v)' \in {{"W"}, {"COW"}}
                     /\ v \notin UserVa \/ fork_kind # "cow" => Perm(e, v)' = {"W"}
          <5>1. CASE v = PFTEMP
            BY <4>2, <5>1
          <5>2. CASE v # PFTEMP
            BY <1>3, <4>1, <4>3, <5>2 DEF EnvInv, EntriesAt, Mapped, Perm
          <5> QED BY <5>1, <5>2
        <4> QED BY <1>3, <1>9, <1>12, <2>3, <2>4, <3>2, <4>3 DEF EnvInv, EntriesAt, Live, Mapped
      <3>4. HandlerAt(e)'
        BY <1>3, <1>6, <1>9, <1>12, <2>4, <3>1 DEF HandlerAt, Live, progVars
      <3>5. DirAt(e)' /\ UpcallAt(e)' /\ HandledAt(e)'
        BY <1>3, <1>6, <1>8, <1>9, <1>12, <3>2 DEF EnvInv, DirAt, UpcallAt, HandledAt, Live,
           Mapped, progVars
      <3>6. ForkAt(e)'
        BY <1>3, <1>6, <1>9, <1>12 DEF EnvInv, ForkAt, LoopPCs, forkVars
      <3>7. ChildAt(e)'
        <4>1. fork_child[e] # NoEnv => m'.pte[fork_child[e]] = m.pte[fork_child[e]]
          BY <1>9, <2>2
        <4> QED BY <1>3, <1>6, <1>9, <1>12, <3>2, <4>1 DEF EnvInv, ChildAt, forkVars, Mapped,
               progVars, PageAt
      <3> QED BY <2>4, <3>3, <3>4, <3>5, <3>6, <3>7 DEF EnvInv
    <2>7. OwnPages'
      <3>1. \A x \in Env : Keeps(x)
        BY <1>3, <1>6, <1>9, <2>4 DEF Keeps, forkVars
      <3> QED BY <1>3, <2>1, <3>1, OwnFresh
    <2>8. Shape' /\ OneParent'
      BY <1>6, <1>7, <1>9, <2>4 DEF CowInv, Shape, OneParent, progVars, forkVars
    <2> QED BY <1>8, <2>5, <2>6, <2>7, <2>8 DEF CowInv
  <1> QED BY <1>11, <1>12

\* The new entry is as good as the old ones.
LEMMA EntryPut ==
    ASSUME NEW d \in Env, EntriesAt(d), NEW v \in Va, NEW z, Puts(m', d, v, z),
           \/ z.page = NoPage
           \/ /\ z.perm \in {{"W"}, {"COW"}}
              /\ v \notin UserVa \/ fork_kind # "cow" => z.perm = {"W"}
              /\ v \in {PFTEMP, EXSTACK} => fork_kind = "cow"
    PROVE  \A va \in Va : Mapped(m, d, va)' =>
              /\ Perm(d, va)' \in {{"W"}, {"COW"}}
              /\ va \notin UserVa \/ fork_kind # "cow" => Perm(d, va)' = {"W"}
              /\ va \in {PFTEMP, EXSTACK} => fork_kind = "cow"
  <1> SUFFICES ASSUME NEW va \in Va, Mapped(m, d, va)'
               PROVE  /\ Perm(d, va)' \in {{"W"}, {"COW"}}
                      /\ va \notin UserVa \/ fork_kind # "cow" => Perm(d, va)' = {"W"}
                      /\ va \in {PFTEMP, EXSTACK} => fork_kind = "cow"
    OBVIOUS
  <1>1. CASE va = v
    BY <1>1 DEF Puts, Mapped, Perm
  <1>2. CASE va # v
    <2>1. m'.pte[d][va] = m.pte[d][va]
      BY <1>2 DEF Puts
    <2> QED BY <2>1 DEF EntriesAt, Mapped, Perm
  <1> QED BY <1>1, <1>2

\* The copy replaces the page.  There is a table for it, since there was a page.
LEMMA PfMapKeeps ==
    ASSUME CowInv, NEW e \in Env, PfMap(e), UNCHANGED <<forks, fork_kind>>
    PROVE  CowInv'
  <1>1. InHandler(e, "map")
    BY DEF PfMap
  <1>2. PICK va : va = utf[e][1][1]
    OBVIOUS
  <1>3. /\ Envs /\ Shape /\ OwnPages /\ EnvInv(e) /\ utf[e] # <<>>
        /\ pc[e] # "panic" /\ utf[e][1][2] = "map"
        /\ va \in UserVa /\ va \in Va
        /\ PFTEMP \in Va /\ PFTEMP \notin UserVa
        /\ fork_kind = "cow" /\ env_pgfault_upcall[e] /\ Live(e)
        /\ m.env_pgdir[e] # NoPage
        /\ pc[e] \notin {"copy", "untemp"}
        /\ \A x \in Env : fork_child[x] # e
    BY <1>1, <1>2, InTheHandler
  <1>4. /\ Mapped(m, e, PFTEMP) /\ Perm(e, PFTEMP) = {"W"} /\ Mapped(m, e, va)
        /\ HasTable(m, e, PFTEMP) /\ HasTable(m, e, va)
    <2>1. Mapped(m, e, PFTEMP) /\ Perm(e, PFTEMP) = {"W"} /\ Mapped(m, e, va)
      BY <1>2, <1>3 DEF EnvInv, HandlerAt, EntriesAt
    <2> QED BY <1>3, <2>1 DEF CowInv, MemInv, Nested
  <1>5. PICK r : r = env_page_map(m, e, PFTEMP, e, va, {"W"})
    OBVIOUS
  <1>6. r.ret = "ok"
    BY <1>4, <1>5, MapSucceeds DEF Perm
  <1>7. {"W"} \in SUBSET Flag
    BY DEF Flag
  <1>8. /\ MemInv(r.mem) /\ r.mem.env_pgdir = m.env_pgdir
        /\ r.ret = "ok" => Puts(r.mem, e, va, [page |-> PageAt(e, PFTEMP), perm |-> {"W"}])
        /\ r.ret # "ok" => r.mem.pte = m.pte
    <2>1. PICK v \in Va, w \in SUBSET Flag : v = PFTEMP /\ w = {"W"}
      BY <1>3, <1>7
    <2>2. /\ MemInv(m) /\ va \in Va /\ Mapped(m, e, v) /\ m.env_pgdir[e] # NoPage
          /\ r = env_page_map(m, e, v, e, va, w)
      BY <1>3, <1>4, <1>5, <2>1 DEF CowInv
    <2>3. /\ MemInv(r.mem) /\ r.mem.env_pgdir = m.env_pgdir
          /\ r.ret = "ok" => Puts(r.mem, e, va, [page |-> PageAt(e, v), perm |-> w])
          /\ r.ret # "ok" => r.mem.pte = m.pte
      BY <2>2, MapPuts
    <2> QED BY <2>1, <2>3
  <1>9. /\ SetMem(r.mem) /\ Goto(e, IF r.ret = "ok" THEN pc[e] ELSE "panic")
        /\ Handler(e, "unmap") /\ UNCHANGED <<progVars, forkVars>>
    BY <1>2, <1>5 DEF PfMap, Syscall
  <1>10. m' = r.mem /\ data' \in [Page -> Value] /\ DataKept(r.mem)
    BY <1>3, <1>8, <1>9, SetMemKeeps DEF Shape
  <1>11. MemInv(m)' /\ DataKept(m') /\ m'.env_pgdir = m.env_pgdir
    BY <1>8, <1>10
  <1>12. pc' = pc
    BY <1>3, <1>6, <1>9 DEF Shape, Goto
  <1>13. PICK z : z = [page |-> PageAt(e, PFTEMP), perm |-> {"W"}]
    OBVIOUS
  <1>14. z.page = PageAt(e, PFTEMP) /\ z.perm = {"W"} /\ Puts(m', e, va, z)
    BY <1>6, <1>8, <1>10, <1>13
  <1>15. /\ m'.pte[e][va] = z /\ z.page # NoPage
         /\ \A v \in Va \ {va} : m'.pte[e][v] = m.pte[e][v]
         /\ \A x \in Env \ {e} : m'.pte[x] = m.pte[x]
    BY <1>4, <1>14 DEF Puts, Mapped, PageAt
  <1>16. /\ FramesAt(e)' /\ DOMAIN utf' = Env /\ utf'[e] # <<>>
         /\ utf'[e][1][1] = va /\ utf'[e][1][2] = "unmap"
         /\ \A x \in Env \ {e} : utf'[x] = utf[x]
    <2>1. FramesAt(e) /\ DOMAIN utf = Env /\ "unmap" \in FaultPCs
      BY <1>3 DEF EnvInv, Shape, FaultPCs
    <2>2. DATA \in Va
      BY Addresses DEF DATA
    <2>3. Perm(e, DATA)' = Perm(e, DATA) \/ utf[e][1][1] = DATA
      BY <1>2, <1>15, <2>2 DEF Perm
    <2> QED BY <1>2, <1>3, <1>9, <2>1, <2>3, FrameMoves
  <1>17. \A x \in Env \ {e} : EnvInv(x)'
    BY <1>3, <1>9, <1>11, <1>12, <1>15, <1>16, HandlerOthers
  <1>18. EnvInv(e)'
    <2>1. /\ m'.pte[e][EXSTACK] = m.pte[e][EXSTACK] /\ m'.pte[e][UTEMP] = m.pte[e][UTEMP]
          /\ m'.pte[e][PFTEMP] = m.pte[e][PFTEMP]
          /\ \A v \in UserVa : v # va => m'.pte[e][v] = m.pte[e][v]
      BY <1>3, <1>15, Addresses DEF EXSTACK, UTEMP, PFTEMP
    <2>2. Mapped(m, e, va)' /\ Perm(e, va)' = {"W"} /\ PageAt(e, va)' = PageAt(e, PFTEMP)
      BY <1>14, <1>15 DEF Mapped, Perm, PageAt
    <2>3. EntriesAt(e)'
      <3>1. \A v \in Va : Mapped(m, e, v)' =>
              /\ Perm(e, v)' \in {{"W"}, {"COW"}}
              /\ v \notin UserVa \/ fork_kind # "cow" => Perm(e, v)' = {"W"}
              /\ v \in {PFTEMP, EXSTACK} => fork_kind = "cow"
        BY <1>3, <1>14, EntryPut DEF EnvInv
      <3>2. \A v \in UserVa : Mapped(m, e, v)'
        BY <1>3, <2>1, <2>2 DEF EnvInv, EntriesAt, Mapped
      <3> QED BY <1>3, <1>12, <1>16, <2>1, <3>1, <3>2 DEF EnvInv, EntriesAt, Live, Mapped
    <2>4. HandlerAt(e)'
      BY <1>3, <1>4, <1>9, <1>12, <1>16, <2>1, <2>2 DEF HandlerAt, Live, Mapped, PageAt, progVars
    <2>5. DirAt(e)' /\ UpcallAt(e)' /\ HandledAt(e)'
      BY <1>3, <1>9, <1>11, <1>12, <2>1 DEF EnvInv, DirAt, UpcallAt, HandledAt, Live,
         Mapped, progVars
    <2>6. ForkAt(e)'
      BY <1>3, <1>9, <1>12 DEF EnvInv, ForkAt, LoopPCs, forkVars
    <2>7. ChildAt(e)'
      <3>1. fork_child[e] # NoEnv => m'.pte[fork_child[e]] = m.pte[fork_child[e]]
        BY <1>3, <1>15 DEF Shape
      <3> QED BY <1>3, <1>9, <1>12, <2>1, <3>1 DEF EnvInv, ChildAt, forkVars, Mapped,
             progVars, PageAt
    <2> QED BY <1>16, <2>3, <2>4, <2>5, <2>6, <2>7 DEF EnvInv
  <1>19. OwnPages'
    <2> SUFFICES ASSUME NEW x \in Env, NEW f \in Env, NEW vx \in Va, NEW vf \in Va,
                        Shares(m', x, vx, f, vf)
                 PROVE  Doubled(x, vx, f, vf)'
      BY DEF OwnPages
    <2>1. PICK n : n = m'
      OBVIOUS
    <2>2. \A y \in Env : Keeps(y)
      BY <1>3, <1>9, <1>12, <1>16 DEF Keeps, forkVars
    <2>3. ASSUME NEW y \in Env, NEW vy \in Va, y # e \/ vy # va, y # e \/ vy # PFTEMP
          PROVE  n.pte[y][vy].page # PageAt(e, PFTEMP)
      <3> SUFFICES ASSUME n.pte[y][vy].page = PageAt(e, PFTEMP) PROVE FALSE
        OBVIOUS
      <3>1. n.pte[y][vy] = m.pte[y][vy]
        BY <1>15, <2>1, <2>3
      <3>2. Shares(m, e, PFTEMP, y, vy)
        BY <1>4, <2>3, <3>1 DEF Shares, PageAt, Perm
      <3>3. Doubled(e, PFTEMP, y, vy)
        BY <1>3, <3>2 DEF OwnPages
      <3>4. fork_va[e] # PFTEMP \/ pc[e] # "mark"
        BY <1>3 DEF EnvInv, ForkAt, LoopPCs
      <3>5. fork_child[y] # e /\ PFTEMP # UTEMP
        BY <1>3 DEF PFTEMP, UTEMP
      <3> QED BY <1>3, <3>3, <3>4, <3>5 DEF Doubled, HandlerSees, ParentSees, NotYetMarked
    <2>4. CASE \/ x = e /\ vx = va
               \/ f = e /\ vf = va
      <3>1. /\ \/ x = e /\ vx = va /\ f = e /\ vf = PFTEMP
               \/ x = e /\ vx = PFTEMP /\ f = e /\ vf = va
        BY <1>14, <1>15, <2>1, <2>3, <2>4 DEF Shares
      <3> QED BY <1>16, <3>1 DEF Doubled, HandlerSees
    <2>5. CASE (x # e \/ vx # va) /\ (f # e \/ vf # va)
      <3>1. Shares(m, x, vx, f, vf) /\ n.pte[f][vf].perm = Perm(f, vf)
        <4>1. va \in Va /\ Puts(n, e, va, z) /\ Shares(n, x, vx, f, vf)
          BY <1>3, <1>14, <2>1
        <4> QED BY <2>5, <4>1, PutsShares
      <3>2. Doubled(x, vx, f, vf) /\ Perm(f, vf)' = Perm(f, vf)
        BY <1>3, <2>1, <3>1 DEF OwnPages, Perm
      <3> QED BY <2>2, <3>2, ReasonStays
    <2> QED BY <2>4, <2>5
  <1>20. Shape' /\ OneParent'
    BY <1>3, <1>9, <1>10, <1>12, <1>16 DEF CowInv, Shape, OneParent, progVars, forkVars
  <1> QED BY <1>11, <1>17, <1>18, <1>19, <1>20 DEF CowInv

\* The temporary mapping goes, and with it the reason for two entries.
LEMMA PfUnmapKeeps ==
    ASSUME CowInv, NEW e \in Env, PfUnmap(e), UNCHANGED <<forks, fork_kind>>
    PROVE  CowInv'
  <1>1. InHandler(e, "unmap")
    BY DEF PfUnmap
  <1>2. PICK va : va = utf[e][1][1]
    OBVIOUS
  <1>3. /\ Envs /\ Shape /\ OwnPages /\ EnvInv(e) /\ utf[e] # <<>>
        /\ pc[e] # "panic" /\ utf[e][1][2] = "unmap"
        /\ va \in UserVa /\ va \in Va
        /\ PFTEMP \in Va /\ PFTEMP \notin UserVa
        /\ fork_kind = "cow" /\ env_pgfault_upcall[e] /\ Live(e)
        /\ m.env_pgdir[e] # NoPage
        /\ pc[e] \notin {"copy", "untemp"}
        /\ \A x \in Env : fork_child[x] # e
    BY <1>1, <1>2, InTheHandler
  <1>4. PICK n : n = page_remove(m, e, PFTEMP)
    OBVIOUS
  <1>5. MemInv(n) /\ n.env_pgdir = m.env_pgdir /\ Puts(n, e, PFTEMP, Zero)
    BY <1>3, <1>4, RemovePuts DEF CowInv
  <1>6. SetMem(n) /\ Handler(e, "ret") /\ UNCHANGED <<progVars, pc, forkVars>>
    BY <1>4 DEF PfUnmap
  <1>7. m' = n /\ data' \in [Page -> Value] /\ DataKept(n)
    BY <1>3, <1>5, <1>6, SetMemKeeps DEF Shape
  <1>8. MemInv(m)' /\ DataKept(m') /\ m'.env_pgdir = m.env_pgdir /\ Puts(m', e, PFTEMP, Zero)
    BY <1>5, <1>7
  <1>9. /\ m'.pte[e][PFTEMP] = Zero
        /\ \A v \in Va \ {PFTEMP} : m'.pte[e][v] = m.pte[e][v]
        /\ \A x \in Env \ {e} : m'.pte[x] = m.pte[x]
    BY <1>8 DEF Puts
  <1>10. \A v \in UserVa : v \in Va /\ m'.pte[e][v] = m.pte[e][v]
    BY <1>3, <1>9, Addresses
  <1>11. /\ FramesAt(e)' /\ DOMAIN utf' = Env /\ utf'[e] # <<>>
         /\ utf'[e][1][1] = va /\ utf'[e][1][2] = "ret"
         /\ \A x \in Env \ {e} : utf'[x] = utf[x]
    <2>1. FramesAt(e) /\ DOMAIN utf = Env /\ "ret" \in FaultPCs
      BY <1>3 DEF EnvInv, Shape, FaultPCs
    <2>2. Perm(e, DATA)' = Perm(e, DATA)
      BY <1>10 DEF Perm, UserVa
    <2> QED BY <1>2, <1>3, <1>6, <2>1, <2>2, FrameMoves
  <1>12. \A x \in Env \ {e} : EnvInv(x)'
    BY <1>3, <1>6, <1>8, <1>9, <1>11, HandlerOthers
  <1>13. EnvInv(e)'
    <2>1. /\ m'.pte[e][EXSTACK] = m.pte[e][EXSTACK] /\ m'.pte[e][UTEMP] = m.pte[e][UTEMP]
          /\ ~Mapped(m, e, PFTEMP)'
      BY <1>9, Addresses DEF EXSTACK, UTEMP, PFTEMP, Mapped, Zero
    <2>2. EntriesAt(e)'
      <3>1. \A v \in Va : Mapped(m, e, v)' =>
              /\ Perm(e, v)' \in {{"W"}, {"COW"}}
              /\ v \notin UserVa \/ fork_kind # "cow" => Perm(e, v)' = {"W"}
              /\ v \in {PFTEMP, EXSTACK} => fork_kind = "cow"
        <4>1. EntriesAt(e) /\ Zero.page = NoPage
          BY <1>3 DEF EnvInv, Zero
        <4> QED BY <1>3, <1>8, <4>1, EntryPut
      <3> QED BY <1>3, <1>6, <1>10, <1>11, <2>1, <3>1 DEF EnvInv, EntriesAt, Live, Mapped
    <2>3. HandlerAt(e)'
      <3>1. Perm(e, va) = {"W"}
        BY <1>2, <1>3 DEF EnvInv, HandlerAt
      <3> QED BY <1>3, <1>6, <1>10, <1>11, <2>1, <3>1 DEF HandlerAt, Live, Perm, progVars
    <2>4. DirAt(e)' /\ UpcallAt(e)' /\ HandledAt(e)'
      BY <1>3, <1>6, <1>8, <2>1 DEF EnvInv, DirAt, UpcallAt, HandledAt, Live,
         Mapped, progVars
    <2>5. ForkAt(e)'
      BY <1>3, <1>6 DEF EnvInv, ForkAt, LoopPCs, forkVars
    <2>6. ChildAt(e)'
      <3>1. fork_child[e] # NoEnv => m'.pte[fork_child[e]] = m.pte[fork_child[e]]
        BY <1>3, <1>9 DEF Shape
      <3> QED BY <1>3, <1>6, <2>1, <3>1 DEF EnvInv, ChildAt, forkVars, Mapped, progVars, PageAt
    <2> QED BY <1>11, <2>2, <2>3, <2>4, <2>5, <2>6 DEF EnvInv
  <1>14. OwnPages'
    <2> SUFFICES ASSUME NEW x \in Env, NEW f \in Env, NEW vx \in Va, NEW vf \in Va,
                        Shares(m', x, vx, f, vf)
                 PROVE  Doubled(x, vx, f, vf)'
      BY DEF OwnPages
    <2>1. (x # e \/ vx # PFTEMP) /\ (f # e \/ vf # PFTEMP)
      <3>1. Puts(n, e, PFTEMP, Zero) /\ Shares(n, x, vx, f, vf) /\ Zero.page = NoPage
        BY <1>5, <1>7 DEF Zero
      <3> QED BY <1>3, <3>1, FreshShares
    <2>2. Shares(m, x, vx, f, vf) /\ n.pte[f][vf].perm = Perm(f, vf)
      <3>1. Puts(n, e, PFTEMP, Zero) /\ Shares(n, x, vx, f, vf)
        BY <1>5, <1>7
      <3>2. n.pte[x][vx] = m.pte[x][vx] /\ n.pte[f][vf] = m.pte[f][vf]
        BY <2>1, <3>1 DEF Puts
      <3> QED BY <3>1, <3>2 DEF Shares, Mapped, Perm
    <2>3. Doubled(x, vx, f, vf) /\ Perm(f, vf)' = Perm(f, vf)
      BY <1>3, <1>7, <2>2 DEF OwnPages, Perm
    <2>4. \A y \in Env \ {e} : Keeps(y)
      BY <1>6, <1>11 DEF Keeps, forkVars
    <2>5. CASE x # e /\ f # e
      BY <2>3, <2>4, <2>5, ReasonStays
    <2>6. CASE x = e \/ f = e
      <3>1. ~HandlerSees(x, vx, f, vf)
        BY <2>1, <2>6 DEF HandlerSees
      <3>2. UNCHANGED <<pc, fork_child, fork_va>>
        BY <1>6 DEF forkVars
      <3> QED BY <2>3, <3>1, <3>2 DEF Doubled, ParentSees, NotYetMarked
    <2> QED BY <2>5, <2>6
  <1>15. Shape' /\ OneParent'
    BY <1>3, <1>6, <1>7, <1>11 DEF CowInv, Shape, OneParent, progVars, forkVars
  <1> QED BY <1>8, <1>12, <1>13, <1>14, <1>15 DEF CowInv

-----------------------------------------------------------------------------
(* Steps of fork that change the tables.                                   *)

\* What the steps of fork after sys_exofork start from.
LEMMA InTheFork ==
    ASSUME CowInv, NEW e \in Env, NEW l \in LoopPCs \cup {"xstack"}, AtPage(e, l),
           NEW c, c = fork_child[e]
    PROVE  /\ Envs /\ Shape /\ OwnPages /\ EnvInv(e)
           /\ utf[e] = <<>> /\ pc[e] = l /\ Live(e)
           /\ c \in Env /\ c # e /\ c # NoEnv /\ pc[c] = "embryo" /\ EnvInv(c)
           /\ utf[c] = <<>> /\ fork_child[c] = NoEnv /\ fork_va[c] = 0
           /\ m.env_pgdir[c] # NoPage /\ m.env_pgdir[e] # NoPage
           /\ \A x \in Env : fork_child[x] # e
           /\ \A x \in Env : fork_child[x] = c => x = e
  <1>1. /\ Envs /\ Shape /\ OwnPages /\ EnvInv(e) /\ utf[e] = <<>> /\ pc[e] = l /\ Live(e)
    BY DEF CowInv, Envs, AtPage, Executes, Live
  <1>2. c \in Env /\ c # NoEnv
    BY <1>1 DEF Shape, EnvInv, ForkAt
  <1>3. c # e /\ pc[c] = "embryo" /\ EnvInv(c)
    BY <1>1, <1>2 DEF Envs, EnvInv, ChildAt, Live
  <1>4. utf[c] = <<>> /\ fork_child[c] = NoEnv /\ fork_va[c] = 0
    BY <1>3 DEF EnvInv, HandlerAt, ForkAt, Live
  <1>5. m.env_pgdir[c] # NoPage /\ m.env_pgdir[e] # NoPage
    BY <1>1, <1>3 DEF EnvInv, DirAt, Live
  <1>6. \A x \in Env : fork_child[x] # e
    BY <1>1, NoChild, NoEnvIsNone DEF Live
  <1>7. \A x \in Env : fork_child[x] = c => x = e
    BY <1>2 DEF CowInv, OneParent
  <1> QED BY <1>1, <1>2, <1>3, <1>4, <1>5, <1>6, <1>7

\* A system call of fork fails: the parent stays where it is, for ever.
LEMMA PanicKeeps ==
    ASSUME CowInv, NEW e \in Env, Live(e), utf[e] = <<>>, pc[e] \notin {"copy", "untemp"},
           \A x \in Env : fork_child[x] # e,
           MemInv(m)', DataKept(m'), data' \in [Page -> Value],
           m'.pte = m.pte, m'.env_pgdir = m.env_pgdir, Goto(e, "panic"),
           UNCHANGED <<progVars, forkVars, utf, forks, fork_kind>>
    PROVE  CowInv'
  <1>1. Envs /\ Shape /\ OwnPages /\ EnvInv(e)
    BY DEF CowInv, Envs
  <1>2. /\ pc'[e] = "panic" /\ \A x \in Env \ {e} : pc'[x] = pc[x]
        /\ pc' \in [Env -> ForkPCs \cup {"free", "embryo", "run", "panic"}]
        /\ fork_child[e] # NoEnv => /\ fork_child[e] \in Env \ {e}
                                    /\ pc'[fork_child[e]] = pc[fork_child[e]]
    BY <1>1 DEF Shape, Goto
  <1>3. \A x \in Env \ {e} : EnvInv(x)'
    <2>1. \A x \in Env \ {e} : Same(x) /\ DataSame(x)
      BY <1>2, KeptSame DEF Same, progVars, forkVars
    <2> QED BY <1>1, <2>1, OthersKeep
  <1>4. EnvInv(e)'
    <2>1. ChildAt(e)'
      BY <1>1, <1>2 DEF EnvInv, ChildAt, forkVars
    <2>2. DirAt(e)' /\ EntriesAt(e)' /\ UpcallAt(e)'
      BY <1>1, <1>2 DEF EnvInv, DirAt, EntriesAt, UpcallAt, Live, Mapped, Perm, progVars
    <2>3. HandledAt(e)' /\ HandlerAt(e)' /\ ForkAt(e)'
      BY <1>1, <1>2 DEF HandledAt, HandlerAt, ForkAt, LoopPCs
    <2>4. FramesAt(e)'
      BY NoFrames
    <2> QED BY <2>1, <2>2, <2>3, <2>4 DEF EnvInv
  <1>5. OwnPages'
    <2>1. \A x \in Env : Keeps(x)
      BY <1>2 DEF Keeps, forkVars
    <2> QED BY <1>1, <2>1, OwnSame
  <1>6. Shape' /\ OneParent'
    BY <1>1, <1>2 DEF CowInv, Shape, OneParent, progVars, forkVars
  <1> QED BY <1>3, <1>4, <1>5, <1>6 DEF CowInv

\* A child that has not started gets another page.
LEMMA ChildPut ==
    ASSUME NEW c \in Env, EnvInv(c), pc[c] = "embryo", utf[c] = <<>>,
           fork_child[c] = NoEnv, fork_va[c] = 0,
           NEW v \in Va, v \notin {UTEMP, PFTEMP}, NEW z, Puts(m', c, v, z), z.page # NoPage,
           z.perm \in {{"W"}, {"COW"}},
           v \notin UserVa \/ fork_kind # "cow" => z.perm = {"W"},
           v = EXSTACK => fork_kind = "cow",
           m'.env_pgdir = m.env_pgdir, pc'[c] = pc[c],
           fork_child'[c] = fork_child[c], fork_va'[c] = fork_va[c],
           UNCHANGED <<progVars, utf, fork_kind>>
    PROVE  EnvInv(c)'
  <1>1. EntriesAt(c) /\ UpcallAt(c) /\ DirAt(c) /\ FramesAt(c)
    BY DEF EnvInv
  <1>2. \A va \in Va : Mapped(m, c, va)' =>
              /\ Perm(c, va)' \in {{"W"}, {"COW"}}
              /\ va \notin UserVa \/ fork_kind # "cow" => Perm(c, va)' = {"W"}
              /\ va \in {PFTEMP, EXSTACK} => fork_kind = "cow"
    <2>1. \/ z.page = NoPage
          \/ /\ z.perm \in {{"W"}, {"COW"}}
             /\ v \notin UserVa \/ fork_kind # "cow" => z.perm = {"W"}
             /\ v \in {PFTEMP, EXSTACK} => fork_kind = "cow"
      OBVIOUS
    <2> QED BY <1>1, <2>1, EntryPut
  <1>3. UTEMP \in Va /\ PFTEMP \in Va /\ EXSTACK \in Va
    BY Addresses DEF UTEMP, PFTEMP, EXSTACK
  <1>4. m'.pte[c][UTEMP] = m.pte[c][UTEMP] /\ m'.pte[c][PFTEMP] = m.pte[c][PFTEMP]
    BY <1>3 DEF Puts
  <1>5. EntriesAt(c)'
    BY <1>1, <1>2, <1>4 DEF EntriesAt, Live, Mapped
  <1>6. Mapped(m, c, EXSTACK) => Mapped(m, c, EXSTACK)'
    BY <1>3 DEF Puts, Mapped
  <1>7. UpcallAt(c)' /\ DirAt(c)' /\ FramesAt(c)'
    <2>1. FramesAt(c)'
      <3>1. utf'[c] = <<>>
        OBVIOUS
      <3> QED BY <3>1, NoFrames
    <2> QED BY <1>1, <1>6, <2>1 DEF UpcallAt, DirAt, Live, progVars
  <1> QED BY <1>5, <1>7 DEF EnvInv, HandledAt, HandlerAt, ForkAt, ChildAt, LoopPCs

\* The first call of duppage.
LEMMA ShareKeeps ==
    ASSUME CowInv, NEW e \in Env, Share(e), UNCHANGED <<forks, fork_kind>>
    PROVE  CowInv'
  <1>1. AtPage(e, "share") /\ "share" \in LoopPCs \cup {"xstack"}
    BY DEF Share, LoopPCs
  <1>2. PICK c, va : c = fork_child[e] /\ va = fork_va[e]
    OBVIOUS
  <1>3. /\ Envs /\ Shape /\ OwnPages /\ EnvInv(e)
        /\ utf[e] = <<>> /\ pc[e] = "share" /\ Live(e)
        /\ c \in Env /\ c # e /\ c # NoEnv /\ pc[c] = "embryo" /\ EnvInv(c)
        /\ utf[c] = <<>> /\ fork_child[c] = NoEnv /\ fork_va[c] = 0
        /\ m.env_pgdir[c] # NoPage /\ m.env_pgdir[e] # NoPage
        /\ \A x \in Env : fork_child[x] # e
        /\ \A x \in Env : fork_child[x] = c => x = e
    BY <1>1, <1>2, InTheFork
  <1>4. /\ fork_kind = "cow" /\ fork_pte[e] \cap {"W", "COW"} # {}
        /\ va \in UserVa /\ va \in Va
    BY <1>2, <1>3, Addresses DEF EnvInv, ForkAt, LoopPCs
  <1>5. PICK r : r = env_page_map(m, e, va, c, va, {"COW"})
    OBVIOUS
  <1>6. /\ SetMem(r.mem) /\ Goto(e, IF r.ret = "ok" THEN "mark" ELSE "panic")
        /\ UNCHANGED <<progVars, forkVars, utf>>
    BY <1>2, <1>4, <1>5 DEF Share, Syscall
  <1>7. Mapped(m, e, va)
    BY <1>3, <1>4 DEF EnvInv, EntriesAt
  <1>8. /\ MemInv(r.mem) /\ r.mem.env_pgdir = m.env_pgdir
        /\ r.ret = "ok" => Puts(r.mem, c, va, [page |-> PageAt(e, va), perm |-> {"COW"}])
        /\ r.ret # "ok" => r.mem.pte = m.pte
    <2>1. PICK w \in SUBSET Flag : w = {"COW"}
      BY DEF Flag
    <2>2. /\ MemInv(m) /\ Mapped(m, e, va) /\ m.env_pgdir[c] # NoPage
          /\ c \in Env /\ va \in Va /\ r = env_page_map(m, e, va, c, va, w)
      BY <1>3, <1>4, <1>5, <1>7, <2>1 DEF CowInv
    <2>3. /\ MemInv(r.mem) /\ r.mem.env_pgdir = m.env_pgdir
          /\ r.ret = "ok" => Puts(r.mem, c, va, [page |-> PageAt(e, va), perm |-> w])
          /\ r.ret # "ok" => r.mem.pte = m.pte
      BY <2>2, MapPuts
    <2> QED BY <2>1, <2>3
  <1>9. m' = r.mem /\ data' \in [Page -> Value] /\ DataKept(r.mem)
    BY <1>3, <1>6, <1>8, SetMemKeeps DEF Shape
  <1>10. MemInv(m)' /\ DataKept(m') /\ m'.env_pgdir = m.env_pgdir
    BY <1>8, <1>9
  <1>11. CASE r.ret # "ok"
    <2>1. Goto(e, "panic") /\ m'.pte = m.pte
      BY <1>6, <1>8, <1>9, <1>11
    <2> QED BY <1>3, <1>6, <1>9, <1>10, <2>1, PanicKeeps
  <1>12. CASE r.ret = "ok"
    <2>1. PICK z : /\ z.page = PageAt(e, va) /\ z.perm = {"COW"} /\ z.page # NoPage
                   /\ Puts(m', c, va, z)
      <3>1. PICK z : z = [page |-> PageAt(e, va), perm |-> {"COW"}]
        OBVIOUS
      <3> QED BY <1>7, <1>8, <1>9, <1>12, <3>1 DEF Mapped, PageAt
    <2>2. /\ m'.pte[c][va] = z
          /\ \A v \in Va \ {va} : m'.pte[c][v] = m.pte[c][v]
          /\ \A x \in Env \ {c} : m'.pte[x] = m.pte[x]
      BY <2>1 DEF Puts
    <2>3. /\ pc'[e] = "mark" /\ \A x \in Env \ {e} : pc'[x] = pc[x]
          /\ pc' \in [Env -> ForkPCs \cup {"free", "embryo", "run", "panic"}]
      BY <1>3, <1>6, <1>12 DEF Shape, Goto, ForkPCs
    <2>4. \A x \in Env \ {e, c} : EnvInv(x)'
      <3>1. \A x \in Env \ {e, c} : Same(x) /\ DataSame(x)
        BY <1>6, <1>10, <2>2, <2>3, KeptSame DEF Same, progVars, forkVars
      <3>2. {e, c} \in SUBSET Env /\ \A x \in Env \ {e, c} : fork_child[x] \notin {e, c}
        BY <1>3
      <3> QED BY <1>3, <3>1, <3>2, OthersKeep
    <2>5. EnvInv(c)'
      <3>1. /\ va \notin {UTEMP, PFTEMP} /\ va # EXSTACK
        BY <1>4, Addresses DEF UTEMP, PFTEMP, EXSTACK
      <3>2. /\ pc'[c] = pc[c] /\ fork_child'[c] = fork_child[c] /\ fork_va'[c] = fork_va[c]
            /\ UNCHANGED <<progVars, utf, fork_kind>>
        BY <1>3, <1>6, <2>3 DEF forkVars
      <3>3. /\ z.perm \in {{"W"}, {"COW"}}
            /\ va \notin UserVa \/ fork_kind # "cow" => z.perm = {"W"}
        BY <1>4, <2>1
      <3> QED BY <1>3, <1>4, <1>10, <2>1, <3>1, <3>2, <3>3, ChildPut
    <2>6. EnvInv(e)'
      <3>1. ChildAt(e)'
        <4>1. /\ Mapped(m, c, va)'
              /\ \A v \in UserVa : v # va => (Mapped(m, c, v)' <=> Mapped(m, c, v))
          BY <1>4, <2>1, <2>2, Addresses DEF Mapped
        <4>2. \A v \in UserVa : (v < va \/ v > va) => v # va
          BY <1>4, Addresses
        <4>3. /\ fork_child'[e] = c /\ fork_va'[e] = va /\ pc'[c] = "embryo"
              /\ \A v \in UserVa : /\ v < va => Mapped(m, c, v)
                                   /\ v > va => ~Mapped(m, c, v)
          BY <1>2, <1>3, <1>6, <2>3 DEF EnvInv, ChildAt, forkVars
        <4> QED BY <2>3, <4>1, <4>2, <4>3 DEF ChildAt
      <3>2. m'.pte[e] = m.pte[e] /\ utf'[e] = <<>>
        BY <1>3, <1>6, <2>2
      <3>3. DirAt(e)' /\ EntriesAt(e)' /\ UpcallAt(e)'
        BY <1>3, <1>6, <1>10, <2>3, <3>2 DEF EnvInv, DirAt, EntriesAt, UpcallAt, Live, Mapped,
           Perm, progVars
      <3>4. HandledAt(e)' /\ HandlerAt(e)'
        BY <1>3, <1>6, <2>3, <3>2 DEF EnvInv, HandledAt, HandlerAt, LoopPCs, Perm, progVars, forkVars
      <3>5. ForkAt(e)' /\ FramesAt(e)'
        BY <1>3, <1>4, <1>6, <2>3, <3>2, NoFrames DEF EnvInv, ForkAt, LoopPCs, forkVars
      <3> QED BY <3>1, <3>3, <3>4, <3>5 DEF EnvInv
    <2>7. OwnPages'
      <3> SUFFICES ASSUME NEW x \in Env, NEW f \in Env, NEW vx \in Va, NEW vf \in Va,
                          Shares(m', x, vx, f, vf)
                   PROVE  Doubled(x, vx, f, vf)'
        BY DEF OwnPages
      <3>1. PICK n : n = m'
        OBVIOUS
      <3>2. \A y \in Env : Keeps(y)
        BY <1>3, <1>6, <2>3 DEF Keeps, forkVars
      <3>3. x # c \/ vx # va
        BY <2>1, <2>2 DEF Shares
      <3>4. CASE f = c /\ vf = va
        <4>1. n.pte[x][vx] = m.pte[x][vx]
          BY <2>2, <3>1, <3>3
        <4>2. m.pte[x][vx].page = PageAt(e, va) /\ Mapped(m, x, vx) /\ Perm(x, vx) = {"W"}
          BY <2>1, <2>2, <3>1, <3>4, <4>1 DEF Shares, Mapped, Perm
        <4>3. CASE x = e /\ vx = va
          <5>1. Perm(c, va)' = {"COW"}
            BY <2>1, <2>2 DEF Perm
          <5>2. fork_child'[e] = c /\ fork_va'[e] = va
            BY <1>2, <1>6 DEF forkVars
          <5> QED BY <2>3, <3>4, <4>3, <5>1, <5>2 DEF Doubled, NotYetMarked
        <4>4. CASE x # e \/ vx # va
          <5>1. Shares(m, x, vx, e, va)
            BY <4>2, <4>4 DEF Shares, PageAt, Perm
          <5>2. Doubled(x, vx, e, va)
            BY <1>3, <1>4, <5>1 DEF OwnPages
          <5>3. pc[x] \notin {"copy", "untemp"}
            BY <1>3, <1>4 DEF Envs, EnvInv, ForkAt
          <5> QED BY <1>3, <5>2, <5>3 DEF Doubled, HandlerSees, ParentSees, NotYetMarked
        <4> QED BY <4>3, <4>4
      <3>5. CASE f # c \/ vf # va
        <4>1. Shares(m, x, vx, f, vf) /\ n.pte[f][vf].perm = Perm(f, vf)
          <5>1. PICK d \in Env, v \in Va : d = c /\ v = va
            BY <1>3, <1>4
          <5>2. /\ Puts(n, d, v, z) /\ Shares(n, x, vx, f, vf)
                /\ x # d \/ vx # v
                /\ f # d \/ vf # v
            BY <2>1, <3>1, <3>3, <3>5, <5>1
          <5> QED BY <5>2, PutsShares
        <4>2. Doubled(x, vx, f, vf) /\ Perm(f, vf)' = Perm(f, vf)
          BY <1>3, <3>1, <4>1 DEF OwnPages, Perm
        <4> QED BY <3>2, <4>2, ReasonStays
      <3> QED BY <3>4, <3>5
    <2>8. Shape' /\ OneParent'
      BY <1>3, <1>6, <1>9, <2>3 DEF CowInv, Shape, OneParent, progVars, forkVars
    <2>9. \A x \in Env : EnvInv(x)'
      BY <2>4, <2>5, <2>6
    <2> QED BY <1>10, <2>7, <2>8, <2>9 DEF CowInv
  <1> QED BY <1>11, <1>12

\* A step of fork that gives the child a page of its own.
LEMMA ChildGets ==
    ASSUME CowInv, NEW e \in Env, NEW c \in Env, c = fork_child[e], c # e,
           utf[e] = <<>>, pc[e] \in {"alloc", "xstack"},
           pc[c] = "embryo", EnvInv(c), utf[c] = <<>>, fork_child[c] = NoEnv, fork_va[c] = 0,
           \A x \in Env : fork_child[x] # e,
           \A x \in Env : fork_child[x] = c => x = e,
           NEW v \in Va, v \notin {UTEMP, PFTEMP}, v = EXSTACK => fork_kind = "cow",
           NEW z, z.perm = {"W"}, z.page # NoPage, Unused(m, z.page), Puts(m', c, v, z),
           MemInv(m)', DataKept(m'), data' \in [Page -> Value], m'.env_pgdir = m.env_pgdir,
           NEW l \in {"temp", "upcall"}, Goto(e, l),
           UNCHANGED <<progVars, forkVars, utf, forks, fork_kind>>,
           EnvInv(e)'
    PROVE  CowInv'
  <1>1. Envs /\ Shape /\ OwnPages
    BY DEF CowInv, Envs
  <1>2. /\ pc'[e] = l /\ \A x \in Env \ {e} : pc'[x] = pc[x]
        /\ pc' \in [Env -> ForkPCs \cup {"free", "embryo", "run", "panic"}]
    BY <1>1 DEF Shape, Goto, ForkPCs
  <1>3. \A x \in Env \ {c} : m'.pte[x] = m.pte[x]
    BY DEF Puts
  <1>4. \A x \in Env \ {e, c} : EnvInv(x)'
    <2>1. \A x \in Env \ {e, c} : Same(x) /\ DataSame(x)
      BY <1>2, <1>3, KeptSame DEF Same, progVars, forkVars
    <2>2. {e, c} \in SUBSET Env /\ \A x \in Env \ {e, c} : fork_child[x] \notin {e, c}
      OBVIOUS
    <2> QED BY <1>1, <2>1, <2>2, OthersKeep
  <1>5. EnvInv(c)'
    <2>1. /\ pc'[c] = pc[c] /\ fork_child'[c] = fork_child[c] /\ fork_va'[c] = fork_va[c]
          /\ UNCHANGED <<progVars, utf, fork_kind>>
      BY <1>2 DEF forkVars
    <2>2. /\ z.perm \in {{"W"}, {"COW"}}
          /\ v \notin UserVa \/ fork_kind # "cow" => z.perm = {"W"}
      OBVIOUS
    <2> QED BY <2>1, <2>2, ChildPut
  <1>6. OwnPages'
    <2>1. \A x \in Env : Keeps(x)
      BY <1>2 DEF Keeps, forkVars
    <2> QED BY <1>1, <2>1, OwnFresh
  <1>7. Shape' /\ OneParent'
    BY <1>1, <1>2 DEF CowInv, Shape, OneParent, progVars, forkVars
  <1>8. \A x \in Env : EnvInv(x)'
    BY <1>4, <1>5
  <1> QED BY <1>6, <1>7, <1>8 DEF CowInv

\* A page for the child, to be filled.
LEMMA ForkAllocKeeps ==
    ASSUME CowInv, NEW e \in Env, Alloc(e), UNCHANGED <<forks, fork_kind>>
    PROVE  CowInv'
  <1>1. AtPage(e, "alloc") /\ "alloc" \in LoopPCs \cup {"xstack"}
    BY DEF Alloc, LoopPCs
  <1>2. PICK c, va : c = fork_child[e] /\ va = fork_va[e]
    OBVIOUS
  <1>3. /\ Envs /\ Shape /\ OwnPages /\ EnvInv(e)
        /\ utf[e] = <<>> /\ pc[e] = "alloc" /\ Live(e)
        /\ c \in Env /\ c # e /\ c # NoEnv /\ pc[c] = "embryo" /\ EnvInv(c)
        /\ utf[c] = <<>> /\ fork_child[c] = NoEnv /\ fork_va[c] = 0
        /\ m.env_pgdir[c] # NoPage /\ m.env_pgdir[e] # NoPage
        /\ \A x \in Env : fork_child[x] # e
        /\ \A x \in Env : fork_child[x] = c => x = e
    BY <1>1, <1>2, InTheFork
  <1>4. fork_kind # "cow" /\ va \in UserVa /\ va \in Va /\ va \notin {UTEMP, PFTEMP, EXSTACK}
    BY <1>2, <1>3, Addresses DEF EnvInv, ForkAt, LoopPCs, UTEMP, PFTEMP, EXSTACK
  <1>5. PICK r : r = env_page_alloc(m, c, va, {"W"})
    OBVIOUS
  <1>6. /\ SetMem(r.mem) /\ Goto(e, IF r.ret = "ok" THEN "temp" ELSE "panic")
        /\ UNCHANGED <<progVars, forkVars, utf>>
    BY <1>2, <1>5 DEF Alloc, Syscall
  <1>7. /\ MemInv(r.mem) /\ r.mem.env_pgdir = m.env_pgdir
        /\ r.ret = "ok" => \E p \in Page :
              Unused(m, p) /\ Puts(r.mem, c, va, [page |-> p, perm |-> {"W"}])
        /\ r.ret # "ok" => r.mem.pte = m.pte
    BY <1>3, <1>4, <1>5, AllocPuts DEF CowInv
  <1>8. m' = r.mem /\ data' \in [Page -> Value] /\ DataKept(r.mem)
    BY <1>3, <1>6, <1>7, SetMemKeeps DEF Shape
  <1>9. MemInv(m)' /\ DataKept(m') /\ m'.env_pgdir = m.env_pgdir
    BY <1>7, <1>8
  <1>10. CASE r.ret # "ok"
    <2>1. Goto(e, "panic") /\ m'.pte = m.pte
      BY <1>6, <1>7, <1>8, <1>10
    <2> QED BY <1>3, <1>6, <1>8, <1>9, <2>1, PanicKeeps
  <1>11. CASE r.ret = "ok"
    <2>1. PICK z : /\ z.perm = {"W"} /\ z.page # NoPage /\ Unused(m, z.page)
                   /\ Puts(m', c, va, z)
      <3>1. PICK p \in Page : /\ Unused(m, p)
                              /\ Puts(m', c, va, [page |-> p, perm |-> {"W"}])
        BY <1>7, <1>8, <1>11
      <3>2. PICK z : z = [page |-> p, perm |-> {"W"}]
        OBVIOUS
      <3> QED BY <3>1, <3>2, NoPageIsNone
    <2>2. PICK l \in {"temp", "upcall"} : l = "temp"
      OBVIOUS
    <2>2a. Goto(e, l)
      BY <1>6, <1>11, <2>2
    <2>3. pc'[e] = "temp" /\ pc'[c] = "embryo"
      BY <1>3, <2>2, <2>2a DEF Shape, Goto
    <2>4. /\ Mapped(m, c, va)'
          /\ \A v \in UserVa : v # va => (Mapped(m, c, v)' <=> Mapped(m, c, v))
          /\ m'.pte[e] = m.pte[e]
      <3>1. /\ m'.pte[c][va] = z
            /\ \A v \in Va \ {va} : m'.pte[c][v] = m.pte[c][v]
            /\ \A x \in Env \ {c} : m'.pte[x] = m.pte[x]
        BY <2>1 DEF Puts
      <3>2. UserVa \subseteq Va
        BY Addresses
      <3> QED BY <1>3, <2>1, <3>1, <3>2 DEF Mapped
    <2>5. EnvInv(e)'
      <3>1. ChildAt(e)'
        <4>1. \A v \in UserVa : (v < va \/ v > va) => v # va
          BY <1>4, Addresses
        <4>2. /\ fork_child'[e] = c /\ fork_va'[e] = va
              /\ \A v \in UserVa : /\ v < va => Mapped(m, c, v)
                                   /\ v > va => ~Mapped(m, c, v)
          BY <1>2, <1>3, <1>6 DEF EnvInv, ChildAt, forkVars
        <4> QED BY <1>3, <2>3, <2>4, <4>1, <4>2 DEF ChildAt
      <3>2. utf'[e] = <<>>
        BY <1>3, <1>6
      <3>3. DirAt(e)' /\ EntriesAt(e)' /\ UpcallAt(e)'
        BY <1>3, <1>6, <1>9, <2>3, <2>4, <3>2 DEF EnvInv, DirAt, EntriesAt, UpcallAt, Live, Mapped,
           Perm, progVars
      <3>4. HandledAt(e)' /\ HandlerAt(e)'
        BY <1>3, <1>6, <2>3, <2>4, <3>2 DEF EnvInv, HandledAt, HandlerAt, LoopPCs, Perm, progVars, forkVars
      <3>5. ForkAt(e)' /\ FramesAt(e)'
        BY <1>3, <1>4, <1>6, <2>3, <3>2, NoFrames DEF EnvInv, ForkAt, LoopPCs, forkVars
      <3> QED BY <3>1, <3>3, <3>4, <3>5 DEF EnvInv
    <2> QED BY <1>2, <1>3, <1>4, <1>6, <1>8, <1>9, <2>1, <2>2a, <2>5, ChildGets
  <1> QED BY <1>10, <1>11

\* The exception stack of the child.
LEMMA XStackKeeps ==
    ASSUME CowInv, NEW e \in Env, XStack(e), UNCHANGED <<forks, fork_kind>>
    PROVE  CowInv'
  <1>1. AtPage(e, "xstack") /\ "xstack" \in LoopPCs \cup {"xstack"}
    BY DEF XStack
  <1>2. PICK c, va : c = fork_child[e] /\ va = EXSTACK
    OBVIOUS
  <1>3. /\ Envs /\ Shape /\ OwnPages /\ EnvInv(e)
        /\ utf[e] = <<>> /\ pc[e] = "xstack" /\ Live(e)
        /\ c \in Env /\ c # e /\ c # NoEnv /\ pc[c] = "embryo" /\ EnvInv(c)
        /\ utf[c] = <<>> /\ fork_child[c] = NoEnv /\ fork_va[c] = 0
        /\ m.env_pgdir[c] # NoPage /\ m.env_pgdir[e] # NoPage
        /\ \A x \in Env : fork_child[x] # e
        /\ \A x \in Env : fork_child[x] = c => x = e
    BY <1>1, <1>2, InTheFork
  <1>4. fork_kind = "cow" /\ va \in Va /\ va \notin UserVa /\ va \notin {UTEMP, PFTEMP}
    BY <1>2, <1>3, Addresses DEF EnvInv, ForkAt, LoopPCs, UTEMP, PFTEMP, EXSTACK
  <1>5. PICK r : r = env_page_alloc(m, c, va, {"W"})
    OBVIOUS
  <1>6. /\ SetMem(r.mem) /\ Goto(e, IF r.ret = "ok" THEN "upcall" ELSE "panic")
        /\ UNCHANGED <<progVars, forkVars, utf>>
    BY <1>2, <1>5 DEF XStack, Syscall
  <1>7. /\ MemInv(r.mem) /\ r.mem.env_pgdir = m.env_pgdir
        /\ r.ret = "ok" => \E p \in Page :
              Unused(m, p) /\ Puts(r.mem, c, va, [page |-> p, perm |-> {"W"}])
        /\ r.ret # "ok" => r.mem.pte = m.pte
    BY <1>3, <1>4, <1>5, AllocPuts DEF CowInv
  <1>8. m' = r.mem /\ data' \in [Page -> Value] /\ DataKept(r.mem)
    BY <1>3, <1>6, <1>7, SetMemKeeps DEF Shape
  <1>9. MemInv(m)' /\ DataKept(m') /\ m'.env_pgdir = m.env_pgdir
    BY <1>7, <1>8
  <1>10. CASE r.ret # "ok"
    <2>1. Goto(e, "panic") /\ m'.pte = m.pte
      BY <1>6, <1>7, <1>8, <1>10
    <2> QED BY <1>3, <1>6, <1>8, <1>9, <2>1, PanicKeeps
  <1>11. CASE r.ret = "ok"
    <2>1. PICK z : /\ z.perm = {"W"} /\ z.page # NoPage /\ Unused(m, z.page)
                   /\ Puts(m', c, va, z)
      <3>1. PICK p \in Page : /\ Unused(m, p)
                              /\ Puts(m', c, va, [page |-> p, perm |-> {"W"}])
        BY <1>7, <1>8, <1>11
      <3>2. PICK z : z = [page |-> p, perm |-> {"W"}]
        OBVIOUS
      <3> QED BY <3>1, <3>2, NoPageIsNone
    <2>2. PICK l \in {"temp", "upcall"} : l = "upcall"
      OBVIOUS
    <2>2a. Goto(e, l)
      BY <1>6, <1>11, <2>2
    <2>3. pc'[e] = "upcall" /\ pc'[c] = "embryo"
      BY <1>3, <2>2, <2>2a DEF Shape, Goto
    <2>4. /\ Mapped(m, c, va)'
          /\ \A v \in UserVa : Mapped(m, c, v)' <=> Mapped(m, c, v)
          /\ m'.pte[e] = m.pte[e]
      <3>1. /\ m'.pte[c][va] = z
            /\ \A v \in Va \ {va} : m'.pte[c][v] = m.pte[c][v]
            /\ \A x \in Env \ {c} : m'.pte[x] = m.pte[x]
        BY <2>1 DEF Puts
      <3>2. UserVa \subseteq Va
        BY Addresses
      <3> QED BY <1>3, <1>4, <2>1, <3>1, <3>2 DEF Mapped
    <2>5. EnvInv(e)'
      <3>1. ChildAt(e)'
        <4>1. /\ fork_child'[e] = c /\ fork_va'[e] = NVA
              /\ \A v \in UserVa : /\ v < NVA => Mapped(m, c, v)
                                   /\ v > NVA => ~Mapped(m, c, v)
          BY <1>2, <1>3, <1>6 DEF EnvInv, ChildAt, ForkAt, forkVars
        <4>2. \A v \in UserVa : v # NVA
          BY Addresses
        <4> QED BY <1>2, <1>3, <2>3, <2>4, <4>1, <4>2 DEF ChildAt
      <3>2. utf'[e] = <<>>
        BY <1>3, <1>6
      <3>3. DirAt(e)' /\ EntriesAt(e)' /\ UpcallAt(e)'
        BY <1>3, <1>6, <1>9, <2>3, <2>4, <3>2 DEF EnvInv, DirAt, EntriesAt, UpcallAt, Live, Mapped,
           Perm, progVars
      <3>4. HandledAt(e)' /\ HandlerAt(e)'
        BY <1>3, <1>6, <2>3, <2>4, <3>2 DEF EnvInv, HandledAt, HandlerAt, LoopPCs, Perm, progVars, forkVars
      <3>5. ForkAt(e)' /\ FramesAt(e)'
        BY <1>3, <1>4, <1>6, <2>3, <3>2, NoFrames DEF EnvInv, ForkAt, LoopPCs, forkVars
      <3> QED BY <3>1, <3>3, <3>4, <3>5 DEF EnvInv
    <2> QED BY <1>2, <1>3, <1>4, <1>6, <1>8, <1>9, <2>1, <2>2a, <2>5, ChildGets
  <1> QED BY <1>10, <1>11

\* The fork goes on with the next page.
LEMMA PageDone ==
    ASSUME Shape, NEW e \in Env, EnvInv(e), pc[e] \in {"mark", "untemp"},
           NEW c \in Env, c = fork_child[e], c # e, c # NoEnv, pc[c] = "embryo",
           Goto(e, "loop"), NextVa(e), m'.pte[c] = m.pte[c]
    PROVE  /\ ForkAt(e)' /\ ChildAt(e)'
           /\ pc'[e] = "loop" /\ \A x \in Env \ {e} : pc'[x] = pc[x]
           /\ pc' \in [Env -> ForkPCs \cup {"free", "embryo", "run", "panic"}]
           /\ fork_child' = fork_child
           /\ fork_va'[e] = fork_va[e] + 1
           /\ \A x \in Env \ {e} : fork_va'[x] = fork_va[x] /\ fork_pte'[x] = fork_pte[x]
           /\ fork_va' \in [Env -> 0..NVA] /\ fork_pte' \in [Env -> SUBSET Flag]
           /\ \A u \in UserVa : u >= fork_va'[e] => u >= fork_va[e] /\ u # fork_va[e]
  <1>1. PICK va : va = fork_va[e] /\ va \in UserVa
    BY DEF EnvInv, ForkAt, LoopPCs
  <1>2. /\ fork_va' = [fork_va EXCEPT ![e] = va + 1]
        /\ fork_pte' = [fork_pte EXCEPT ![e] = {}]
        /\ fork_child' = fork_child
    BY <1>1 DEF NextVa
  <1>3. va + 1 \in 0..NVA /\ va + 1 <= EXSTACK /\ {} \in SUBSET Flag
    BY <1>1, Addresses DEF EXSTACK
  <1>4. /\ pc'[e] = "loop" /\ \A x \in Env \ {e} : pc'[x] = pc[x]
        /\ pc' \in [Env -> ForkPCs \cup {"free", "embryo", "run", "panic"}]
    BY DEF Shape, Goto, ForkPCs
  <1>5. /\ fork_va'[e] = va + 1
        /\ \A x \in Env \ {e} : fork_va'[x] = fork_va[x] /\ fork_pte'[x] = fork_pte[x]
        /\ fork_va' \in [Env -> 0..NVA] /\ fork_pte' \in [Env -> SUBSET Flag]
    BY <1>2, <1>3 DEF Shape
  <1>6. \A u \in UserVa : /\ u >= va + 1 => u >= va /\ u # va
                          /\ u < va + 1 => u < va \/ u = va
                          /\ u > va + 1 \/ u = va + 1 => u > va
    BY <1>1, Addresses
  <1>7. ForkAt(e)'
    BY <1>2, <1>3, <1>4, <1>5 DEF ForkAt, LoopPCs
  <1>8. ChildAt(e)'
    <2>1. \A u \in UserVa : /\ u < va => Mapped(m, c, u)
                            /\ u > va => ~Mapped(m, c, u)
                            /\ u = va => Mapped(m, c, u)
      BY <1>1 DEF EnvInv, ChildAt
    <2>2. \A u \in UserVa : Mapped(m, c, u)' <=> Mapped(m, c, u)
      BY DEF Mapped
    <2> QED BY <1>2, <1>4, <1>5, <1>6, <2>1, <2>2 DEF ChildAt
  <1> QED BY <1>1, <1>2, <1>4, <1>5, <1>6, <1>7, <1>8

\* The second call of duppage: it cannot fail, since there is a table.
LEMMA MarkKeeps ==
    ASSUME CowInv, NEW e \in Env, Mark(e), UNCHANGED <<forks, fork_kind>>
    PROVE  CowInv'
  <1>1. AtPage(e, "mark") /\ "mark" \in LoopPCs \cup {"xstack"}
    BY DEF Mark, LoopPCs
  <1>2. PICK c, va : c = fork_child[e] /\ va = fork_va[e]
    OBVIOUS
  <1>3. /\ Envs /\ Shape /\ OwnPages /\ EnvInv(e)
        /\ utf[e] = <<>> /\ pc[e] = "mark" /\ Live(e)
        /\ c \in Env /\ c # e /\ c # NoEnv /\ pc[c] = "embryo" /\ EnvInv(c)
        /\ utf[c] = <<>> /\ fork_child[c] = NoEnv /\ fork_va[c] = 0
        /\ m.env_pgdir[c] # NoPage /\ m.env_pgdir[e] # NoPage
        /\ \A x \in Env : fork_child[x] # e
        /\ \A x \in Env : fork_child[x] = c => x = e
    BY <1>1, <1>2, InTheFork
  <1>4. fork_kind = "cow" /\ va \in UserVa /\ va \in Va /\ va \notin {UTEMP, PFTEMP, EXSTACK}
    BY <1>2, <1>3, Addresses DEF EnvInv, ForkAt, LoopPCs, UTEMP, PFTEMP, EXSTACK
  <1>5. PICK r, w : w = {"COW"} /\ r = env_page_map(m, e, va, e, va, w)
    OBVIOUS
  <1>6. Mapped(m, e, va) /\ HasTable(m, e, va)
    <2>1. Mapped(m, e, va)
      BY <1>3, <1>4 DEF EnvInv, EntriesAt
    <2> QED BY <1>4, <2>1 DEF CowInv, MemInv, Nested
  <1>7. r.ret = "ok"
    <2>1. "W" \notin w \ m.pte[e][va].perm
      BY <1>5
    <2> QED BY <1>5, <1>6, <2>1, MapSucceeds
  <1>8. /\ SetMem(r.mem) /\ Goto(e, "loop") /\ NextVa(e) /\ UNCHANGED <<progVars, utf>>
    BY <1>2, <1>5, <1>7 DEF Mark, Syscall
  <1>9. /\ MemInv(r.mem) /\ r.mem.env_pgdir = m.env_pgdir
        /\ r.ret = "ok" => Puts(r.mem, e, va, [page |-> PageAt(e, va), perm |-> w])
        /\ r.ret # "ok" => r.mem.pte = m.pte
    <2>1. w \in SUBSET Flag
      BY <1>5 DEF Flag
    <2>2. MemInv(m)
      BY DEF CowInv
    <2>3. /\ MemInv(m) /\ va \in Va /\ Mapped(m, e, va) /\ m.env_pgdir[e] # NoPage
          /\ r = env_page_map(m, e, va, e, va, w)
      BY <1>3, <1>4, <1>5, <1>6, <2>2
    <2> QED BY <2>1, <2>3, MapPuts
  <1>10. m' = r.mem /\ data' \in [Page -> Value] /\ DataKept(r.mem)
    BY <1>3, <1>8, <1>9, SetMemKeeps DEF Shape
  <1>11. MemInv(m)' /\ DataKept(m') /\ m'.env_pgdir = m.env_pgdir
    BY <1>9, <1>10
  <1>12. PICK z : z.page = PageAt(e, va) /\ z.perm = {"COW"} /\ Puts(m', e, va, z)
    <2>1. PICK z : z = [page |-> PageAt(e, va), perm |-> w]
      OBVIOUS
    <2> QED BY <1>5, <1>7, <1>9, <1>10, <2>1
  <1>13. /\ m'.pte[e][va] = z
         /\ \A v \in Va \ {va} : m'.pte[e][v] = m.pte[e][v]
         /\ \A x \in Env \ {e} : m'.pte[x] = m.pte[x]
    BY <1>12 DEF Puts
  <1>14. /\ ForkAt(e)' /\ ChildAt(e)'
         /\ pc'[e] = "loop" /\ \A x \in Env \ {e} : pc'[x] = pc[x]
         /\ pc' \in [Env -> ForkPCs \cup {"free", "embryo", "run", "panic"}]
         /\ fork_child' = fork_child
         /\ fork_va'[e] = fork_va[e] + 1
         /\ \A x \in Env \ {e} : fork_va'[x] = fork_va[x] /\ fork_pte'[x] = fork_pte[x]
         /\ fork_va' \in [Env -> 0..NVA] /\ fork_pte' \in [Env -> SUBSET Flag]
         /\ \A u \in UserVa : u >= fork_va'[e] => u >= fork_va[e] /\ u # fork_va[e]
    <2>1. m'.pte[c] = m.pte[c]
      BY <1>3, <1>13
    <2>2. pc[e] \in {"mark", "untemp"}
      BY <1>3
    <2> QED BY <1>2, <1>3, <1>8, <2>1, <2>2, PageDone
  <1>15. \A x \in Env \ {e} : EnvInv(x)'
    <2>1. \A x \in Env \ {e} : Same(x) /\ DataSame(x)
      BY <1>8, <1>11, <1>13, <1>14, KeptSame DEF Same, progVars
    <2> QED BY <1>3, <2>1, OthersKeep
  <1>16. EnvInv(e)'
    <2>1. /\ m'.pte[e][EXSTACK] = m.pte[e][EXSTACK] /\ m'.pte[e][UTEMP] = m.pte[e][UTEMP]
          /\ m'.pte[e][PFTEMP] = m.pte[e][PFTEMP]
          /\ \A v \in UserVa : v # va => m'.pte[e][v] = m.pte[e][v]
      <3>1. EXSTACK \in Va /\ UTEMP \in Va /\ PFTEMP \in Va /\ UserVa \subseteq Va
        BY Addresses DEF EXSTACK, UTEMP, PFTEMP
      <3> QED BY <1>4, <1>13, <3>1
    <2>2. utf'[e] = <<>>
      BY <1>3, <1>8
    <2>3. EntriesAt(e)'
      <3>1. \A v \in Va : Mapped(m, e, v)' =>
              /\ Perm(e, v)' \in {{"W"}, {"COW"}}
              /\ v \notin UserVa \/ fork_kind # "cow" => Perm(e, v)' = {"W"}
              /\ v \in {PFTEMP, EXSTACK} => fork_kind = "cow"
        <4>1. /\ z.perm \in {{"W"}, {"COW"}}
              /\ va \notin UserVa \/ fork_kind # "cow" => z.perm = {"W"}
              /\ va \in {PFTEMP, EXSTACK} => fork_kind = "cow"
          BY <1>4, <1>12
        <4> QED BY <1>3, <1>4, <1>12, <4>1, EntryPut DEF EnvInv
      <3>2. \A v \in UserVa : Mapped(m, e, v)'
        <4>1. Mapped(m, e, va)'
          BY <1>6, <1>12, <1>13 DEF Mapped, PageAt
        <4> QED BY <1>3, <2>1, <4>1 DEF EnvInv, EntriesAt, Mapped
      <3> QED BY <1>3, <1>8, <2>1, <2>2, <3>1, <3>2 DEF EnvInv, EntriesAt, Live, Mapped
    <2>4. HandledAt(e)'
      BY <1>2, <1>3, <1>8, <1>14, <2>1 DEF EnvInv, HandledAt, Perm, LoopPCs, progVars
    <2>5. DirAt(e)' /\ UpcallAt(e)' /\ HandlerAt(e)' /\ FramesAt(e)'
      BY <1>3, <1>8, <1>11, <1>14, <2>1, <2>2, NoFrames DEF EnvInv, DirAt, UpcallAt, HandlerAt, Live,
         Mapped, progVars
    <2> QED BY <1>14, <2>3, <2>4, <2>5 DEF EnvInv
  <1>17. OwnPages'
    <2> SUFFICES ASSUME NEW x \in Env, NEW f \in Env, NEW vx \in Va, NEW vf \in Va,
                        Shares(m', x, vx, f, vf)
                 PROVE  Doubled(x, vx, f, vf)'
      BY DEF OwnPages
    <2>1. PICK n : n = m'
      OBVIOUS
    <2>2. \A y \in Env \ {e} : Keeps(y)
      BY <1>8, <1>14 DEF Keeps
    <2>3. x # e \/ vx # va
      BY <1>12, <1>13 DEF Shares
    <2>4. \A y \in Env : pc[y] \notin {"copy", "untemp"}
      BY <1>3, <1>4 DEF Envs, EnvInv, ForkAt
    <2>5. f # e \/ vf # va
      <3> SUFFICES ASSUME f = e, vf = va PROVE FALSE
        OBVIOUS
      <3>1. n.pte[x][vx] = m.pte[x][vx]
        BY <1>13, <2>1, <2>3
      <3>2. Shares(m, x, vx, e, va)
        BY <1>12, <1>13, <2>1, <2>3, <3>1 DEF Shares, Mapped, PageAt
      <3>3. Doubled(x, vx, e, va)
        BY <1>3, <1>4, <3>2 DEF OwnPages
      <3> QED BY <1>3, <2>4, <3>3 DEF Doubled, HandlerSees, ParentSees, NotYetMarked
    <2>6. Shares(m, x, vx, f, vf) /\ n.pte[f][vf].perm = Perm(f, vf)
      <3>1. n.pte[x][vx] = m.pte[x][vx]
        BY <1>13, <2>1, <2>3
      <3>2. n.pte[f][vf] = m.pte[f][vf]
        BY <1>13, <2>1, <2>5
      <3> QED BY <2>1, <3>1, <3>2 DEF Shares, Mapped, Perm
    <2>7. Doubled(x, vx, f, vf) /\ Perm(f, vf)' = Perm(f, vf)
      BY <1>3, <2>1, <2>6 DEF OwnPages, Perm
    <2>8. x # e /\ f # e
      BY <1>2, <1>3, <2>3, <2>4, <2>7 DEF Doubled, HandlerSees, ParentSees, NotYetMarked
    <2> QED BY <2>2, <2>7, <2>8, ReasonStays
  <1>18. Shape' /\ OneParent'
    BY <1>3, <1>8, <1>10, <1>14 DEF CowInv, Shape, OneParent, progVars
  <1> QED BY <1>11, <1>15, <1>16, <1>17, <1>18 DEF CowInv

\* The parent's temporary mapping goes.
LEMMA UntempKeeps ==
    ASSUME CowInv, NEW e \in Env, Untemp(e), UNCHANGED <<forks, fork_kind>>
    PROVE  CowInv'
  <1>1. AtPage(e, "untemp") /\ "untemp" \in LoopPCs \cup {"xstack"}
    BY DEF Untemp, LoopPCs
  <1>2. PICK c : c = fork_child[e]
    OBVIOUS
  <1>3. /\ Envs /\ Shape /\ OwnPages /\ EnvInv(e)
        /\ utf[e] = <<>> /\ pc[e] = "untemp" /\ Live(e)
        /\ c \in Env /\ c # e /\ c # NoEnv /\ pc[c] = "embryo" /\ EnvInv(c)
        /\ utf[c] = <<>> /\ fork_child[c] = NoEnv /\ fork_va[c] = 0
        /\ m.env_pgdir[c] # NoPage /\ m.env_pgdir[e] # NoPage
        /\ \A x \in Env : fork_child[x] # e
        /\ \A x \in Env : fork_child[x] = c => x = e
    BY <1>1, <1>2, InTheFork
  <1>4. PICK va \in Va, z \in {Zero} : va = UTEMP /\ z = Zero
    BY Addresses DEF UTEMP
  <1>5. fork_kind # "cow" /\ va \notin UserVa /\ va \notin {PFTEMP, EXSTACK}
    BY <1>3, <1>4, Addresses DEF EnvInv, ForkAt, UTEMP, PFTEMP, EXSTACK
  <1>6. PICK n : n = page_remove(m, e, va)
    OBVIOUS
  <1>7. SetMem(n) /\ Goto(e, "loop") /\ NextVa(e) /\ UNCHANGED <<progVars, utf>>
    BY <1>4, <1>6 DEF Untemp
  <1>8. MemInv(n) /\ n.env_pgdir = m.env_pgdir /\ Puts(n, e, va, z)
    BY <1>4, <1>6, RemovePuts DEF CowInv
  <1>9. m' = n /\ data' \in [Page -> Value] /\ DataKept(n)
    BY <1>3, <1>7, <1>8, SetMemKeeps DEF Shape
  <1>10. MemInv(m)' /\ DataKept(m') /\ m'.env_pgdir = m.env_pgdir /\ Puts(m', e, va, z)
    BY <1>8, <1>9
  <1>11. /\ m'.pte[e][va] = z /\ z.page = NoPage
         /\ \A v \in Va \ {va} : m'.pte[e][v] = m.pte[e][v]
         /\ \A x \in Env \ {e} : m'.pte[x] = m.pte[x]
    BY <1>4, <1>10 DEF Puts, Zero
  <1>12. /\ ForkAt(e)' /\ ChildAt(e)'
         /\ pc'[e] = "loop" /\ \A x \in Env \ {e} : pc'[x] = pc[x]
         /\ pc' \in [Env -> ForkPCs \cup {"free", "embryo", "run", "panic"}]
         /\ fork_child' = fork_child
         /\ fork_va'[e] = fork_va[e] + 1
         /\ \A x \in Env \ {e} : fork_va'[x] = fork_va[x] /\ fork_pte'[x] = fork_pte[x]
         /\ fork_va' \in [Env -> 0..NVA] /\ fork_pte' \in [Env -> SUBSET Flag]
         /\ \A u \in UserVa : u >= fork_va'[e] => u >= fork_va[e] /\ u # fork_va[e]
    <2>1. m'.pte[c] = m.pte[c]
      BY <1>3, <1>11
    <2>2. pc[e] \in {"mark", "untemp"}
      BY <1>3
    <2> QED BY <1>2, <1>3, <1>7, <2>1, <2>2, PageDone
  <1>13. \A x \in Env \ {e} : EnvInv(x)'
    <2>1. \A x \in Env \ {e} : Same(x) /\ DataSame(x)
      BY <1>7, <1>10, <1>11, <1>12, KeptSame DEF Same, progVars
    <2> QED BY <1>3, <2>1, OthersKeep
  <1>14. EnvInv(e)'
    <2>1. /\ m'.pte[e][EXSTACK] = m.pte[e][EXSTACK] /\ ~Mapped(m, e, UTEMP)'
          /\ m'.pte[e][PFTEMP] = m.pte[e][PFTEMP]
          /\ \A v \in UserVa : m'.pte[e][v] = m.pte[e][v]
      <3>1. EXSTACK \in Va /\ PFTEMP \in Va /\ UserVa \subseteq Va
        BY Addresses DEF EXSTACK, PFTEMP
      <3> QED BY <1>4, <1>5, <1>11, <3>1 DEF Mapped
    <2>2. utf'[e] = <<>>
      BY <1>3, <1>7
    <2>3. EntriesAt(e)'
      <3>1. \A v \in Va : Mapped(m, e, v)' =>
              /\ Perm(e, v)' \in {{"W"}, {"COW"}}
              /\ v \notin UserVa \/ fork_kind # "cow" => Perm(e, v)' = {"W"}
              /\ v \in {PFTEMP, EXSTACK} => fork_kind = "cow"
        BY <1>3, <1>10, <1>11, EntryPut DEF EnvInv
      <3>2. \A v \in UserVa : Mapped(m, e, v)'
        BY <1>3, <2>1 DEF EnvInv, EntriesAt, Mapped
      <3> QED BY <1>3, <1>7, <2>1, <2>2, <3>1, <3>2 DEF EnvInv, EntriesAt, Live, Mapped
    <2>4. HandledAt(e)'
      BY <1>3, <1>7, <1>12, <2>1 DEF EnvInv, HandledAt, Perm, LoopPCs, progVars
    <2>5. DirAt(e)' /\ UpcallAt(e)' /\ HandlerAt(e)' /\ FramesAt(e)'
      BY <1>3, <1>7, <1>10, <1>12, <2>1, <2>2, NoFrames DEF EnvInv, DirAt, UpcallAt, HandlerAt, Live,
         Mapped, progVars
    <2> QED BY <1>12, <2>3, <2>4, <2>5 DEF EnvInv
  <1>15. OwnPages'
    <2> SUFFICES ASSUME NEW x \in Env, NEW f \in Env, NEW vx \in Va, NEW vf \in Va,
                        Shares(m', x, vx, f, vf)
                 PROVE  Doubled(x, vx, f, vf)'
      BY DEF OwnPages
    <2>1. \A y \in Env \ {e} : Keeps(y)
      BY <1>7, <1>12 DEF Keeps
    <2>2. (x # e \/ vx # va) /\ (f # e \/ vf # va)
      <3>1. Puts(n, e, va, z) /\ Shares(n, x, vx, f, vf) /\ z.page = NoPage
        BY <1>8, <1>9, <1>11
      <3> QED BY <3>1, FreshShares
    <2>3. Shares(m, x, vx, f, vf) /\ n.pte[f][vf].perm = Perm(f, vf)
      <3>1. n.pte[x][vx] = m.pte[x][vx]
        BY <1>9, <1>11, <2>2
      <3>2. n.pte[f][vf] = m.pte[f][vf]
        BY <1>9, <1>11, <2>2
      <3> QED BY <1>9, <3>1, <3>2 DEF Shares, Mapped, Perm
    <2>4. Doubled(x, vx, f, vf) /\ Perm(f, vf)' = Perm(f, vf)
      BY <1>3, <1>9, <2>3 DEF OwnPages, Perm
    <2>5. CASE x # e /\ f # e
      BY <2>1, <2>4, <2>5, ReasonStays
    <2>6. CASE x = e \/ f = e
      BY <1>3, <1>4, <2>2, <2>4, <2>6 DEF Doubled, HandlerSees, ParentSees, NotYetMarked
    <2> QED BY <2>5, <2>6
  <1>16. Shape' /\ OneParent'
    BY <1>3, <1>7, <1>9, <1>12 DEF CowInv, Shape, OneParent, progVars
  <1> QED BY <1>10, <1>13, <1>14, <1>15, <1>16 DEF CowInv

\* The parent sees the child's page, to fill it; or a panic.
LEMMA TempKeeps ==
    ASSUME CowInv, NEW e \in Env, Temp(e), UNCHANGED <<forks, fork_kind>>
    PROVE  CowInv'
  <1>1. AtPage(e, "temp") /\ "temp" \in LoopPCs \cup {"xstack"}
    BY DEF Temp, LoopPCs
  <1>2. PICK c, va : c = fork_child[e] /\ va = fork_va[e]
    OBVIOUS
  <1>3. /\ Envs /\ Shape /\ OwnPages /\ EnvInv(e)
        /\ utf[e] = <<>> /\ pc[e] = "temp" /\ Live(e)
        /\ c \in Env /\ c # e /\ c # NoEnv /\ pc[c] = "embryo" /\ EnvInv(c)
        /\ utf[c] = <<>> /\ fork_child[c] = NoEnv /\ fork_va[c] = 0
        /\ m.env_pgdir[c] # NoPage /\ m.env_pgdir[e] # NoPage
        /\ \A x \in Env : fork_child[x] # e
        /\ \A x \in Env : fork_child[x] = c => x = e
    BY <1>1, <1>2, InTheFork
  <1>4. fork_kind # "cow" /\ va \in UserVa /\ va \in Va
    BY <1>2, <1>3, Addresses DEF EnvInv, ForkAt, LoopPCs
  <1>5. PICK u \in Va, w \in SUBSET Flag : u = UTEMP /\ w = {"W"}
    <2>1. UTEMP \in Va
      BY Addresses DEF UTEMP
    <2>2. {"W"} \in SUBSET Flag
      BY DEF Flag
    <2> QED BY <2>1, <2>2
  <1>6. u \notin UserVa /\ u \notin {PFTEMP, EXSTACK}
    BY <1>5, Addresses DEF UTEMP, PFTEMP, EXSTACK
  <1>7. PICK r : r = env_page_map(m, c, va, e, u, w)
    OBVIOUS
  <1>8. /\ SetMem(r.mem) /\ Goto(e, IF r.ret = "ok" THEN "copy" ELSE "panic")
        /\ UNCHANGED <<progVars, forkVars, utf>>
    BY <1>2, <1>5, <1>7 DEF Temp, Syscall
  <1>9. Mapped(m, c, va) /\ Perm(c, va) = {"W"}
    BY <1>2, <1>3, <1>4 DEF EnvInv, ChildAt, EntriesAt
  <1>10. /\ MemInv(r.mem) /\ r.mem.env_pgdir = m.env_pgdir
         /\ r.ret = "ok" => Puts(r.mem, e, u, [page |-> PageAt(c, va), perm |-> w])
         /\ r.ret # "ok" => r.mem.pte = m.pte
    <2>1. /\ MemInv(m) /\ Mapped(m, c, va) /\ m.env_pgdir[e] # NoPage
          /\ c \in Env /\ va \in Va /\ r = env_page_map(m, c, va, e, u, w)
      BY <1>3, <1>4, <1>7, <1>9 DEF CowInv
    <2> QED BY <2>1, MapPuts
  <1>11. m' = r.mem /\ data' \in [Page -> Value] /\ DataKept(r.mem)
    BY <1>3, <1>8, <1>10, SetMemKeeps DEF Shape
  <1>12. MemInv(m)' /\ DataKept(m') /\ m'.env_pgdir = m.env_pgdir
    BY <1>10, <1>11
  <1>13. CASE r.ret # "ok"
    <2>1. Goto(e, "panic") /\ m'.pte = m.pte
      BY <1>8, <1>10, <1>11, <1>13
    <2> QED BY <1>3, <1>8, <1>11, <1>12, <2>1, PanicKeeps
  <1>14. CASE r.ret = "ok"
    <2>1. PICK z : /\ z.page = PageAt(c, va) /\ z.perm = {"W"} /\ z.page # NoPage
                   /\ Puts(m', e, u, z)
      <3>1. PICK z : z = [page |-> PageAt(c, va), perm |-> w]
        OBVIOUS
      <3> QED BY <1>5, <1>9, <1>10, <1>11, <1>14, <3>1 DEF Mapped, PageAt
    <2>2. /\ m'.pte[e][u] = z
          /\ \A v \in Va \ {u} : m'.pte[e][v] = m.pte[e][v]
          /\ \A x \in Env \ {e} : m'.pte[x] = m.pte[x]
      BY <2>1 DEF Puts
    <2>3. /\ pc'[e] = "copy" /\ \A x \in Env \ {e} : pc'[x] = pc[x]
          /\ pc' \in [Env -> ForkPCs \cup {"free", "embryo", "run", "panic"}]
      BY <1>3, <1>8, <1>14 DEF Shape, Goto, ForkPCs
    <2>4. \A x \in Env \ {e} : EnvInv(x)'
      <3>1. \A x \in Env \ {e} : Same(x) /\ DataSame(x)
        BY <1>8, <1>12, <2>2, <2>3, KeptSame DEF Same, progVars, forkVars
      <3> QED BY <1>3, <3>1, OthersKeep
    <2>5. EnvInv(e)'
      <3>1. /\ m'.pte[e][EXSTACK] = m.pte[e][EXSTACK]
            /\ m'.pte[e][PFTEMP] = m.pte[e][PFTEMP]
            /\ \A v \in UserVa : m'.pte[e][v] = m.pte[e][v]
        <4>1. EXSTACK \in Va /\ PFTEMP \in Va /\ UserVa \subseteq Va
          BY Addresses DEF EXSTACK, PFTEMP
        <4> QED BY <1>6, <2>2, <4>1
      <3>2. utf'[e] = <<>> /\ fork_child'[e] = c /\ fork_va'[e] = va
        BY <1>2, <1>3, <1>8 DEF forkVars
      <3>3. EntriesAt(e)'
        <4>1. \A v \in Va : Mapped(m, e, v)' =>
                /\ Perm(e, v)' \in {{"W"}, {"COW"}}
                /\ v \notin UserVa \/ fork_kind # "cow" => Perm(e, v)' = {"W"}
                /\ v \in {PFTEMP, EXSTACK} => fork_kind = "cow"
          BY <1>3, <1>6, <2>1, EntryPut DEF EnvInv
        <4>2. \A v \in UserVa : Mapped(m, e, v)'
          BY <1>3, <3>1 DEF EnvInv, EntriesAt, Mapped
        <4> QED BY <1>3, <2>3, <3>1, <3>2, <4>1, <4>2 DEF EnvInv, EntriesAt, Live, Mapped
      <3>4. HandledAt(e)'
        BY <1>2, <1>3, <1>8, <2>3, <3>1, <3>2 DEF EnvInv, HandledAt, Perm, LoopPCs, progVars
      <3>5. DirAt(e)' /\ UpcallAt(e)' /\ HandlerAt(e)' /\ FramesAt(e)' /\ ForkAt(e)'
        BY <1>2, <1>3, <1>4, <1>8, <1>12, <2>3, <3>1, <3>2, NoFrames DEF EnvInv, DirAt, UpcallAt,
           HandlerAt, ForkAt, LoopPCs, Live, Mapped, progVars, forkVars
      <3>6. ChildAt(e)'
        <4>1. /\ Mapped(m, e, UTEMP)' /\ PageAt(e, UTEMP)' = PageAt(c, va)
              /\ PageAt(c, va)' = PageAt(c, va)
          BY <1>3, <1>5, <2>1, <2>2 DEF Mapped, PageAt
        <4>2. pc'[c] = "embryo" /\ \A v \in UserVa : Mapped(m, c, v)' <=> Mapped(m, c, v)
          BY <1>3, <2>2, <2>3 DEF Mapped
        <4>3. \A v \in UserVa : /\ v < va => Mapped(m, c, v)
                                /\ v > va => ~Mapped(m, c, v)
          BY <1>2, <1>3 DEF EnvInv, ChildAt
        <4> QED BY <1>9, <2>3, <3>2, <4>1, <4>2, <4>3 DEF ChildAt
      <3> QED BY <3>3, <3>4, <3>5, <3>6 DEF EnvInv
    <2>6. OwnPages'
      <3> SUFFICES ASSUME NEW x \in Env, NEW f \in Env, NEW vx \in Va, NEW vf \in Va,
                          Shares(m', x, vx, f, vf)
                   PROVE  Doubled(x, vx, f, vf)'
        BY DEF OwnPages
      <3>1. PICK n : n = m'
        OBVIOUS
      <3>2. \A y \in Env : Keeps(y)
        BY <1>3, <1>8, <2>3 DEF Keeps, forkVars
      <3>3. ASSUME NEW y \in Env, NEW vy \in Va, y # e \/ vy # u, y # c \/ vy # va
            PROVE  n.pte[y][vy].page # PageAt(c, va)
        <4> SUFFICES ASSUME n.pte[y][vy].page = PageAt(c, va) PROVE FALSE
          OBVIOUS
        <4>1. n.pte[y][vy] = m.pte[y][vy]
          BY <2>2, <3>1, <3>3
        <4>2. Shares(m, c, va, y, vy)
          BY <1>9, <3>3, <4>1 DEF Shares, PageAt, Perm
        <4>3. Doubled(c, va, y, vy)
          BY <1>3, <1>4, <4>2 DEF OwnPages
        <4> QED BY <1>3, <4>3 DEF Doubled, HandlerSees, ParentSees, NotYetMarked
      <3>4. CASE \/ x = e /\ vx = u
                 \/ f = e /\ vf = u
        <4>1. \/ x = e /\ vx = u /\ f = c /\ vf = va
              \/ x = c /\ vx = va /\ f = e /\ vf = u
          BY <2>1, <2>2, <3>1, <3>3, <3>4 DEF Shares
        <4>2. fork_child'[e] = c /\ fork_va'[e] = va
          BY <1>2, <1>8 DEF forkVars
        <4> QED BY <1>5, <2>3, <4>1, <4>2 DEF Doubled, ParentSees
      <3>5. CASE (x # e \/ vx # u) /\ (f # e \/ vf # u)
        <4>1. n.pte[x][vx] = m.pte[x][vx]
          BY <2>2, <3>1, <3>5
        <4>2. n.pte[f][vf] = m.pte[f][vf]
          BY <2>2, <3>1, <3>5
        <4>3. Shares(m, x, vx, f, vf) /\ Perm(f, vf)' = Perm(f, vf)
          BY <3>1, <4>1, <4>2 DEF Shares, Mapped, Perm
        <4>4. Doubled(x, vx, f, vf)
          BY <1>3, <4>3 DEF OwnPages
        <4> QED BY <3>2, <4>3, <4>4, ReasonStays
      <3> QED BY <3>4, <3>5
    <2>7. Shape' /\ OneParent'
      BY <1>3, <1>8, <1>11, <2>3 DEF CowInv, Shape, OneParent, progVars, forkVars
    <2> QED BY <1>12, <2>4, <2>5, <2>6, <2>7 DEF CowInv
  <1> QED BY <1>13, <1>14

\* The first steps of fork: set_pgfault_handler, which may find no page.
LEMMA ForkEnterKeeps ==
    ASSUME CowInv, NEW e \in Env, ForkEnter(e), UNCHANGED <<forks, fork_kind>>
    PROVE  CowInv'
  <1>1. /\ Envs /\ Shape /\ OwnPages /\ EnvInv(e)
        /\ utf[e] = <<>> /\ pc[e] = "run" /\ Live(e)
    BY DEF CowInv, Envs, ForkEnter, Executes, Live
  <1>2. /\ m.env_pgdir[e] # NoPage /\ fork_child[e] = NoEnv /\ fork_va[e] = 0
        /\ \A x \in Env : fork_child[x] # e
        /\ handler[e] = env_pgfault_upcall[e]
        /\ handler[e] \in BOOLEAN /\ env_pgfault_upcall[e] \in BOOLEAN
    <2>1. m.env_pgdir[e] # NoPage /\ fork_child[e] = NoEnv /\ fork_va[e] = 0
          /\ handler[e] = env_pgfault_upcall[e]
      BY <1>1 DEF EnvInv, DirAt, ForkAt, UpcallAt, Live
    <2>2. \A x \in Env : fork_child[x] # e
      BY <1>1, NoChild, NoEnvIsNone
    <2> QED BY <1>1, <2>1, <2>2 DEF Shape
  <1>3. Goto(e, "exofork") /\ UNCHANGED <<forkVars, utf>>
    BY DEF ForkEnter
  <1>4. /\ pc'[e] = "exofork" /\ \A x \in Env \ {e} : pc'[x] = pc[x]
        /\ pc' \in [Env -> ForkPCs \cup {"free", "embryo", "run", "panic"}]
    BY <1>1, <1>3 DEF Shape, Goto, ForkPCs
  <1>5. \A x \in Env : Keeps(x)
    BY <1>1, <1>3, <1>4 DEF Keeps, forkVars
  <1>6. OneParent'
    BY <1>3 DEF CowInv, OneParent, forkVars
  <1>7. ASSUME UNCHANGED progVars, m'.pte = m.pte, m'.env_pgdir = m.env_pgdir, MemInv(m)',
               data' \in [Page -> Value], DataKept(m')
        PROVE  CowInv'
    <2>1. \A x \in Env \ {e} : EnvInv(x)'
      <3>1. \A x \in Env \ {e} : Same(x) /\ DataSame(x)
        BY <1>3, <1>4, <1>7, KeptSame DEF Same, progVars, forkVars
      <3> QED BY <1>1, <1>2, <3>1, OthersKeep
    <2>2. EnvInv(e)'
      <3>1. utf'[e] = <<>>
        BY <1>1, <1>3
      <3>2. DirAt(e)' /\ EntriesAt(e)' /\ UpcallAt(e)' /\ HandledAt(e)'
        BY <1>1, <1>3, <1>4, <1>7 DEF EnvInv, DirAt, EntriesAt, UpcallAt, HandledAt, Live, LoopPCs,
           Mapped, Perm, progVars
      <3>3. FramesAt(e)' /\ HandlerAt(e)' /\ ForkAt(e)' /\ ChildAt(e)'
        BY <1>2, <1>3, <1>4, <3>1, NoFrames DEF HandlerAt, ForkAt, ChildAt, LoopPCs, forkVars
      <3> QED BY <3>2, <3>3 DEF EnvInv
    <2>3. Shape'
      BY <1>1, <1>3, <1>4, <1>7 DEF Shape, progVars, forkVars
    <2>4. OwnPages'
      BY <1>1, <1>5, <1>7, OwnSame
    <2> QED BY <1>6, <1>7, <2>1, <2>2, <2>3, <2>4 DEF CowInv
  <1>8. CASE ~(fork_kind = "cow" /\ ~handler[e])
    <2>1. UNCHANGED <<m, data, progVars>>
      BY <1>8 DEF ForkEnter
    <2>2. DataKept(m')
      BY <2>1 DEF DataKept
    <2> QED BY <1>1, <1>7, <2>1, <2>2 DEF CowInv, Shape
  <1>9. CASE fork_kind = "cow" /\ ~handler[e]
    <2>1. PICK v \in Va : v = EXSTACK
      BY Addresses DEF EXSTACK
    <2>2. PICK r : r = env_page_alloc(m, e, v, {"W"})
      OBVIOUS
    <2>3. /\ SetMem(r.mem)
          /\ handler' = [handler EXCEPT ![e] = r.ret = "ok"]
          /\ env_pgfault_upcall' = [env_pgfault_upcall EXCEPT ![e] = @ \/ r.ret = "ok"]
      BY <1>9, <2>1, <2>2 DEF ForkEnter, SetHandler
    <2>4. /\ MemInv(r.mem) /\ r.mem.env_pgdir = m.env_pgdir
          /\ r.ret = "ok" => \E p \in Page :
                Unused(m, p) /\ Puts(r.mem, e, v, [page |-> p, perm |-> {"W"}])
          /\ r.ret # "ok" => r.mem.pte = m.pte
      BY <1>2, <2>2, AllocPuts DEF CowInv
    <2>5. m' = r.mem /\ data' \in [Page -> Value] /\ DataKept(r.mem)
      BY <1>1, <2>3, <2>4, SetMemKeeps DEF Shape
    <2>6. MemInv(m)' /\ DataKept(m') /\ m'.env_pgdir = m.env_pgdir
      BY <2>4, <2>5
    <2>7. CASE r.ret # "ok"
      <3>1. UNCHANGED progVars
        <4>1. handler[e] = FALSE /\ env_pgfault_upcall[e] = FALSE
          BY <1>2, <1>9
        <4>2. handler' = handler
          BY <1>1, <2>3, <2>7, <4>1 DEF Shape
        <4>3. env_pgfault_upcall' = env_pgfault_upcall
          BY <1>1, <2>3, <2>7, <4>1 DEF Shape
        <4> QED BY <4>2, <4>3 DEF progVars
      <3>2. m'.pte = m.pte
        BY <2>4, <2>5, <2>7
      <3> QED BY <1>7, <2>5, <2>6, <3>1, <3>2
    <2>8. CASE r.ret = "ok"
      <3>1. PICK z : /\ z.perm = {"W"} /\ z.page # NoPage /\ Unused(m, z.page)
                     /\ Puts(m', e, v, z)
        <4>1. PICK p \in Page : /\ Unused(m, p)
                                /\ Puts(m', e, v, [page |-> p, perm |-> {"W"}])
          BY <2>4, <2>5, <2>8
        <4>2. PICK z : z = [page |-> p, perm |-> {"W"}]
          OBVIOUS
        <4> QED BY <4>1, <4>2, NoPageIsNone
      <3>2. /\ m'.pte[e][v] = z
            /\ \A y \in Va \ {v} : m'.pte[e][y] = m.pte[e][y]
            /\ \A x \in Env \ {e} : m'.pte[x] = m.pte[x]
        BY <3>1 DEF Puts
      <3>3. /\ handler'[e] /\ env_pgfault_upcall'[e]
            /\ handler' \in [Env -> BOOLEAN] /\ env_pgfault_upcall' \in [Env -> BOOLEAN]
            /\ \A x \in Env \ {e} : /\ handler'[x] = handler[x]
                                    /\ env_pgfault_upcall'[x] = env_pgfault_upcall[x]
        <4>1. handler' = [handler EXCEPT ![e] = TRUE]
          BY <2>3, <2>8
        <4>2. env_pgfault_upcall' = [env_pgfault_upcall EXCEPT ![e] = TRUE]
          BY <2>3, <2>8
        <4> QED BY <1>1, <4>1, <4>2 DEF Shape
      <3>4. \A x \in Env \ {e} : EnvInv(x)'
        <4>1. \A x \in Env \ {e} : Same(x) /\ DataSame(x)
          BY <1>3, <1>4, <2>6, <3>2, <3>3, KeptSame DEF Same, forkVars
        <4> QED BY <1>1, <1>2, <4>1, OthersKeep
      <3>5. EnvInv(e)'
        <4>1. v \notin UserVa /\ v \notin {UTEMP, PFTEMP}
          BY <2>1, Addresses DEF UTEMP, PFTEMP, EXSTACK
        <4>2. /\ m'.pte[e][UTEMP] = m.pte[e][UTEMP]
              /\ m'.pte[e][PFTEMP] = m.pte[e][PFTEMP]
              /\ \A y \in UserVa : m'.pte[e][y] = m.pte[e][y]
          <5>1. UTEMP \in Va /\ PFTEMP \in Va /\ UserVa \subseteq Va
            BY Addresses DEF UTEMP, PFTEMP
          <5> QED BY <3>2, <4>1, <5>1
        <4>3. utf'[e] = <<>>
          BY <1>1, <1>3
        <4>4. Mapped(m, e, EXSTACK)'
          BY <2>1, <3>1, <3>2 DEF Mapped
        <4>5. EntriesAt(e)'
          <5>1. \A y \in Va : Mapped(m, e, y)' =>
                  /\ Perm(e, y)' \in {{"W"}, {"COW"}}
                  /\ y \notin UserVa \/ fork_kind # "cow" => Perm(e, y)' = {"W"}
                  /\ y \in {PFTEMP, EXSTACK} => fork_kind = "cow"
            BY <1>1, <1>9, <3>1, EntryPut DEF EnvInv
          <5>2. \A y \in UserVa : Mapped(m, e, y)'
            BY <1>1, <4>2 DEF EnvInv, EntriesAt, Mapped
          <5> QED BY <1>1, <1>4, <4>2, <4>3, <5>1, <5>2 DEF EnvInv, EntriesAt, Live, Mapped
        <4>6. DirAt(e)' /\ UpcallAt(e)' /\ HandledAt(e)'
          BY <1>2, <1>4, <2>6, <3>3, <4>4 DEF DirAt, UpcallAt, HandledAt, Live
        <4>7. FramesAt(e)' /\ HandlerAt(e)' /\ ForkAt(e)' /\ ChildAt(e)'
          BY <1>2, <1>3, <1>4, <4>3, NoFrames DEF HandlerAt, ForkAt, ChildAt, LoopPCs, forkVars
        <4> QED BY <4>5, <4>6, <4>7 DEF EnvInv
      <3>6. OwnPages'
        BY <1>1, <1>5, <3>1, OwnFresh
      <3>7. Shape'
        BY <1>1, <1>3, <1>4, <2>5, <3>3 DEF Shape, forkVars
      <3> QED BY <1>6, <2>6, <3>4, <3>5, <3>6, <3>7 DEF CowInv
    <2> QED BY <2>7, <2>8
  <1> QED BY <1>8, <1>9

\* sys_exofork makes an environment with nothing mapped.
LEMMA ExoforkKeeps ==
    ASSUME CowInv, NEW e \in Env, NEW c \in Env, Exofork(e, c), UNCHANGED fork_kind
    PROVE  CowInv'
  <1>1. /\ Envs /\ Shape /\ OwnPages /\ EnvInv(e) /\ EnvInv(c)
        /\ utf[e] = <<>> /\ pc[e] = "exofork" /\ Live(e) /\ pc[c] = "free" /\ c # e
    BY DEF CowInv, Envs, Exofork, Executes, Live
  <1>2. /\ HasFree(m) /\ forks < MaxForks /\ forks' = forks + 1
        /\ SetMem(env_setup_vm(m, c))
        /\ pc' = [pc EXCEPT ![e] = "loop", ![c] = "embryo"]
        /\ fork_child' = [fork_child EXCEPT ![e] = c]
        /\ UNCHANGED <<progVars, fork_va, fork_pte, utf>>
    BY DEF Exofork
  <1>3. /\ m.env_pgdir[c] = NoPage /\ m.env_pgdir[e] # NoPage
        /\ fork_child[c] = NoEnv /\ fork_va[c] = 0 /\ fork_child[e] = NoEnv /\ fork_va[e] = 0
        /\ utf[c] = <<>> /\ c # NoEnv
    BY <1>1, NoEnvIsNone DEF EnvInv, DirAt, ForkAt, HandlerAt, Live
  <1>4. /\ \A x \in Env : fork_child[x] # e
        /\ \A x \in Env : fork_child[x] # c
    BY <1>1, NoChild, NoEnvIsNone
  <1>5. \A va \in Va : ~Mapped(m, c, va)
    BY <1>3, Tables DEF CowInv, MemInv, Nested, HasTable
  <1>6. PICK n : n = env_setup_vm(m, c)
    OBVIOUS
  <1>7. /\ MemInv(n)
        /\ \E p \in Page : n.env_pgdir = [m.env_pgdir EXCEPT ![c] = p]
        /\ n.pte = m.pte /\ Lost(n) = Lost(m)
    BY <1>2, <1>3, <1>6, SetupKeeps DEF CowInv
  <1>8. m' = n /\ data' \in [Page -> Value] /\ DataKept(n)
    BY <1>1, <1>2, <1>6, <1>7, SetMemKeeps DEF Shape
  <1>9. /\ MemInv(m)' /\ DataKept(m') /\ m'.pte = m.pte
        /\ m'.env_pgdir[c] # NoPage
        /\ \A x \in Env \ {c} : m'.env_pgdir[x] = m.env_pgdir[x]
    <2>1. m.env_pgdir \in [Env -> Page \cup {NoPage}]
      BY Fields DEF CowInv, MemInv
    <2> QED BY <1>7, <1>8, <2>1, NoPageIsNone
  <1>10. /\ pc'[e] = "loop" /\ pc'[c] = "embryo" /\ \A x \in Env \ {e, c} : pc'[x] = pc[x]
         /\ pc' \in [Env -> ForkPCs \cup {"free", "embryo", "run", "panic"}]
         /\ fork_child'[e] = c /\ \A x \in Env \ {e} : fork_child'[x] = fork_child[x]
         /\ fork_child' \in [Env -> Env \cup {NoEnv}]
    BY <1>1, <1>2 DEF Shape, ForkPCs
  <1>11. \A x \in Env \ {e, c} : EnvInv(x)'
    <2>1. \A x \in Env \ {e, c} : Same(x) /\ DataSame(x)
      BY <1>2, <1>9, <1>10, KeptSame DEF Same, progVars
    <2>2. {e, c} \in SUBSET Env /\ \A x \in Env \ {e, c} : fork_child[x] \notin {e, c}
      BY <1>4
    <2> QED BY <1>1, <2>1, <2>2, OthersKeep
  <1>12. EnvInv(c)'
    <2>1. EXSTACK \in Va /\ UTEMP \in Va /\ PFTEMP \in Va
      BY Addresses DEF EXSTACK, UTEMP, PFTEMP
    <2>2. DirAt(c)' /\ EntriesAt(c)' /\ UpcallAt(c)' /\ HandledAt(c)'
      BY <1>1, <1>2, <1>5, <1>9, <1>10, <2>1 DEF EnvInv, DirAt, EntriesAt, UpcallAt, HandledAt,
         Live, LoopPCs, Mapped, progVars
    <2>3. FramesAt(c)' /\ HandlerAt(c)' /\ ForkAt(c)' /\ ChildAt(c)'
      BY <1>1, <1>2, <1>3, <1>10, NoFrames DEF HandlerAt, ForkAt, ChildAt, LoopPCs
    <2> QED BY <2>2, <2>3 DEF EnvInv
  <1>13. EnvInv(e)'
    <2>1. DirAt(e)' /\ EntriesAt(e)' /\ UpcallAt(e)'
      BY <1>1, <1>2, <1>9, <1>10 DEF EnvInv, DirAt, EntriesAt, UpcallAt, Live, Mapped, Perm,
         progVars
    <2>2. HandledAt(e)'
      BY <1>1, <1>2, <1>9, <1>10 DEF EnvInv, HandledAt, LoopPCs, Perm, progVars
    <2>3. FramesAt(e)' /\ HandlerAt(e)'
      BY <1>1, <1>2, NoFrames DEF HandlerAt
    <2>4. ForkAt(e)'
      BY <1>2, <1>3, <1>10 DEF ForkAt, LoopPCs, EXSTACK
    <2>5. ChildAt(e)'
      <3>1. \A va \in UserVa : va \in Va /\ ~(va < 0) /\ va # 0
        BY Addresses
      <3>2. \A va \in UserVa : ~Mapped(m, c, va)'
        BY <1>5, <1>9, <3>1 DEF Mapped
      <3> QED BY <1>2, <1>3, <1>10, <3>1, <3>2 DEF ChildAt
    <2> QED BY <2>1, <2>2, <2>3, <2>4, <2>5 DEF EnvInv
  <1>14. Shape' /\ OneParent'
    <2>1. forks' \in 0..MaxForks
      BY <1>1, <1>2, ForkAssumption DEF Shape
    <2>2. OneParent'
      BY <1>4, <1>10 DEF CowInv, OneParent
    <2> QED BY <1>1, <1>2, <1>8, <1>10, <2>1, <2>2 DEF Shape, progVars
  <1>15. OwnPages'
    <2>1. \A x \in Env : Keeps(x)
      BY <1>1, <1>2, <1>10 DEF Keeps
    <2> QED BY <1>1, <1>9, <2>1, OwnSame
  <1>16. \A x \in Env : EnvInv(x)'
    BY <1>11, <1>12, <1>13
  <1> QED BY <1>9, <1>14, <1>15, <1>16 DEF CowInv

-----------------------------------------------------------------------------
(* The first state.                                                        *)

\* k is n, or n with a writable page that nobody used at va of e.
Gets(n, k, e, va) ==
    /\ MemInv(k) /\ k.env_pgdir = n.env_pgdir /\ PtesDiffer(n, k, e, va)
    /\ \/ k.pte = n.pte
       \/ /\ k.pte[e][va].perm = {"W"} /\ k.pte[e][va].page # NoPage
          /\ Unused(n, k.pte[e][va].page)

\* A page for one address, in any memory.
LEMMA Allocates ==
    ASSUME NEW n, MemInv(n), NEW e \in Env, n.env_pgdir[e] # NoPage, NEW va \in Va,
           NEW k, k = env_page_alloc(n, e, va, {"W"}).mem
    PROVE  Gets(n, k, e, va)
  <1>0. PICK w \in SUBSET Flag : w = {"W"}
    <2>1. {"W"} \in SUBSET Flag
      BY DEF Flag
    <2> QED BY <2>1
  <1>1. PICK r : w = {"W"} /\ r = env_page_alloc(n, e, va, w)
    BY <1>0
  <1>2. /\ MemInv(r.mem)
        /\ r.mem.env_pgdir = n.env_pgdir
        /\ r.ret = "ok" => EntersFresh(n, r.mem, e, va, w)
        /\ r.ret # "ok" => r.mem.pte = n.pte
        /\ r.ret = "ok" => Lost(r.mem) = Lost(n)
        /\ CountsFall(n, r.mem) /\ LosesLast(n, r.mem)
    BY <1>1, PageAllocGives
  <1>3. k = r.mem
    BY <1>1
  <1>4. CASE r.ret # "ok"
    <2>1. k.pte = n.pte
      BY <1>2, <1>3, <1>4
    <2> QED BY <1>2, <1>3, <2>1 DEF PtesDiffer, Gets
  <1>5. CASE r.ret = "ok"
    <2>1. EntersFresh(n, k, e, va, w)
      BY <1>2, <1>3, <1>5
    <2>2. PICK p \in Page : /\ Unused(n, p)
                            /\ k.pte = Entered(n.pte, e, va, [page |-> p, perm |-> w])
      BY <2>1 DEF EntersFresh
    <2>3. PICK z : z = [page |-> p, perm |-> w]
      OBVIOUS
    <2>4. n \in Memory /\ k.pte = Entered(n.pte, e, va, z)
      BY <2>2, <2>3 DEF MemInv
    <2>5. k.pte[e][va] = z /\ PtesDiffer(n, k, e, va)
      BY <2>4, EnteredIs
    <2> QED BY <1>1, <1>2, <1>3, <2>2, <2>3, <2>5, NoPageIsNone DEF Gets
  <1> QED BY <1>4, <1>5

\* load_icode has mapped a page of data and a page of stack, and nothing else.
LEMMA LoadedIs ==
    ASSUME NEW e \in Env, NEW n, n = Loaded(e), \A va \in UserVa : Mapped(n, e, va)
    PROVE  /\ MemInv(n)
           /\ \A x \in Env : n.env_pgdir[x] = NoPage <=> x # e
           /\ \A x \in Env, va \in Va : Mapped(n, x, va) <=> x = e /\ va \in UserVa
           /\ \A va \in UserVa : n.pte[e][va].perm = {"W"}
           /\ n.pte[e][DATA].page # n.pte[e][STACK].page
  <1>1. PICK a : a = [page_free_list |-> Page,
                      pp_ref |-> [p \in Page |-> 0],
                      env_pgdir |-> [x \in Env |-> NoPage],
                      pde |-> [x \in Env |-> [i \in Pdx |-> NoPage]],
                      pte |-> [x \in Env |-> [va \in Va |-> Zero]],
                      double_free |-> FALSE]
    OBVIOUS
  <1>2. PICK b : b = env_setup_vm(a, e)
    OBVIOUS
  <1>3. PICK d \in Va, s \in Va : d = DATA /\ s = STACK
    BY Addresses DEF DATA, STACK
  <1>4. d # s /\ UserVa = {d, s}
    BY <1>3 DEF DATA, STACK, UserVa
  <1>5. PICK k : k = env_page_alloc(b, e, d, {"W"}).mem
    OBVIOUS
  <1>6. n = env_page_alloc(k, e, s, {"W"}).mem
    BY <1>1, <1>2, <1>3, <1>5 DEF Loaded
  <1>7. MemInv(a)
    BY <1>1, EmptyMemory
  <1>8. HasFree(a) /\ a.env_pgdir[e] = NoPage
    <2>1. 1 \in Page
      BY PageAssumption, ForkAssumption DEF Page
    <2> QED BY <1>1, <2>1 DEF HasFree
  <1>9. /\ MemInv(b)
        /\ \E p \in Page : b.env_pgdir = [a.env_pgdir EXCEPT ![e] = p]
        /\ b.pte = a.pte /\ Lost(b) = Lost(a)
    BY <1>2, <1>7, <1>8, SetupKeeps
  <1>10. /\ \A x \in Env : b.env_pgdir[x] = NoPage <=> x # e
         /\ \A x \in Env, va \in Va : b.pte[x][va] = Zero
    BY <1>1, <1>9, NoPageIsNone
  <1>11. Gets(b, k, e, d)
    <2>1. MemInv(b) /\ b.env_pgdir[e] # NoPage
      BY <1>9, <1>10
    <2> QED BY <1>5, <2>1, Allocates
  <1>12. Gets(k, n, e, s)
    <2>1. MemInv(k) /\ k.env_pgdir[e] # NoPage
      BY <1>10, <1>11 DEF Gets
    <2> QED BY <1>6, <2>1, Allocates
  <1>13. \A x \in Env, va \in Va : x # e \/ va \notin {d, s} => n.pte[x][va] = Zero
    BY <1>10, <1>11, <1>12 DEF PtesDiffer, Gets
  <1>14. n.pte[e][d] = k.pte[e][d] /\ k.pte[e][s] = Zero
    BY <1>4, <1>10, <1>11, <1>12 DEF PtesDiffer, Gets
  <1>15. n.pte[e][d].page # NoPage /\ n.pte[e][s].page # NoPage
    BY <1>4 DEF Mapped
  <1>16. k.pte # b.pte /\ n.pte # k.pte
    BY <1>10, <1>14, <1>15 DEF Zero, Gets
  <1>17. n.pte[e][d].page # n.pte[e][s].page
    BY <1>12, <1>14, <1>16 DEF Unused, Gets
  <1>18. n.pte[e][d].perm = {"W"} /\ n.pte[e][s].perm = {"W"}
    BY <1>11, <1>12, <1>14, <1>16 DEF Gets
  <1>19. \A x \in Env, va \in Va : Mapped(n, x, va) <=> x = e /\ va \in UserVa
    BY <1>4, <1>13, <1>15 DEF Mapped, Zero
  <1>20. \A x \in Env : n.env_pgdir[x] = NoPage <=> x # e
    BY <1>10, <1>11, <1>12 DEF Gets
  <1> QED BY <1>3, <1>4, <1>12, <1>17, <1>18, <1>19, <1>20 DEF Gets

\* The first state satisfies the invariant.
LEMMA InitCow == Init => CowInv
  <1> SUFFICES ASSUME Init PROVE CowInv
    OBVIOUS
  <1>1. PICK e \in Env :
            /\ m = Loaded(e)
            /\ \A va \in UserVa : Mapped(m, e, va)
            /\ data = [p \in Page |-> 0]
            /\ env_pgfault_upcall = [x \in Env |-> FALSE]
            /\ handler = [x \in Env |-> FALSE]
            /\ pc = [x \in Env |-> IF x = e THEN "run" ELSE "free"]
            /\ fork_kind \in ForkKinds
            /\ fork_child = [x \in Env |-> NoEnv]
            /\ fork_va = [x \in Env |-> 0]
            /\ fork_pte = [x \in Env |-> {}]
            /\ utf = [x \in Env |-> <<>>]
            /\ forks = 0
    BY DEF Init
  <1>2. PICK n : n = m
    OBVIOUS
  <1>3. /\ MemInv(n)
        /\ \A x \in Env : n.env_pgdir[x] = NoPage <=> x # e
        /\ \A x \in Env, va \in Va : Mapped(n, x, va) <=> x = e /\ va \in UserVa
        /\ \A va \in UserVa : n.pte[e][va].perm = {"W"}
        /\ n.pte[e][DATA].page # n.pte[e][STACK].page
    <2>1. n = Loaded(e) /\ \A va \in UserVa : Mapped(n, e, va)
      BY <1>1, <1>2
    <2> QED BY <2>1, LoadedIs
  <1>4. Shape
    <2>1. 0 \in 0..NVA /\ {} \in SUBSET Flag /\ 0 \in 0..MaxForks /\ 0 \in Value
      BY Addresses, ForkAssumption
    <2>2. pc \in [Env -> ForkPCs \cup {"free", "embryo", "run", "panic"}]
      BY <1>1 DEF ForkPCs
    <2> QED BY <1>1, <2>1, <2>2 DEF Shape
  <1>5. ASSUME NEW x \in Env PROVE EnvInv(x)
    <2>1. /\ utf[x] = <<>> /\ ~env_pgfault_upcall[x] /\ handler[x] = env_pgfault_upcall[x]
          /\ fork_child[x] = NoEnv /\ fork_va[x] = 0
          /\ pc[x] = IF x = e THEN "run" ELSE "free"
      BY <1>1
    <2>2. UTEMP \in Va /\ PFTEMP \in Va /\ EXSTACK \in Va /\ UserVa \subseteq Va
          /\ UTEMP \notin UserVa /\ PFTEMP \notin UserVa /\ EXSTACK \notin UserVa
      BY Addresses DEF UTEMP, PFTEMP, EXSTACK
    <2>3. DirAt(x)
      BY <1>2, <1>3, <2>1 DEF DirAt
    <2>4. EntriesAt(x)
      <3>1. \A va \in Va : Mapped(m, x, va) =>
                x = e /\ va \in UserVa /\ Perm(x, va) = {"W"} /\ va \notin {PFTEMP, EXSTACK, UTEMP}
        BY <1>2, <1>3, <2>2 DEF Perm
      <3>2. Live(x) => \A va \in UserVa : Mapped(m, x, va)
        BY <1>1, <2>1 DEF Live
      <3> QED BY <2>2, <3>1, <3>2 DEF EntriesAt
    <2>5. UpcallAt(x) /\ HandlerAt(x)
      BY <2>1 DEF UpcallAt, HandlerAt
    <2>6. HandledAt(x)
      <3>1. x = e => \A va \in UserVa : Perm(x, va) = {"W"}
        BY <1>2, <1>3 DEF Perm
      <3> QED BY <2>1, <3>1 DEF HandledAt, LoopPCs
    <2>7. FramesAt(x)
      BY <2>1, EmptySeq DEF FramesAt
    <2>8. ForkAt(x) /\ ChildAt(x)
      BY <2>1 DEF ForkAt, ChildAt, LoopPCs
    <2> QED BY <2>3, <2>4, <2>5, <2>6, <2>7, <2>8 DEF EnvInv
  <1>6. OneParent
    BY <1>1 DEF OneParent
  <1>7. OwnPages
    <2> SUFFICES ASSUME NEW x \in Env, NEW f \in Env, NEW vx \in Va, NEW vf \in Va,
                        Shares(n, x, vx, f, vf)
                 PROVE  FALSE
      BY <1>2 DEF OwnPages
    <2>1. Mapped(n, x, vx) /\ Mapped(n, f, vf) /\ n.pte[f][vf].page = n.pte[x][vx].page
          /\ (x # f \/ vx # vf)
      BY DEF Shares, Mapped
    <2>2. x = e /\ f = e /\ vx \in {DATA, STACK} /\ vf \in {DATA, STACK}
      BY <1>3, <2>1 DEF UserVa
    <2> QED BY <1>3, <2>1, <2>2
  <1> QED BY <1>2, <1>3, <1>4, <1>5, <1>6, <1>7 DEF CowInv

-----------------------------------------------------------------------------
(* Every step.                                                             *)

\* Nothing happens.
LEMMA SameKeeps ==
    ASSUME CowInv, UNCHANGED vars
    PROVE  CowInv'
  <1>1. Envs /\ Shape /\ OwnPages
    BY DEF CowInv, Envs
  <1>2. UNCHANGED <<m, data, progVars, pc, fork_kind, forkVars, utf, forks>>
    BY DEF vars
  <1>3. \A x \in Env : Same(x) /\ DataSame(x)
    BY <1>2 DEF Same, DataSame, PageAt, progVars, forkVars
  <1>4. \A x \in Env : EnvInv(x)'
    <2>1. {} \in SUBSET Env /\ Env \ {} = Env
      OBVIOUS
    <2> QED BY <1>1, <1>2, <1>3, <2>1, OthersKeep
  <1>5. OwnPages'
    <2>1. \A x \in Env : Keeps(x)
      BY <1>2 DEF Keeps, forkVars
    <2> QED BY <1>1, <1>2, <2>1, OwnSame
  <1>6. Shape' /\ MemInv(m)' /\ OneParent'
    BY <1>2 DEF CowInv, Shape, OneParent, progVars, forkVars
  <1> QED BY <1>4, <1>5, <1>6 DEF CowInv

\* Every step keeps the invariant.
LEMMA NextCow == CowInv /\ [Next]_vars => CowInv'
  <1> SUFFICES ASSUME CowInv, [Next]_vars PROVE CowInv'
    OBVIOUS
  <1>1. CASE UNCHANGED vars
    BY <1>1, SameKeeps
  <1>2. CASE Next
    <2>1. PICK e \in Env :
              \/ \E c \in Env : Exofork(e, c)
              \/ /\ \/ \E va \in UserVa, x \in Value : Store(e, va, x)
                    \/ Fault(e)
                    \/ Fork(e)
                    \/ Exit(e)
                 /\ UNCHANGED forks
      BY <1>2 DEF Next
    <2>2. UNCHANGED fork_kind
      BY <1>2 DEF Next
    <2>3. CASE \E c \in Env : Exofork(e, c)
      BY <2>2, <2>3, ExoforkKeeps
    <2>4. ASSUME UNCHANGED forks, NEW va \in UserVa, NEW x \in Value, Store(e, va, x)
          PROVE  CowInv'
      <3>1. CASE user_mem_check(m, e, va, {"W"})
        BY <2>2, <2>4, <3>1, StoreKeeps
      <3>2. CASE ~user_mem_check(m, e, va, {"W"})
        BY <2>2, <2>4, <3>2, StoreFaults
      <3> QED BY <3>1, <3>2
    <2>5. CASE UNCHANGED forks /\ Fault(e)
      BY <2>2, <2>5, PfAllocKeeps, PfCopyKeeps, PfMapKeeps, PfUnmapKeeps, PfRetKeeps DEF Fault
    <2>6. CASE UNCHANGED forks /\ Exit(e)
      BY <2>2, <2>6, ExitKeeps
    <2>7. CASE UNCHANGED forks /\ Fork(e)
      <3>1. CASE ForkEnter(e)
        BY <2>2, <2>7, <3>1, ForkEnterKeeps
      <3>2. CASE ExoforkFails(e)
        BY <2>2, <2>7, <3>2, ExoforkFailsKeeps
      <3>3. CASE Loop(e)
        BY <2>2, <2>7, <3>3, LoopKeeps
      <3>4. CASE Share(e)
        BY <2>2, <2>7, <3>4, ShareKeeps
      <3>5. CASE Mark(e)
        BY <2>2, <2>7, <3>5, MarkKeeps
      <3>6. CASE Alloc(e)
        BY <2>2, <2>7, <3>6, ForkAllocKeeps
      <3>7. CASE Temp(e)
        BY <2>2, <2>7, <3>7, TempKeeps
      <3>8. CASE Copy(e)
        BY <2>2, <2>7, <3>8, CopyKeeps
      <3>9. CASE Untemp(e)
        BY <2>2, <2>7, <3>9, UntempKeeps
      <3>10. CASE XStack(e)
        BY <2>2, <2>7, <3>10, XStackKeeps
      <3>11. CASE Upcall(e)
        BY <2>2, <2>7, <3>11, UpcallKeeps
      <3>12. CASE Status(e)
        BY <2>2, <2>7, <3>12, StatusKeeps
      <3> QED BY <2>7, <3>1, <3>2, <3>3, <3>4, <3>5, <3>6, <3>7, <3>8, <3>9, <3>10, <3>11,
                 <3>12 DEF Fork
    <2> QED BY <2>1, <2>3, <2>4, <2>5, <2>6, <2>7
  <1> QED BY <1>1, <1>2

\* The invariant holds in every state, for any number of environments and pages.
THEOREM CowSafe == Spec => []CowInv
  BY InitCow, NextCow, PTL DEF Spec

\* The variables keep their types.
THEOREM ForkTyped == Spec => []TypeOK
  <1>1. CowInv => TypeOK
    <2> SUFFICES ASSUME CowInv PROVE TypeOK
      OBVIOUS
    <2>1. ASSUME NEW e \in Env
          PROVE  /\ Len(utf[e]) <= 2
                 /\ \A i \in DOMAIN utf[e] : utf[e][i] \in UserVa \X FaultPCs
      <3>1. PICK s : s = utf[e] /\ s \in Seq(UserVa \X FaultPCs) /\ Len(s) <= 2
        BY DEF CowInv, EnvInv, FramesAt
      <3>2. \A i \in DOMAIN s : s[i] \in UserVa \X FaultPCs
        BY <3>1, LenProperties, ElementOfSeq
      <3> QED BY <3>1, <3>2
    <2> QED BY <2>1 DEF CowInv, MemInv, Shape, TypeOK
  <1> QED BY <1>1, CowSafe, PTL

\* An environment that was made by fork can take a fault: it has an upcall, and
\* an exception stack that it shares with nobody.
THEOREM ForkHandled == Spec => []CowIsHandled
  <1>1. CowInv => CowIsHandled
    <2> SUFFICES ASSUME CowInv, NEW e \in Env, pc[e] = "run", utf[e] = <<>>
                 PROVE  \/ \A va \in UserVa : "COW" \notin Perm(e, va)
                        \/ /\ env_pgfault_upcall[e]
                           /\ user_mem_check(m, e, EXSTACK, {"W"})
                           /\ PteRefs(m, PageAt(e, EXSTACK)) = {<<e, EXSTACK>>}
      BY DEF CowIsHandled
    <2>1. EnvInv(e) /\ OwnPages /\ Live(e)
      BY DEF CowInv, Live
    <2>2. CASE ~env_pgfault_upcall[e]
      BY <2>1, <2>2 DEF EnvInv, HandledAt
    <2>3. CASE env_pgfault_upcall[e]
      <3>1. PICK v \in Va : v = EXSTACK
        BY Addresses DEF EXSTACK
      <3>2. v \notin UserVa /\ v # PFTEMP /\ v # UTEMP
        BY <3>1, Addresses DEF EXSTACK, PFTEMP, UTEMP
      <3>3. Mapped(m, e, v) /\ Perm(e, v) = {"W"}
        BY <2>1, <2>3, <3>1, <3>2 DEF EnvInv, UpcallAt, EntriesAt
      <3>4. user_mem_check(m, e, v, {"W"})
        BY <3>3 DEF CowInv, MemInv, Nested, user_mem_check, Perm
      <3>5. ASSUME NEW f \in Env, NEW vf \in Va, m.pte[f][vf].page = PageAt(e, v)
            PROVE  f = e /\ vf = v
        <4> SUFFICES ASSUME e # f \/ v # vf PROVE FALSE
          OBVIOUS
        <4>1. Doubled(e, v, f, vf)
          BY <2>1, <3>3, <3>5 DEF OwnPages, Shares, PageAt, Perm
        <4>2. ParentSees(f, vf, e, v) => v \in UserVa
          BY DEF ParentSees, CowInv, EnvInv, ForkAt, LoopPCs
        <4> QED BY <3>2, <4>1, <4>2 DEF Doubled, HandlerSees, ParentSees, NotYetMarked
      <3>6. PteRefs(m, PageAt(e, v)) = {<<e, v>>}
        <4>1. \A s \in Env \X Va : m.pte[s[1]][s[2]].page = PageAt(e, v) => s = <<e, v>>
          BY <3>5
        <4> QED BY <4>1 DEF PteRefs, PageAt
      <3> QED BY <2>3, <3>1, <3>4, <3>6
    <2> QED BY <2>2, <2>3
  <1> QED BY <1>1, CowSafe, PTL

-----------------------------------------------------------------------------
(* The refinement: what the state of CowFork is to PrivateMemory.           *)

State(e) == IF pc[e] \in {"free", "embryo"} THEN pc[e] ELSE "live"
Parent(e) == IF pc[e] = "embryo" THEN ParentOf(e) ELSE Absent
States == [e \in Env |-> State(e)]
Parents == [e \in Env |-> Parent(e)]
View == [e \in Env |-> [va \in UserVa |-> Visible(e, va)]]

\* Who is in the middle of handing over which page.
Pending(e, va) ==
    /\ fork_va[e] = va
    /\ \/ pc[e] \in {"temp", "copy"}
       \/ pc[e] = "panic" /\ fork_kind # "cow"
       \/ pc[e] = "mark" /\ m.pte[e][va] = [page |-> PageAt(fork_child[e], va),
                                            perm |-> {"W"}]

\* A page is in the making when the parent has not handed it over.
LEMMA MakingIs ==
    ASSUME NEW c, NEW va
    PROVE  InTheMaking(c, va) <=> \E e \in Env : fork_child[e] = c /\ Pending(e, va)
  BY DEF InTheMaking, Pending

\* The parent of an embryo.
LEMMA ParentIs ==
    ASSUME OneParent, NEW e \in Env, NEW c \in Env, fork_child[e] = c
    PROVE  ParentOf(c) = e
  <1>1. c # NoEnv
    BY NoEnvIsNone
  <1>2. \E f \in Env : fork_child[f] = c
    OBVIOUS
  <1>3. ParentOf(c) = CHOOSE f \in Env : fork_child[f] = c
    BY <1>2 DEF ParentOf
  <1>4. \A f \in Env : fork_child[f] = c => f = e
    BY <1>1 DEF OneParent
  <1> QED BY <1>2, <1>3, <1>4

\* An embryo without a parent.
LEMMA OrphanIs ==
    ASSUME NEW c, \A f \in Env : fork_child[f] # c
    PROVE  ParentOf(c) = Absent
  BY DEF ParentOf

\* To be in fork is to have a child that is not complete.
LEMMA InForkIs ==
    ASSUME Envs, OneParent, NEW e \in Env, fork_child \in [Env -> Env \cup {NoEnv}]
    PROVE  (\E c \in Env : States[c] = "embryo" /\ Parents[c] = e) <=> fork_child[e] # NoEnv
  <1>1. ASSUME fork_child[e] # NoEnv
        PROVE  \E c \in Env : States[c] = "embryo" /\ Parents[c] = e
    <2>1. PICK c \in Env : c = fork_child[e]
      BY <1>1
    <2>2. pc[c] = "embryo"
      BY <1>1, <2>1 DEF Envs, EnvInv, ChildAt
    <2>3. ParentOf(c) = e
      BY <2>1, ParentIs
    <2> QED BY <2>1, <2>2, <2>3 DEF States, Parents, State, Parent
  <1>2. ASSUME NEW c \in Env, States[c] = "embryo", Parents[c] = e
        PROVE  fork_child[e] # NoEnv
    <2>1. pc[c] = "embryo" /\ ParentOf(c) = e
      BY <1>2 DEF States, Parents, State, Parent
    <2>2. e # Absent
      BY ForkAssumption
    <2>3. \E f \in Env : fork_child[f] = c
      BY <2>1, <2>2 DEF ParentOf
    <2>4. PICK f \in Env : fork_child[f] = c
      BY <2>3
    <2>5. f = e
      BY <2>1, <2>4, ParentIs
    <2> QED BY <2>4, <2>5, NoEnvIsNone
  <1> QED BY <1>1, <1>2

\* A step of CowFork, seen as a step of PrivateMemory.
Implements == [Private!Next]_(Private!vars)

\* What PrivateMemory does not see.
LEMMA Stutters ==
    ASSUME States' = States, Parents' = Parents, View' = View
    PROVE  Implements
  BY DEF Implements, Private!vars, States, Parents, View, State, Parent

\* A store.
LEMMA ImplWrite ==
    ASSUME Envs, OneParent, fork_child \in [Env -> Env \cup {NoEnv}],
           NEW e \in Env, NEW va \in UserVa, NEW x \in Value,
           Live(e), fork_child[e] # NoEnv => va = STACK,
           States' = States, Parents' = Parents,
           View' = [View EXCEPT ![e][va] = x]
    PROVE  Implements
  <1>1. States[e] = "live"
    BY DEF States, State, Live
  <1>2. (\E c \in Env : States[c] = "embryo" /\ Parents[c] = e) => va = STACK
    BY InForkIs
  <1>3. Private!Write(e, va, x)
    BY <1>1, <1>2 DEF Private!Write, Private!InFork, States, Parents, View, State, Parent
  <1> QED BY <1>3 DEF Implements, Private!Next

\* A page that an embryo gets.
LEMMA ImplCopy ==
    ASSUME OneParent, NEW e \in Env, NEW c \in Env, c = fork_child[e], pc[c] = "embryo",
           NEW va \in UserVa, Visible(c, va) = Absent,
           States' = States, Parents' = Parents,
           View' = [View EXCEPT ![c][va] = Visible(e, va)]
    PROVE  Implements
  <1>1. States[c] = "embryo" /\ Parents[c] = e
    BY ParentIs DEF States, State, Parents, Parent
  <1>2. View[c][va] = Absent /\ View[e][va] = Visible(e, va)
    BY DEF View
  <1>3. View' = [View EXCEPT ![c][va] = View[e][va]]
    BY <1>2
  <1>4. Private!CopyPage(e, c, va)
    BY <1>1, <1>2, <1>3 DEF Private!CopyPage, States, Parents, View, State, Parent
  <1> QED BY <1>4 DEF Implements, Private!Next

\* A new embryo.
LEMMA ImplChild ==
    ASSUME Envs, OneParent, fork_child \in [Env -> Env \cup {NoEnv}],
           NEW e \in Env, NEW c \in Env, Live(e), pc[c] = "free", fork_child[e] = NoEnv,
           States' = [States EXCEPT ![c] = "embryo"],
           Parents' = [Parents EXCEPT ![c] = e],
           View' = View
    PROVE  Implements
  <1>1. States[e] = "live" /\ States[c] = "free"
    BY DEF States, State, Live
  <1>2. ~(\E x \in Env : States[x] = "embryo" /\ Parents[x] = e)
    BY InForkIs
  <1>3. Private!NewChild(e, c)
    BY <1>1, <1>2 DEF Private!NewChild, Private!InFork, States, Parents, View, State, Parent
  <1> QED BY <1>3 DEF Implements, Private!Next

\* An embryo that is complete starts.
LEMMA ImplStart ==
    ASSUME NEW c \in Env, pc[c] = "embryo", \A va \in UserVa : Visible(c, va) # Absent,
           States' = [States EXCEPT ![c] = "live"],
           Parents' = [Parents EXCEPT ![c] = Absent],
           View' = View
    PROVE  Implements
  <1>1. States[c] = "embryo"
    BY DEF States, State
  <1>2. \A va \in UserVa : View[c][va] # Absent
    BY DEF View
  <1>3. Private!Start(c)
    BY <1>1, <1>2 DEF Private!Start, States, Parents, View, State, Parent
  <1> QED BY <1>3 DEF Implements, Private!Next

\* The end of an environment, whatever it was doing.
LEMMA ImplGone ==
    ASSUME NEW e \in Env, pc[e] # "free",
           States' = [States EXCEPT ![e] = "free"],
           Parents' = [x \in Env |-> IF x = e \/ Parents[x] = e THEN Absent ELSE Parents[x]],
           View' = [View EXCEPT ![e] = [va \in UserVa |-> Absent]]
    PROVE  Implements
  <1>1. States[e] = "embryo" \/ States[e] = "live"
    BY DEF States, State
  <1>2. Private!Gone(e)
    BY DEF Private!Gone, Private!Nothing, States, Parents, View, State, Parent
  <1>3. Private!Exit(e) \/ Private!Abandon(e)
    BY <1>1, <1>2 DEF Private!Exit, Private!Abandon, States, State
  <1> QED BY <1>3 DEF Implements, Private!Next

-----------------------------------------------------------------------------
(* What a step leaves as it is.                                            *)

\* A page and its contents stay.
Steady(x, va) ==
    /\ m'.pte[x][va].page = PageAt(x, va)
    /\ Mapped(m, x, va) => data'[PageAt(x, va)] = data[PageAt(x, va)]

\* The same pages stay pending.
Settled(x) == \A va \in UserVa : Pending(x, va)' <=> Pending(x, va)

\* A page looks the same when it stays and nothing changes in its making.
LEMMA ViewSame ==
    ASSUME NEW x, NEW va \in UserVa, fork_child' = fork_child, Steady(x, va),
           \A y \in Env : fork_child[y] = x => (Pending(y, va)' <=> Pending(y, va))
    PROVE  Visible(x, va)' = Visible(x, va)
  <1>1. InTheMaking(x, va)' <=> \E e \in Env : fork_child'[e] = x /\ Pending(e, va)'
    BY DEF InTheMaking, Pending
  <1>2. InTheMaking(x, va)' <=> InTheMaking(x, va)
    BY <1>1, MakingIs
  <1>3. Mapped(m, x, va)' <=> Mapped(m, x, va)
    BY DEF Mapped, Steady, PageAt
  <1> QED BY <1>2, <1>3 DEF Visible, Steady, PageAt, Mapped

\* Who neither moves nor sees other pages has the same pages pending.
LEMMA PendingSame ==
    ASSUME NEW y, pc'[y] = pc[y], fork_va'[y] = fork_va[y], fork_kind' = fork_kind,
           fork_child'[y] = fork_child[y],
           \A va \in UserVa : m'.pte[y][va] = m.pte[y][va],
           \A va \in UserVa : m'.pte[fork_child[y]][va].page = PageAt(fork_child[y], va)
    PROVE  Settled(y)
  <1> SUFFICES ASSUME NEW va \in UserVa PROVE Pending(y, va)' <=> Pending(y, va)
    BY DEF Settled
  <1>1. PageAt(fork_child[y], va)' = PageAt(fork_child[y], va)
    BY DEF PageAt
  <1>2. m'.pte[y][va] = m.pte[y][va]
    OBVIOUS
  <1> QED BY <1>1, <1>2 DEF Pending

\* Who is nowhere near the making of a page.
Idle(y) ==
    \/ pc[y] \notin {"temp", "copy", "mark", "panic"}
    \/ pc[y] = "panic" /\ fork_kind = "cow"

\* Nothing is pending then.
LEMMA IdleSettled ==
    ASSUME NEW y, Idle(y), Idle(y)'
    PROVE  Settled(y)
  BY DEF Idle, Settled, Pending

\* The tree of forks stays.
LEMMA FamilySame ==
    ASSUME fork_child' = fork_child, \A x \in Env : State(x)' = State(x)
    PROVE  States' = States /\ Parents' = Parents
  <1>1. \A x \in Env : ParentOf(x)' = ParentOf(x)
    BY DEF ParentOf
  <1>2. \A x \in Env : pc'[x] = "embryo" <=> pc[x] = "embryo"
    BY DEF State
  <1>3. \A x \in Env : Parent(x)' = Parent(x)
    BY <1>1, <1>2 DEF Parent
  <1> QED BY <1>3 DEF States, Parents

\* A step that changes nothing that is seen.
LEMMA Unseen ==
    ASSUME fork_child' = fork_child, \A x \in Env : State(x)' = State(x),
           \A x \in Env, va \in UserVa : Steady(x, va),
           \A x \in Env : fork_child[x] # NoEnv => Settled(x)
    PROVE  Implements
  <1>1. States' = States /\ Parents' = Parents
    BY FamilySame
  <1>2. \A x \in Env, va \in UserVa : Visible(x, va)' = Visible(x, va)
    <2> SUFFICES ASSUME NEW x \in Env, NEW va \in UserVa
                 PROVE  Visible(x, va)' = Visible(x, va)
      OBVIOUS
    <2>1. \A y \in Env : fork_child[y] = x => (Pending(y, va)' <=> Pending(y, va))
      BY NoEnvIsNone DEF Settled
    <2> QED BY <2>1, ViewSame
  <1>3. View' = View
    BY <1>2 DEF View
  <1> QED BY <1>1, <1>3, Stutters

-----------------------------------------------------------------------------
(* Steps that change nothing that is seen.                                 *)

\* All entries but one stay.
Still(d, va) ==
    \A x \in Env, v \in Va : x # d \/ v # va => m'.pte[x][v] = m.pte[x][v]

\* What is still, is steady.
LEMMA StillSteady ==
    ASSUME NEW x \in Env, NEW v \in Va, DataKept(m'), m'.pte[x][v] = m.pte[x][v]
    PROVE  Steady(x, v)
  BY DEF Steady, DataKept, PageAt, Mapped

\* An entry that is put.
LEMMA PutsStill ==
    ASSUME NEW d \in Env, NEW va \in Va, NEW z, Puts(m', d, va, z)
    PROVE  Still(d, va) /\ m'.pte[d][va] = z
  BY DEF Still, Puts

\* sys_page_alloc.
LEMMA AllocStill ==
    ASSUME MemInv(m), Shape, NEW d \in Env, NEW va \in Va, m.env_pgdir[d] # NoPage,
           NEW r, r = env_page_alloc(m, d, va, {"W"}), SetMem(r.mem)
    PROVE  /\ DataKept(m') /\ Still(d, va)
           /\ r.ret # "ok" => m'.pte = m.pte
  <1>1. /\ MemInv(r.mem) /\ r.mem.env_pgdir = m.env_pgdir
        /\ r.ret = "ok" => \E p \in Page :
              Unused(m, p) /\ Puts(r.mem, d, va, [page |-> p, perm |-> {"W"}])
        /\ r.ret # "ok" => r.mem.pte = m.pte
    BY AllocPuts
  <1>2. m' = r.mem /\ DataKept(r.mem)
    BY <1>1, SetMemKeeps DEF Shape
  <1>3. CASE r.ret # "ok"
    BY <1>1, <1>2, <1>3 DEF Still
  <1>4. CASE r.ret = "ok"
    <2>1. PICK p \in Page : Puts(m', d, va, [page |-> p, perm |-> {"W"}])
      BY <1>1, <1>2, <1>4
    <2>2. PICK z : z = [page |-> p, perm |-> {"W"}]
      OBVIOUS
    <2>3. Still(d, va)
      BY <2>1, <2>2, PutsStill
    <2> QED BY <1>2, <1>4, <2>3
  <1> QED BY <1>3, <1>4

\* sys_page_map.
LEMMA MapStill ==
    ASSUME MemInv(m), Shape, NEW s \in Env, NEW sva \in Va, Mapped(m, s, sva),
           NEW d \in Env, NEW va \in Va, m.env_pgdir[d] # NoPage,
           NEW perm \in SUBSET Flag,
           NEW r, r = env_page_map(m, s, sva, d, va, perm), SetMem(r.mem)
    PROVE  /\ DataKept(m') /\ Still(d, va)
           /\ r.ret # "ok" => m'.pte = m.pte
           /\ r.ret = "ok" => /\ m'.pte[d][va].page = PageAt(s, sva)
                              /\ m'.pte[d][va].perm = perm
  <1>1. /\ MemInv(r.mem) /\ r.mem.env_pgdir = m.env_pgdir
        /\ r.ret = "ok" => Puts(r.mem, d, va, [page |-> PageAt(s, sva), perm |-> perm])
        /\ r.ret # "ok" => r.mem.pte = m.pte
    BY MapPuts
  <1>2. m' = r.mem /\ DataKept(r.mem)
    BY <1>1, SetMemKeeps DEF Shape
  <1>3. CASE r.ret # "ok"
    BY <1>1, <1>2, <1>3 DEF Still
  <1>4. CASE r.ret = "ok"
    <2>1. PICK z : z = [page |-> PageAt(s, sva), perm |-> perm]
      OBVIOUS
    <2>2. Puts(m', d, va, z)
      BY <1>1, <1>2, <1>4, <2>1
    <2>3. Still(d, va) /\ m'.pte[d][va] = z
      BY <2>2, PutsStill
    <2> QED BY <1>2, <1>4, <2>1, <2>3
  <1> QED BY <1>3, <1>4

\* sys_page_unmap.
LEMMA RemoveStill ==
    ASSUME MemInv(m), Shape, NEW d \in Env, NEW va \in Va, SetMem(page_remove(m, d, va))
    PROVE  DataKept(m') /\ Still(d, va)
  <1>1. PICK n : n = page_remove(m, d, va)
    OBVIOUS
  <1>2. MemInv(n) /\ n.env_pgdir = m.env_pgdir /\ Puts(n, d, va, Zero)
    BY <1>1, RemovePuts
  <1>3. m' = n /\ DataKept(n)
    BY <1>1, <1>2, SetMemKeeps DEF Shape
  <1>4. PICK z : z = Zero
    OBVIOUS
  <1>5. Still(d, va)
    BY <1>2, <1>3, <1>4, PutsStill
  <1> QED BY <1>3, <1>5

\* Who does not move has the same pages pending, when no entry changes that a
\* program sees.
LEMMA OthersSettled ==
    ASSUME fork_child' = fork_child, fork_kind' = fork_kind, NEW x \in Env,
           pc'[x] = pc[x], fork_va'[x] = fork_va[x],
           fork_child[x] \in Env,
           \A y \in Env, v \in UserVa : m'.pte[y][v] = m.pte[y][v]
    PROVE  Settled(x)
  <1>1. /\ \A va \in UserVa : m'.pte[x][va] = m.pte[x][va]
        /\ \A va \in UserVa : m'.pte[fork_child[x]][va].page = PageAt(fork_child[x], va)
        /\ fork_child'[x] = fork_child[x]
    BY DEF PageAt
  <1> QED BY <1>1, PendingSame

\* A step of e that moves no page of a program.
LEMMA Quiet ==
    ASSUME Shape, NEW e \in Env, UNCHANGED <<fork_child, fork_kind>>,
           \A x \in Env \ {e} : pc'[x] = pc[x] /\ fork_va'[x] = fork_va[x],
           State(e)' = State(e),
           \A x \in Env, v \in UserVa : Steady(x, v) /\ m'.pte[x][v] = m.pte[x][v],
           fork_child[e] # NoEnv => Settled(e)
    PROVE  Implements
  <1>1. \A x \in Env : State(x)' = State(x)
    BY DEF State
  <1>2. ASSUME NEW x \in Env, fork_child[x] # NoEnv
        PROVE  Settled(x)
    <2>1. CASE x = e
      BY <1>2, <2>1
    <2>2. CASE x # e
      <3>1. fork_child[x] \in Env /\ pc'[x] = pc[x] /\ fork_va'[x] = fork_va[x]
        BY <1>2, <2>2 DEF Shape
      <3>2. /\ \A y \in Env, v \in UserVa : m'.pte[y][v] = m.pte[y][v]
            /\ fork_child' = fork_child /\ fork_kind' = fork_kind
        OBVIOUS
      <3> QED BY <3>1, <3>2, OthersSettled
    <2> QED BY <2>1, <2>2
  <1>3. fork_child' = fork_child
    OBVIOUS
  <1> QED BY <1>1, <1>2, <1>3, Unseen

\* A step of e at whose ends nothing is pending, or where e does not move.
LEMMA Settles ==
    ASSUME Shape, NEW e \in Env, UNCHANGED <<fork_child, fork_kind>>, fork_child[e] # NoEnv,
           \A x \in Env, v \in UserVa : m'.pte[x][v] = m.pte[x][v],
           (Idle(e) /\ Idle(e)') \/ (pc'[e] = pc[e] /\ fork_va'[e] = fork_va[e])
    PROVE  Settled(e)
  <1>1. CASE Idle(e) /\ Idle(e)'
    BY <1>1, IdleSettled
  <1>2. CASE pc'[e] = pc[e] /\ fork_va'[e] = fork_va[e]
    <2>1. fork_child[e] \in Env
      BY DEF Shape
    <2> QED BY <1>2, <2>1, OthersSettled
  <1> QED BY <1>1, <1>2

-----------------------------------------------------------------------------
(* Steps that hand over a page.                                            *)

\* Who is nobody's child sees all pages that it has.
LEMMA OwnView ==
    ASSUME NEW e, \A x \in Env : fork_child[x] # e, fork_child' = fork_child, NEW v
    PROVE  /\ Visible(e, v) = IF Mapped(m, e, v) THEN data[PageAt(e, v)] ELSE Absent
           /\ Visible(e, v)' = IF Mapped(m, e, v)' THEN data'[PageAt(e, v)'] ELSE Absent
  <1>1. ~InTheMaking(e, v) /\ ~InTheMaking(e, v)'
    BY DEF InTheMaking
  <1> QED BY <1>1 DEF Visible

\* A page of a child is in the making when its parent has it pending.
LEMMA ChildView ==
    ASSUME OneParent, NEW e \in Env, NEW c \in Env, c = fork_child[e],
           fork_child' = fork_child, NEW v
    PROVE  /\ Visible(c, v) = IF Mapped(m, c, v) /\ ~Pending(e, v)
                              THEN data[PageAt(c, v)] ELSE Absent
           /\ Visible(c, v)' = IF Mapped(m, c, v)' /\ ~Pending(e, v)'
                               THEN data'[PageAt(c, v)'] ELSE Absent
  <1>1. \A y \in Env : fork_child[y] = c => y = e
    BY NoEnvIsNone DEF OneParent
  <1>2. InTheMaking(c, v) <=> Pending(e, v)
    BY <1>1, MakingIs
  <1>3. InTheMaking(c, v)' <=> \E y \in Env : fork_child'[y] = c /\ Pending(y, v)'
    BY DEF InTheMaking, Pending
  <1>4. InTheMaking(c, v)' <=> Pending(e, v)'
    BY <1>1, <1>3
  <1> QED BY <1>2, <1>4 DEF Visible

\* Nobody else sees anything of a step in which one page of the child changes.
LEMMA OtherViews ==
    ASSUME Shape, OneParent, NEW e \in Env, NEW c \in Env, c = fork_child[e],
           fork_child[c] = NoEnv, NEW va \in UserVa, fork_va[e] = va,
           UNCHANGED <<fork_child, fork_kind>>,
           \A x \in Env \ {e} : pc'[x] = pc[x] /\ fork_va'[x] = fork_va[x],
           fork_va'[e] = va \/ Idle(e)',
           \A x \in Env, v \in UserVa : x # c \/ v # va =>
              Steady(x, v) /\ m'.pte[x][v] = m.pte[x][v]
    PROVE  \A x \in Env, v \in UserVa : x # c \/ v # va => Visible(x, v)' = Visible(x, v)
  <1> SUFFICES ASSUME NEW x \in Env, NEW v \in UserVa, x # c \/ v # va
               PROVE  Visible(x, v)' = Visible(x, v)
    OBVIOUS
  <1>1. ASSUME NEW y \in Env, fork_child[y] = x
        PROVE  Pending(y, v)' <=> Pending(y, v)
    <2>1. CASE y = e
      <3>1. v # va
        BY <1>1, <2>1
      <3> QED BY <2>1, <3>1 DEF Pending, Idle
    <2>2. CASE y # e
      <3>1. y # c /\ x # c
        BY <1>1, <2>2, NoEnvIsNone DEF OneParent
      <3>2. /\ pc'[y] = pc[y] /\ fork_va'[y] = fork_va[y] /\ fork_kind' = fork_kind
            /\ fork_child'[y] = fork_child[y]
            /\ \A u \in UserVa : m'.pte[y][u] = m.pte[y][u]
            /\ \A u \in UserVa : m'.pte[fork_child[y]][u].page = PageAt(fork_child[y], u)
        BY <1>1, <2>2, <3>1 DEF PageAt
      <3>3. Settled(y)
        BY <3>2, PendingSame
      <3> QED BY <3>3 DEF Settled
    <2> QED BY <2>1, <2>2
  <1>2. fork_child' = fork_child /\ Steady(x, v)
    OBVIOUS
  <1> QED BY <1>1, <1>2, ViewSame

\* One page of the child changes for those who look: it is not there, or it is a
\* copy of the parent's.
LEMMA Handed ==
    ASSUME Envs, OneParent, NEW e \in Env, NEW c \in Env, c = fork_child[e],
           NEW va \in UserVa, fork_child' = fork_child,
           \A x \in Env \ {e} : pc'[x] = pc[x], State(e)' = State(e),
           \A x \in Env, v \in UserVa : x # c \/ v # va => Visible(x, v)' = Visible(x, v),
           \/ Visible(c, va)' = Visible(c, va)
           \/ Visible(c, va) = Absent /\ Visible(c, va)' = Visible(e, va)
    PROVE  Implements
  <1>1. pc[c] = "embryo"
    BY NoEnvIsNone DEF Envs, EnvInv, ChildAt
  <1>2. States' = States /\ Parents' = Parents
    <2>1. \A x \in Env : State(x)' = State(x)
      BY DEF State
    <2> QED BY <2>1, FamilySame
  <1>3. CASE Visible(c, va)' = Visible(c, va)
    <2>1. View' = View
      BY <1>3 DEF View
    <2> QED BY <1>2, <2>1, Stutters
  <1>4. CASE Visible(c, va) = Absent /\ Visible(c, va)' = Visible(e, va)
    <2>1. View' = [View EXCEPT ![c][va] = Visible(e, va)]
      BY <1>4 DEF View
    <2> QED BY <1>1, <1>2, <1>4, <2>1, ImplCopy
  <1> QED BY <1>3, <1>4

\* The parent cannot write any more the page that it has given to its child.
LEMMA MarkLeft ==
    ASSUME Envs, OneParent, Shape, NEW e \in Env, NEW c \in Env, c = fork_child[e], c # e,
           \A x \in Env : fork_child[x] # e,
           pc[e] = "mark", NEW va \in UserVa, fork_va[e] = va,
           UNCHANGED <<fork_child, fork_kind>>,
           \A x \in Env \ {e} : pc'[x] = pc[x] /\ fork_va'[x] = fork_va[x],
           State(e)' = State(e),
           \A x \in Env \ {e}, v \in UserVa : Steady(x, v) /\ m'.pte[x][v] = m.pte[x][v],
           \A v \in UserVa : Visible(e, v)' = Visible(e, v),
           \A v \in UserVa : ~Pending(e, v)'
    PROVE  Implements
  <1>1. \A v \in UserVa : v # va => ~Pending(e, v)
    BY DEF Pending
  <1>2. ASSUME NEW x \in Env, NEW v \in UserVa, x # c \/ v # va
        PROVE  Visible(x, v)' = Visible(x, v)
    <2>1. CASE x = e
      BY <2>1
    <2>2. CASE x # e
      <3>1. ASSUME NEW y \in Env, fork_child[y] = x
            PROVE  Pending(y, v)' <=> Pending(y, v)
        <4>1. CASE y = e
          BY <1>1, <1>2, <3>1, <4>1
        <4>2. CASE y # e
          <5>1. /\ pc'[y] = pc[y] /\ fork_va'[y] = fork_va[y] /\ fork_kind' = fork_kind
                /\ fork_child'[y] = fork_child[y]
                /\ \A u \in UserVa : m'.pte[y][u] = m.pte[y][u]
                /\ \A u \in UserVa : m'.pte[fork_child[y]][u].page = PageAt(fork_child[y], u)
            BY <2>2, <3>1, <4>2 DEF PageAt
          <5>2. Settled(y)
            BY <5>1, PendingSame
          <5> QED BY <5>2 DEF Settled
        <4> QED BY <4>1, <4>2
      <3>2. fork_child' = fork_child /\ Steady(x, v)
        BY <2>2
      <3> QED BY <3>1, <3>2, ViewSame
    <2> QED BY <2>1, <2>2
  <1>3. \/ Visible(c, va)' = Visible(c, va)
        \/ Visible(c, va) = Absent /\ Visible(c, va)' = Visible(e, va)
    <2>1. Steady(c, va)
      OBVIOUS
    <2>2. /\ Visible(c, va) = IF Mapped(m, c, va) /\ ~Pending(e, va)
                              THEN data[PageAt(c, va)] ELSE Absent
          /\ Visible(c, va)' = IF Mapped(m, c, va)' /\ ~Pending(e, va)'
                               THEN data'[PageAt(c, va)'] ELSE Absent
      BY ChildView
    <2>3. /\ PageAt(c, va)' = PageAt(c, va)
          /\ Mapped(m, c, va)' <=> Mapped(m, c, va)
          /\ Mapped(m, c, va) => data'[PageAt(c, va)] = data[PageAt(c, va)]
      BY <2>1 DEF Steady, PageAt, Mapped
    <2>4. CASE ~Pending(e, va)
      BY <2>2, <2>3, <2>4
    <2>5. CASE Pending(e, va)
      <3>1. PageAt(e, va) = PageAt(c, va)
        BY <2>5 DEF Pending, PageAt
      <3>2. Visible(e, va) = IF Mapped(m, e, va) THEN data[PageAt(e, va)] ELSE Absent
        BY OwnView
      <3>3. Mapped(m, e, va) <=> Mapped(m, c, va)
        BY <3>1 DEF Mapped, PageAt
      <3>4. Visible(c, va) = Absent
        BY <2>2, <2>5
      <3> QED BY <2>2, <2>3, <3>1, <3>2, <3>3, <3>4
    <2> QED BY <2>4, <2>5
  <1>4. /\ fork_child' = fork_child
        /\ \A x \in Env \ {e} : pc'[x] = pc[x]
    OBVIOUS
  <1> QED BY <1>2, <1>3, <1>4, Handed

-----------------------------------------------------------------------------
(* Each action, as PrivateMemory sees it.                                  *)

\* Who moves on, alone.
LEMMA Moves ==
    ASSUME Shape, NEW e \in Env, NEW l, Goto(e, l)
    PROVE  pc'[e] = l /\ \A x \in Env \ {e} : pc'[x] = pc[x]
  BY DEF Shape, Goto

\* The pages of programs stay when another entry changes, or none.
LEMMA ElsewhereStill ==
    ASSUME NEW d \in Env, NEW w \in Va, w \notin UserVa, Still(d, w), DataKept(m')
    PROVE  \A x \in Env, v \in UserVa : Steady(x, v) /\ m'.pte[x][v] = m.pte[x][v]
  <1> SUFFICES ASSUME NEW x \in Env, NEW v \in UserVa
               PROVE  Steady(x, v) /\ m'.pte[x][v] = m.pte[x][v]
    OBVIOUS
  <1>1. v \in Va /\ v # w
    BY Addresses
  <1>2. m'.pte[x][v] = m.pte[x][v]
    BY <1>1 DEF Still
  <1> QED BY <1>1, <1>2, StillSteady

\* A page that stays looks the same to who is nobody's child.
LEMMA OwnSteady ==
    ASSUME NEW e, \A x \in Env : fork_child[x] # e, fork_child' = fork_child,
           NEW v, Steady(e, v)
    PROVE  Visible(e, v)' = Visible(e, v)
  BY OwnView DEF Steady, Mapped, PageAt

\* The end of a step of e at which nothing is pending.
LEMMA QuietEnd ==
    ASSUME Envs, OneParent, Shape, NEW e \in Env, Live(e), Live(e)',
           \A x \in Env : fork_child[x] # e,
           \A x \in Env \ {e} : pc'[x] = pc[x] /\ fork_va'[x] = fork_va[x],
           UNCHANGED <<fork_child, fork_kind>>,
           \A x \in Env, v \in UserVa : Steady(x, v) /\ m'.pte[x][v] = m.pte[x][v],
           fork_child[e] # NoEnv => (Idle(e) \/ pc[e] = "mark") /\ Idle(e)'
    PROVE  Implements
  <1>1. State(e)' = State(e)
    BY DEF State, Live
  <1>2. CASE fork_child[e] # NoEnv /\ pc[e] = "mark"
    <2>1. PICK c \in Env, va \in UserVa : c = fork_child[e] /\ va = fork_va[e]
      BY <1>2 DEF Shape, Envs, EnvInv, ForkAt, LoopPCs
    <2>2. c # e
      BY <2>1
    <2>3. \A v \in UserVa : ~Pending(e, v)'
      BY <1>2 DEF Idle, Pending
    <2>4. \A v \in UserVa : Visible(e, v)' = Visible(e, v)
      BY OwnSteady
    <2>5. \A x \in Env \ {e}, v \in UserVa : Steady(x, v) /\ m'.pte[x][v] = m.pte[x][v]
      OBVIOUS
    <2> QED BY <1>1, <1>2, <2>1, <2>2, <2>3, <2>4, <2>5, MarkLeft
  <1>3. CASE ~(fork_child[e] # NoEnv /\ pc[e] = "mark")
    <2>1. fork_child[e] # NoEnv => Settled(e)
      BY <1>3, IdleSettled
    <2> QED BY <1>1, <2>1, Quiet
  <1> QED BY <1>2, <1>3

\* A library call fails.
LEMMA Panics ==
    ASSUME Envs, OneParent, Shape, NEW e \in Env, Live(e), \A x \in Env : fork_child[x] # e,
           fork_kind = "cow" \/ fork_child[e] = NoEnv, Goto(e, "panic"),
           fork_child[e] # NoEnv => pc[e] \notin {"temp", "copy"},
           UNCHANGED <<fork_child, fork_va, fork_kind>>,
           \A x \in Env, v \in UserVa : Steady(x, v) /\ m'.pte[x][v] = m.pte[x][v]
    PROVE  Implements
  <1>1. pc'[e] = "panic" /\ \A x \in Env \ {e} : pc'[x] = pc[x]
    BY Moves
  <1>2. fork_child[e] # NoEnv => (Idle(e) \/ pc[e] = "mark") /\ Idle(e)'
    BY <1>1 DEF Idle
  <1>3. Live(e)'
    BY <1>1 DEF Live
  <1>4. /\ \A x \in Env \ {e} : pc'[x] = pc[x] /\ fork_va'[x] = fork_va[x]
        /\ UNCHANGED <<fork_child, fork_kind>>
    BY <1>1
  <1> QED BY <1>2, <1>3, <1>4, QuietEnd

\* pgfault: sys_page_alloc.
LEMMA PfAllocSeen ==
    ASSUME CowInv, NEW e \in Env, PfAlloc(e), UNCHANGED <<forks, fork_kind>>
    PROVE  Implements
  <1>1. InHandler(e, "alloc")
    BY DEF PfAlloc
  <1>2. /\ Envs /\ Shape /\ EnvInv(e) /\ pc[e] # "panic" /\ fork_kind = "cow" /\ Live(e)
        /\ PFTEMP \in Va /\ PFTEMP \notin UserVa /\ m.env_pgdir[e] # NoPage
        /\ pc[e] \notin {"copy", "untemp"} /\ \A x \in Env : fork_child[x] # e
    BY <1>1, InTheHandler
  <1>3. MemInv(m) /\ OneParent
    BY DEF CowInv
  <1>4. PICK w \in Va : w = PFTEMP
    BY <1>2
  <1>5. PICK r : r = env_page_alloc(m, e, w, {"W"})
    OBVIOUS
  <1>6. /\ SetMem(r.mem) /\ Goto(e, IF r.ret = "ok" THEN pc[e] ELSE "panic")
        /\ UNCHANGED <<progVars, forkVars>>
    BY <1>4, <1>5 DEF PfAlloc, Syscall
  <1>7. DataKept(m') /\ Still(e, w)
    BY <1>2, <1>3, <1>5, <1>6, AllocStill
  <1>8. \A x \in Env, v \in UserVa : Steady(x, v) /\ m'.pte[x][v] = m.pte[x][v]
    BY <1>2, <1>4, <1>7, ElsewhereStill
  <1>9. UNCHANGED <<fork_child, fork_va, fork_kind>>
    BY <1>6 DEF forkVars
  <1>10. CASE r.ret # "ok"
    <2>1. Goto(e, "panic")
      BY <1>6, <1>10
    <2>2. pc[e] \notin {"temp", "copy"}
      BY <1>2 DEF EnvInv, ForkAt
    <2> QED BY <1>2, <1>3, <1>8, <1>9, <2>1, <2>2, Panics
  <1>11. CASE r.ret = "ok"
    <2>1. pc' = pc
      BY <1>2, <1>6, <1>11 DEF Goto, Shape
    <2>2. State(e)' = State(e)
      BY <2>1 DEF State
    <2>3. fork_child[e] # NoEnv => Settled(e)
      BY <1>2, <1>8, <1>9, <2>1, Settles
    <2> QED BY <1>2, <1>8, <1>9, <2>1, <2>2, <2>3, Quiet
  <1> QED BY <1>10, <1>11

\* pgfault: memmove.
LEMMA PfCopySeen ==
    ASSUME CowInv, NEW e \in Env, PfCopy(e), UNCHANGED <<forks, fork_kind>>
    PROVE  Implements
  <1>1. InHandler(e, "copy")
    BY DEF PfCopy
  <1>2. /\ Envs /\ Shape /\ EnvInv(e) /\ utf[e] # <<>> /\ utf[e][1][2] = "copy"
        /\ pc[e] # "panic" /\ fork_kind = "cow" /\ Live(e)
        /\ PFTEMP \in Va /\ PFTEMP \notin UserVa /\ OwnPages
        /\ pc[e] \notin {"copy", "untemp"} /\ \A x \in Env : fork_child[x] # e
    BY <1>1, InTheHandler
  <1>3. UNCHANGED <<m, pc, forkVars>>
    BY DEF PfCopy
  <1>4. PICK w \in Va : w = PFTEMP
    BY <1>2
  <1>5. Mapped(m, e, w) /\ Perm(e, w) = {"W"}
    BY <1>2, <1>4 DEF EnvInv, HandlerAt, EntriesAt
  <1>6. \E u : data' = [data EXCEPT ![PageAt(e, w)] = u]
    BY <1>4 DEF PfCopy, CopyTo
  <1>7. ASSUME NEW x \in Env, NEW v \in UserVa
        PROVE  PageAt(x, v) # PageAt(e, w)
    <2> SUFFICES ASSUME PageAt(x, v) = PageAt(e, w) PROVE FALSE
      OBVIOUS
    <2>1. v \in Va /\ v # w /\ v # UTEMP /\ w # UTEMP
      BY <1>2, <1>4, Addresses DEF UTEMP, PFTEMP
    <2>2. Doubled(e, w, x, v)
      BY <1>2, <1>5, <2>1 DEF OwnPages, Shares, PageAt, Perm
    <2> QED BY <1>2, <2>1, <2>2 DEF Doubled, HandlerSees, ParentSees, NotYetMarked
  <1>8. \A x \in Env, v \in UserVa : Steady(x, v) /\ m'.pte[x][v] = m.pte[x][v]
    <2>1. data \in [Page -> Value]
      BY <1>2 DEF Shape
    <2>2. \A x \in Env, v \in UserVa : Mapped(m, x, v) => PageAt(x, v) \in Page
      BY MappedPage, Addresses DEF CowInv, PageAt
    <2> QED BY <1>3, <1>6, <1>7, <2>1, <2>2 DEF Steady, PageAt
  <1>9. UNCHANGED <<fork_child, fork_va, fork_kind>>
    BY <1>3 DEF forkVars
  <1>10. State(e)' = State(e)
    BY <1>3 DEF State
  <1>11. fork_child[e] # NoEnv => Settled(e)
    BY <1>2, <1>3, <1>8, <1>9, Settles
  <1> QED BY <1>2, <1>3, <1>8, <1>9, <1>10, <1>11, Quiet

\* A step of e in which only its frames change.
LEMMA FrameSeen ==
    ASSUME Shape, NEW e \in Env, UNCHANGED <<m, data, pc, forkVars, fork_kind>>
    PROVE  Implements
  <1>1. fork_child' = fork_child /\ fork_va' = fork_va /\ fork_kind' = fork_kind
    BY DEF forkVars
  <1>2. \A x \in Env : State(x)' = State(x)
    BY DEF State
  <1>3. \A x \in Env, v \in UserVa : Steady(x, v) /\ m'.pte[x][v] = m.pte[x][v]
    BY DEF Steady, PageAt
  <1>4. fork_child[e] # NoEnv => Settled(e)
    BY <1>1, <1>3, Settles
  <1> QED BY <1>1, <1>2, <1>3, <1>4, Quiet

\* pgfault: sys_page_map.  A page that fork has just given to the child may be
\* replaced by the copy, and the child keeps the old one.
LEMMA PfMapSeen ==
    ASSUME CowInv, NEW e \in Env, PfMap(e), UNCHANGED <<forks, fork_kind>>
    PROVE  Implements
  <1>1. InHandler(e, "map")
    BY DEF PfMap
  <1>2. PICK w : w = utf[e][1][1]
    OBVIOUS
  <1>3. /\ Envs /\ Shape /\ EnvInv(e) /\ utf[e] # <<>> /\ utf[e][1][2] = "map"
        /\ pc[e] # "panic" /\ fork_kind = "cow" /\ Live(e) /\ w \in UserVa /\ w \in Va
        /\ PFTEMP \in Va /\ PFTEMP \notin UserVa /\ OwnPages /\ m.env_pgdir[e] # NoPage
        /\ pc[e] \notin {"copy", "untemp"} /\ \A x \in Env : fork_child[x] # e
    BY <1>1, <1>2, InTheHandler
  <1>4. MemInv(m) /\ OneParent
    BY DEF CowInv
  <1>5. PICK t \in Va, f \in SUBSET Flag : t = PFTEMP /\ f = {"W"}
    <2>1. {"W"} \in SUBSET Flag
      BY DEF Flag
    <2> QED BY <1>3, <2>1
  <1>6. /\ Mapped(m, e, t) /\ Perm(e, t) = {"W"} /\ Mapped(m, e, w)
        /\ data[PageAt(e, t)] = data[PageAt(e, w)]
    BY <1>2, <1>3, <1>5 DEF EnvInv, HandlerAt, EntriesAt
  <1>7. PICK r : r = env_page_map(m, e, t, e, w, f)
    OBVIOUS
  <1>8. r.ret = "ok"
    <2>1. HasTable(m, e, t) /\ HasTable(m, e, w)
      BY <1>3, <1>4, <1>6 DEF MemInv, Nested
    <2> QED BY <1>5, <1>6, <1>7, <2>1, MapSucceeds DEF Perm
  <1>9. SetMem(r.mem) /\ pc' = pc /\ UNCHANGED forkVars
    <2>1. /\ SetMem(r.mem) /\ Goto(e, IF r.ret = "ok" THEN pc[e] ELSE "panic")
          /\ UNCHANGED <<progVars, forkVars>>
      BY <1>2, <1>5, <1>7 DEF PfMap, Syscall
    <2> QED BY <1>3, <1>8, <2>1 DEF Goto, Shape
  <1>10. DataKept(m') /\ Still(e, w) /\ m'.pte[e][w].page = PageAt(e, t)
    BY <1>3, <1>4, <1>6, <1>7, <1>8, <1>9, MapStill
  <1>11. UNCHANGED <<fork_child, fork_va, fork_kind>>
    BY <1>9 DEF forkVars
  <1>12. \A x \in Env, v \in UserVa : x # e \/ v # w =>
            Steady(x, v) /\ m'.pte[x][v] = m.pte[x][v]
    <2>1. \A v \in UserVa : v \in Va
      BY Addresses
    <2> QED BY <1>10, <2>1, StillSteady DEF Still
  <1>13. \A v \in UserVa : Visible(e, v)' = Visible(e, v)
    <2>1. Visible(e, w)' = Visible(e, w)
      <3>1. m'.pte[e][t] = m.pte[e][t]
        BY <1>3, <1>5, <1>10 DEF Still
      <3>2. Mapped(m, e, t)' /\ PageAt(e, t)' = PageAt(e, t)
        BY <1>6, <3>1 DEF Mapped, PageAt
      <3>3. data'[PageAt(e, t)] = data[PageAt(e, t)]
        BY <1>10, <3>2 DEF DataKept, Mapped, PageAt
      <3>4. Mapped(m, e, w)' /\ PageAt(e, w)' = PageAt(e, t)
        BY <1>6, <1>10 DEF Mapped, PageAt
      <3> QED BY <1>3, <1>6, <1>11, <3>3, <3>4, OwnView
    <2>2. ASSUME NEW v \in UserVa, v # w PROVE Visible(e, v)' = Visible(e, v)
      BY <1>3, <1>11, <1>12, <2>2, OwnSteady
    <2> QED BY <2>1, <2>2
  <1>14. State(e)' = State(e)
    BY <1>9 DEF State
  <1>15. \A x \in Env \ {e} : pc'[x] = pc[x] /\ fork_va'[x] = fork_va[x]
    BY <1>9, <1>11
  <1>16. \A x \in Env \ {e}, v \in UserVa : Steady(x, v) /\ m'.pte[x][v] = m.pte[x][v]
    BY <1>12
  <1>17. CASE fork_child[e] # NoEnv /\ pc[e] = "mark" /\ fork_va[e] = w
    <2>1. PICK c \in Env : c = fork_child[e]
      BY <1>3, <1>17 DEF Shape
    <2>2. c # e /\ Mapped(m, c, w)
      BY <1>3, <1>17, <2>1 DEF EnvInv, ChildAt
    <2>3. PageAt(c, w) # PageAt(e, t)
      <3> SUFFICES ASSUME PageAt(c, w) = PageAt(e, t) PROVE FALSE
        OBVIOUS
      <3>1. Doubled(e, t, c, w)
        BY <1>3, <1>5, <1>6, <2>2 DEF OwnPages, Shares, PageAt, Perm
      <3>2. t # UTEMP /\ t # w
        BY <1>3, <1>5 DEF UTEMP, PFTEMP
      <3> QED BY <1>3, <2>2, <3>1, <3>2 DEF Doubled, HandlerSees, ParentSees, NotYetMarked
    <2>4. \A v \in UserVa : ~Pending(e, v)'
      <3> SUFFICES ASSUME NEW v \in UserVa, Pending(e, v)' PROVE FALSE
        OBVIOUS
      <3>1. v = w /\ m'.pte[e][w] = [page |-> PageAt(c, w)', perm |-> {"W"}]
        BY <1>9, <1>11, <1>17, <2>1 DEF Pending
      <3>2. PageAt(c, w)' = PageAt(c, w)
        BY <1>3, <1>12, <2>2 DEF PageAt
      <3> QED BY <1>10, <2>3, <3>1, <3>2
    <2> QED BY <1>3, <1>4, <1>11, <1>13, <1>14, <1>15, <1>16, <1>17, <2>1, <2>2, <2>4, MarkLeft
  <1>18. CASE ~(fork_child[e] # NoEnv /\ pc[e] = "mark" /\ fork_va[e] = w)
    <2>1. ASSUME NEW y \in Env, fork_child[y] # NoEnv
          PROVE  Settled(y)
      <3>1. fork_child[y] \in Env /\ fork_child[y] # e
        BY <1>3, <2>1 DEF Shape
      <3>2. \A u \in UserVa : PageAt(fork_child[y], u)' = PageAt(fork_child[y], u)
        BY <1>11, <1>16, <3>1 DEF PageAt
      <3>3. CASE y # e
        <4>1. /\ \A u \in UserVa : m'.pte[y][u] = m.pte[y][u]
              /\ pc'[y] = pc[y] /\ fork_va'[y] = fork_va[y] /\ fork_kind' = fork_kind
              /\ fork_child'[y] = fork_child[y]
              /\ \A u \in UserVa : m'.pte[fork_child[y]][u].page = PageAt(fork_child[y], u)
          BY <1>9, <1>11, <1>16, <3>2, <3>3 DEF PageAt
        <4> QED BY <4>1, PendingSame
      <3>4. CASE y = e
        <4>1. CASE pc[e] # "mark"
          BY <1>9, <1>11, <3>4, <4>1 DEF Settled, Pending
        <4>2. CASE fork_va[e] # w
          <5> SUFFICES ASSUME NEW v \in UserVa PROVE Pending(e, v)' <=> Pending(e, v)
            BY <3>4 DEF Settled
          <5>1. v # w => m'.pte[e][v] = m.pte[e][v]
            BY <1>12
          <5>2. v = w => ~Pending(e, v) /\ ~Pending(e, v)'
            BY <1>11, <4>2 DEF Pending
          <5>3. PageAt(fork_child[e], v)' = PageAt(fork_child[e], v)
            BY <3>2, <3>4
          <5> QED BY <1>9, <1>11, <5>1, <5>2, <5>3 DEF Pending
        <4> QED BY <1>18, <2>1, <3>4, <4>1, <4>2
      <3> QED BY <3>3, <3>4
    <2>2. \A x \in Env, v \in UserVa : Visible(x, v)' = Visible(x, v)
      <3> SUFFICES ASSUME NEW x \in Env, NEW v \in UserVa PROVE Visible(x, v)' = Visible(x, v)
        OBVIOUS
      <3>1. CASE x = e
        BY <1>13, <3>1
      <3>2. CASE x # e
        <4>1. \A y \in Env : fork_child[y] = x => (Pending(y, v)' <=> Pending(y, v))
          BY <2>1, NoEnvIsNone DEF Settled
        <4>2. fork_child' = fork_child /\ Steady(x, v)
          BY <1>11, <1>16, <3>2
        <4> QED BY <4>1, <4>2, ViewSame
      <3> QED BY <3>1, <3>2
    <2>3. View' = View
      BY <2>2 DEF View
    <2>4. \A x \in Env : State(x)' = State(x)
      BY <1>9 DEF State
    <2>5. States' = States /\ Parents' = Parents
      BY <1>11, <2>4, FamilySame
    <2> QED BY <2>3, <2>5, Stutters
  <1> QED BY <1>17, <1>18

\* pgfault: sys_page_unmap.
LEMMA PfUnmapSeen ==
    ASSUME CowInv, NEW e \in Env, PfUnmap(e), UNCHANGED <<forks, fork_kind>>
    PROVE  Implements
  <1>1. InHandler(e, "unmap")
    BY DEF PfUnmap
  <1>2. Envs /\ Shape /\ PFTEMP \in Va /\ PFTEMP \notin UserVa
    BY <1>1, InTheHandler
  <1>3. PICK w \in Va : w = PFTEMP
    BY <1>2
  <1>4. SetMem(page_remove(m, e, w)) /\ UNCHANGED <<pc, forkVars>>
    BY <1>3 DEF PfUnmap
  <1>5. DataKept(m') /\ Still(e, w)
    <2>1. MemInv(m)
      BY DEF CowInv
    <2> QED BY <1>2, <1>4, <2>1, RemoveStill
  <1>6. \A x \in Env, v \in UserVa : Steady(x, v) /\ m'.pte[x][v] = m.pte[x][v]
    BY <1>2, <1>3, <1>5, ElsewhereStill
  <1>7. UNCHANGED <<fork_child, fork_va, fork_kind>>
    BY <1>4 DEF forkVars
  <1>8. State(e)' = State(e)
    BY <1>4 DEF State
  <1>9. fork_child[e] # NoEnv => Settled(e)
    BY <1>2, <1>4, <1>6, <1>7, Settles
  <1> QED BY <1>2, <1>4, <1>6, <1>7, <1>8, <1>9, Quiet

\* The return from the handler.
LEMMA PfRetSeen ==
    ASSUME CowInv, NEW e \in Env, PfRet(e), UNCHANGED <<forks, fork_kind>>
    PROVE  Implements
  <1>1. InHandler(e, "ret")
    BY DEF PfRet
  <1>2. Envs /\ Shape /\ EnvInv(e) /\ env_pgfault_upcall[e] /\ Live(e) /\ fork_kind = "cow"
    BY <1>1, InTheHandler
  <1>3. user_mem_check(m, e, EXSTACK, {"W"})
    <2>1. EXSTACK \in Va /\ EXSTACK \notin UserVa
      BY Addresses DEF EXSTACK
    <2>2. Mapped(m, e, EXSTACK) /\ Perm(e, EXSTACK) = {"W"}
      BY <1>2, <2>1 DEF EnvInv, UpcallAt, EntriesAt
    <2> QED BY <2>1, <2>2 DEF CowInv, MemInv, Nested, user_mem_check, Perm
  <1>4. UNCHANGED <<m, data, pc, forkVars>>
    BY <1>2, <1>3 DEF PfRet, PageFault
  <1> QED BY <1>2, <1>4, FrameSeen

\* A store that succeeds.
LEMMA StoreSeen ==
    ASSUME CowInv, NEW e \in Env, NEW va \in UserVa, NEW u \in Value, Store(e, va, u),
           user_mem_check(m, e, va, {"W"}), UNCHANGED <<forks, fork_kind>>
    PROVE  Implements
  <1>1. /\ Envs /\ Shape /\ OwnPages /\ OneParent /\ EnvInv(e) /\ utf[e] = <<>>
        /\ Live(e) /\ pc[e] # "panic" /\ (pc[e] = "run" \/ va = STACK)
    BY DEF CowInv, Envs, Store, Executes, Live
  <1>2. /\ data' = [data EXCEPT ![PageAt(e, va)] = u]
        /\ UNCHANGED <<m, pc, forkVars>>
    BY DEF Store
  <1>3. va \in Va /\ va # UTEMP /\ va # PFTEMP
    BY Addresses DEF UTEMP, PFTEMP
  <1>4. Mapped(m, e, va) /\ Perm(e, va) = {"W"}
    BY <1>1, <1>3 DEF user_mem_check, EnvInv, EntriesAt, Perm
  <1>5. UNCHANGED <<fork_child, fork_va, fork_kind>>
    BY <1>2 DEF forkVars
  <1>6. \A x \in Env : fork_child[x] # e
    BY <1>1, NoChild, NoEnvIsNone DEF Live
  <1>7. data \in [Page -> Value] /\ PageAt(e, va) \in Page
    BY <1>1, <1>3, <1>4, MappedPage DEF CowInv, Shape, PageAt
  <1>8. Visible(e, va)' = u
    <2>1. Mapped(m, e, va)' /\ data'[PageAt(e, va)'] = u
      BY <1>2, <1>4, <1>7 DEF Mapped, PageAt
    <2>2. fork_child' = fork_child
      BY <1>5
    <2> QED BY <1>6, <2>1, <2>2, OwnView
  <1>9. \A x \in Env : Settled(x)
    BY <1>2, <1>5 DEF Settled, Pending, PageAt
  <1>10. ASSUME NEW x \in Env, NEW v \in UserVa, x # e \/ v # va
         PROVE  Visible(x, v)' = Visible(x, v)
    <2>1. v \in Va /\ v # UTEMP
      BY Addresses DEF UTEMP
    <2>2. \A y \in Env : fork_child[y] = x => (Pending(y, v)' <=> Pending(y, v))
      BY <1>9 DEF Settled
    <2>3. CASE ~Mapped(m, x, v) \/ PageAt(x, v) # PageAt(e, va)
      <3>1. Mapped(m, x, v) => PageAt(x, v) \in Page
        BY <2>1, MappedPage DEF CowInv, PageAt
      <3>2. Steady(x, v)
        BY <1>2, <1>7, <2>3, <3>1 DEF Steady, PageAt
      <3> QED BY <1>5, <2>2, <3>2, ViewSame
    <2>4. CASE Mapped(m, x, v) /\ PageAt(x, v) = PageAt(e, va)
      <3>1. Doubled(e, va, x, v)
        BY <1>1, <1>3, <1>4, <1>10, <2>1, <2>4 DEF OwnPages, Shares, PageAt, Perm
      <3>2. NotYetMarked(e, va, x, v)
        BY <1>1, <1>3, <2>1, <3>1 DEF Doubled, HandlerSees, ParentSees
      <3>3. pc[e] = "mark" /\ x = fork_child[e] /\ v = va /\ va = fork_va[e]
        BY <1>1, <3>2 DEF NotYetMarked
      <3>4. m.pte[e][va] = [page |-> PageAt(x, va), perm |-> {"W"}]
        <4>1. m.pte[e][va] \in PTE
          BY <1>3, Entries DEF CowInv, MemInv
        <4>2. m.pte[e][va].page = PageAt(x, va) /\ m.pte[e][va].perm = {"W"}
          BY <1>4, <2>4, <3>3 DEF PageAt, Perm
        <4> QED BY <4>1, <4>2 DEF PTE
      <3>5. Pending(e, v) /\ Pending(e, v)'
        BY <1>9, <3>3, <3>4 DEF Settled, Pending
      <3>6. Visible(x, v) = Absent /\ Visible(x, v)' = Absent
        BY <1>1, <1>5, <3>3, <3>5, ChildView
      <3> QED BY <3>6
    <2> QED BY <2>3, <2>4
  <1>11. View' = [View EXCEPT ![e][va] = u]
    BY <1>8, <1>10 DEF View
  <1>12. States' = States /\ Parents' = Parents
    <2>1. \A x \in Env : State(x)' = State(x)
      BY <1>2 DEF State
    <2> QED BY <1>5, <2>1, FamilySame
  <1>13. fork_child[e] # NoEnv => va = STACK
    BY <1>1 DEF EnvInv, ForkAt
  <1>14. fork_child \in [Env -> Env \cup {NoEnv}]
    BY <1>1 DEF Shape
  <1> QED BY <1>1, <1>11, <1>12, <1>13, <1>14, ImplWrite

\* The first step of fork.
LEMMA ForkEnterSeen ==
    ASSUME CowInv, NEW e \in Env, ForkEnter(e), UNCHANGED <<forks, fork_kind>>
    PROVE  Implements
  <1>1. Envs /\ Shape /\ EnvInv(e) /\ pc[e] = "run" /\ Live(e)
    BY DEF CowInv, Envs, ForkEnter, Executes, Live
  <1>2. fork_child[e] = NoEnv /\ m.env_pgdir[e] # NoPage
    BY <1>1 DEF EnvInv, ForkAt, DirAt
  <1>3. Goto(e, "exofork") /\ UNCHANGED forkVars
    BY DEF ForkEnter
  <1>4. pc'[e] = "exofork" /\ \A x \in Env \ {e} : pc'[x] = pc[x]
    BY <1>1, <1>3, Moves
  <1>5. PICK w \in Va : w = EXSTACK /\ w \notin UserVa
    BY Addresses DEF EXSTACK
  <1>6. DataKept(m') /\ Still(e, w)
    <2>1. CASE fork_kind = "cow" /\ ~handler[e]
      <3>1. PICK r : r = env_page_alloc(m, e, w, {"W"})
        OBVIOUS
      <3>2. SetMem(r.mem)
        BY <1>5, <2>1, <3>1 DEF ForkEnter, SetHandler
      <3>3. MemInv(m)
        BY DEF CowInv
      <3> QED BY <1>1, <1>2, <3>1, <3>2, <3>3, AllocStill
    <2>2. CASE ~(fork_kind = "cow" /\ ~handler[e])
      <3>1. UNCHANGED <<m, data>>
        BY <2>2 DEF ForkEnter
      <3> QED BY <3>1 DEF DataKept, Still
    <2> QED BY <2>1, <2>2
  <1>7. \A x \in Env, v \in UserVa : Steady(x, v) /\ m'.pte[x][v] = m.pte[x][v]
    BY <1>5, <1>6, ElsewhereStill
  <1>8. State(e)' = State(e)
    BY <1>1, <1>4 DEF State
  <1>9. UNCHANGED <<fork_child, fork_kind>> /\ fork_va' = fork_va
    BY <1>3 DEF forkVars
  <1> QED BY <1>1, <1>2, <1>4, <1>7, <1>8, <1>9, Quiet

\* sys_exofork fails.
LEMMA ExoforkFailsSeen ==
    ASSUME CowInv, NEW e \in Env, ExoforkFails(e), UNCHANGED <<forks, fork_kind>>
    PROVE  Implements
  <1>1. Envs /\ OneParent /\ Shape /\ EnvInv(e) /\ pc[e] = "exofork" /\ Live(e)
    BY DEF CowInv, Envs, ExoforkFails, Executes, Live
  <1>2. fork_child[e] = NoEnv /\ \A x \in Env : fork_child[x] # e
    BY <1>1, NoChild, NoEnvIsNone DEF EnvInv, ForkAt
  <1>3. Goto(e, "panic") /\ UNCHANGED <<m, data, forkVars>>
    BY DEF ExoforkFails
  <1>4. \A x \in Env, v \in UserVa : Steady(x, v) /\ m'.pte[x][v] = m.pte[x][v]
    BY <1>3 DEF Steady, PageAt
  <1>5. UNCHANGED <<fork_child, fork_va, fork_kind>>
    BY <1>3 DEF forkVars
  <1> QED BY <1>1, <1>2, <1>3, <1>4, <1>5, Panics

\* The loop of a fork goes to the next page.
LEMMA LoopSeen ==
    ASSUME CowInv, NEW e \in Env, Loop(e), UNCHANGED <<forks, fork_kind>>
    PROVE  Implements
  <1>1. Envs /\ OneParent /\ Shape /\ EnvInv(e) /\ pc[e] = "loop" /\ Live(e)
    BY DEF CowInv, Envs, Loop, Executes, Live
  <1>2. \A x \in Env : fork_child[x] # e
    BY <1>1, NoChild, NoEnvIsNone
  <1>3. UNCHANGED <<m, data, fork_child>>
    BY DEF Loop
  <1>4. /\ pc'[e] \in {"share", "alloc", "xstack", "status"}
        /\ \A x \in Env \ {e} : pc'[x] = pc[x] /\ fork_va'[x] = fork_va[x]
    BY <1>1 DEF Loop, Way, Goto, Shape
  <1>5. \A x \in Env, v \in UserVa : Steady(x, v) /\ m'.pte[x][v] = m.pte[x][v]
    BY <1>3 DEF Steady, PageAt
  <1>6. Idle(e) /\ Idle(e)' /\ Live(e)'
    BY <1>1, <1>4 DEF Idle, Live
  <1>7. UNCHANGED <<fork_child, fork_kind>>
    BY <1>3
  <1> QED BY <1>1, <1>2, <1>4, <1>5, <1>6, <1>7, QuietEnd

\* duppage of dumbfork.c: sys_page_unmap.
LEMMA UntempSeen ==
    ASSUME CowInv, NEW e \in Env, Untemp(e), UNCHANGED <<forks, fork_kind>>
    PROVE  Implements
  <1>1. AtPage(e, "untemp") /\ "untemp" \in LoopPCs \cup {"xstack"}
    BY DEF Untemp, LoopPCs
  <1>2. /\ Envs /\ Shape /\ pc[e] = "untemp" /\ Live(e) /\ \A x \in Env : fork_child[x] # e
    BY <1>1, InTheFork
  <1>3. OneParent /\ MemInv(m)
    BY DEF CowInv
  <1>4. PICK w \in Va : w = UTEMP /\ w \notin UserVa
    BY Addresses DEF UTEMP
  <1>5. SetMem(page_remove(m, e, w)) /\ Goto(e, "loop") /\ NextVa(e)
    BY <1>4 DEF Untemp
  <1>6. DataKept(m') /\ Still(e, w)
    BY <1>2, <1>3, <1>5, RemoveStill
  <1>7. \A x \in Env, v \in UserVa : Steady(x, v) /\ m'.pte[x][v] = m.pte[x][v]
    BY <1>4, <1>6, ElsewhereStill
  <1>8. /\ pc'[e] = "loop"
        /\ \A x \in Env \ {e} : pc'[x] = pc[x] /\ fork_va'[x] = fork_va[x]
    BY <1>2, <1>5 DEF Goto, NextVa, Shape
  <1>9. Idle(e) /\ Idle(e)' /\ Live(e)'
    BY <1>2, <1>8 DEF Idle, Live
  <1>10. UNCHANGED <<fork_child, fork_kind>>
    BY <1>5 DEF NextVa
  <1> QED BY <1>2, <1>3, <1>7, <1>8, <1>9, <1>10, QuietEnd

\* The child's exception stack.
LEMMA XStackSeen ==
    ASSUME CowInv, NEW e \in Env, XStack(e), UNCHANGED <<forks, fork_kind>>
    PROVE  Implements
  <1>1. AtPage(e, "xstack") /\ "xstack" \in LoopPCs \cup {"xstack"}
    BY DEF XStack
  <1>2. PICK c : c = fork_child[e]
    OBVIOUS
  <1>3. /\ Envs /\ Shape /\ EnvInv(e) /\ pc[e] = "xstack" /\ Live(e)
        /\ c \in Env /\ m.env_pgdir[c] # NoPage
        /\ \A x \in Env : fork_child[x] # e
    BY <1>1, <1>2, InTheFork
  <1>4. OneParent /\ MemInv(m) /\ fork_kind = "cow"
    BY <1>3 DEF CowInv, EnvInv, ForkAt
  <1>5. PICK w \in Va : w = EXSTACK /\ w \notin UserVa
    BY Addresses DEF EXSTACK
  <1>6. PICK r : r = env_page_alloc(m, c, w, {"W"})
    OBVIOUS
  <1>7. /\ SetMem(r.mem) /\ Goto(e, IF r.ret = "ok" THEN "upcall" ELSE "panic")
        /\ UNCHANGED forkVars
    BY <1>2, <1>5, <1>6 DEF XStack, Syscall
  <1>8. DataKept(m') /\ Still(c, w)
    BY <1>3, <1>4, <1>6, <1>7, AllocStill
  <1>9. \A x \in Env, v \in UserVa : Steady(x, v) /\ m'.pte[x][v] = m.pte[x][v]
    BY <1>3, <1>5, <1>8, ElsewhereStill
  <1>10. /\ pc'[e] \in {"upcall", "panic"} /\ UNCHANGED <<fork_child, fork_kind>>
         /\ \A x \in Env \ {e} : pc'[x] = pc[x] /\ fork_va'[x] = fork_va[x]
    BY <1>3, <1>7 DEF Goto, Shape, forkVars
  <1>11. Idle(e) /\ Idle(e)' /\ Live(e)'
    BY <1>3, <1>4, <1>10 DEF Idle, Live
  <1> QED BY <1>3, <1>4, <1>9, <1>10, <1>11, QuietEnd

\* dumbfork and dup_or_share see the child's page.
LEMMA TempSeen ==
    ASSUME CowInv, NEW e \in Env, Temp(e), UNCHANGED <<forks, fork_kind>>
    PROVE  Implements
  <1>1. AtPage(e, "temp") /\ "temp" \in LoopPCs \cup {"xstack"}
    BY DEF Temp, LoopPCs
  <1>2. PICK c, va : c = fork_child[e] /\ va = fork_va[e]
    OBVIOUS
  <1>3. /\ Envs /\ Shape /\ EnvInv(e) /\ pc[e] = "temp" /\ Live(e)
        /\ c \in Env /\ c # NoEnv /\ EnvInv(c) /\ m.env_pgdir[e] # NoPage
        /\ \A x \in Env : fork_child[x] # e
    BY <1>1, <1>2, InTheFork
  <1>4. MemInv(m) /\ fork_kind # "cow" /\ va \in UserVa /\ va \in Va /\ Mapped(m, c, va)
    BY <1>2, <1>3, Addresses DEF CowInv, EnvInv, ForkAt, LoopPCs, ChildAt
  <1>5. PICK w \in Va, f \in SUBSET Flag : w = UTEMP /\ f = {"W"} /\ w \notin UserVa
    <2>1. UTEMP \in Va /\ UTEMP \notin UserVa
      BY Addresses DEF UTEMP
    <2>2. {"W"} \in SUBSET Flag
      BY DEF Flag
    <2> QED BY <2>1, <2>2
  <1>6. PICK r : r = env_page_map(m, c, va, e, w, f)
    OBVIOUS
  <1>7. /\ SetMem(r.mem) /\ Goto(e, IF r.ret = "ok" THEN "copy" ELSE "panic")
        /\ UNCHANGED forkVars
    BY <1>2, <1>5, <1>6 DEF Temp, Syscall
  <1>8. DataKept(m') /\ Still(e, w)
    BY <1>3, <1>4, <1>6, <1>7, MapStill
  <1>9. \A x \in Env, v \in UserVa : Steady(x, v) /\ m'.pte[x][v] = m.pte[x][v]
    BY <1>5, <1>8, ElsewhereStill
  <1>10. /\ pc'[e] \in {"copy", "panic"} /\ UNCHANGED <<fork_child, fork_kind>>
         /\ fork_va' = fork_va
         /\ \A x \in Env \ {e} : pc'[x] = pc[x] /\ fork_va'[x] = fork_va[x]
    BY <1>3, <1>7 DEF Goto, Shape, forkVars
  <1>11. Settled(e)
    BY <1>3, <1>4, <1>10 DEF Settled, Pending
  <1>12. State(e)' = State(e)
    BY <1>3, <1>10 DEF State
  <1> QED BY <1>3, <1>9, <1>10, <1>11, <1>12, Quiet

\* duppage of fork.c, first call: what the parent can still write is not handed
\* over yet.
LEMMA ShareSeen ==
    ASSUME CowInv, NEW e \in Env, Share(e), UNCHANGED <<forks, fork_kind>>
    PROVE  Implements
  <1>1. AtPage(e, "share") /\ "share" \in LoopPCs \cup {"xstack"}
    BY DEF Share, LoopPCs
  <1>2. PICK c, va : c = fork_child[e] /\ va = fork_va[e]
    OBVIOUS
  <1>3. /\ Envs /\ Shape /\ EnvInv(e) /\ pc[e] = "share" /\ Live(e)
        /\ c \in Env /\ c # e /\ c # NoEnv /\ m.env_pgdir[c] # NoPage
        /\ fork_child[c] = NoEnv
        /\ \A x \in Env : fork_child[x] # e
    BY <1>1, <1>2, InTheFork
  <1>4. /\ MemInv(m) /\ OneParent /\ fork_kind = "cow" /\ fork_pte[e] \cap {"W", "COW"} # {}
        /\ va \in UserVa /\ va \in Va /\ ~Mapped(m, c, va) /\ Mapped(m, e, va)
    BY <1>2, <1>3, Addresses DEF CowInv, EnvInv, ForkAt, LoopPCs, ChildAt, EntriesAt
  <1>5. PICK f \in SUBSET Flag : f = {"COW"}
    BY DEF Flag
  <1>6. PICK r : r = env_page_map(m, e, va, c, va, f)
    OBVIOUS
  <1>7. /\ SetMem(r.mem) /\ Goto(e, IF r.ret = "ok" THEN "mark" ELSE "panic")
        /\ UNCHANGED forkVars
    BY <1>2, <1>4, <1>5, <1>6 DEF Share, Syscall
  <1>8. /\ DataKept(m') /\ Still(c, va)
        /\ r.ret # "ok" => m'.pte = m.pte
        /\ r.ret = "ok" => m'.pte[c][va].page = PageAt(e, va)
    BY <1>3, <1>4, <1>6, <1>7, MapStill
  <1>9. /\ pc'[e] = (IF r.ret = "ok" THEN "mark" ELSE "panic")
        /\ UNCHANGED <<fork_child, fork_kind>> /\ fork_va' = fork_va
        /\ \A x \in Env \ {e} : pc'[x] = pc[x] /\ fork_va'[x] = fork_va[x]
    BY <1>3, <1>7 DEF Goto, Shape, forkVars
  <1>10. \A x \in Env, v \in UserVa : x # c \/ v # va =>
            Steady(x, v) /\ m'.pte[x][v] = m.pte[x][v]
    <2>1. \A v \in UserVa : v \in Va
      BY Addresses
    <2> QED BY <1>8, <2>1, StillSteady DEF Still
  <1>11. \A x \in Env, v \in UserVa : x # c \/ v # va => Visible(x, v)' = Visible(x, v)
    <2>1. fork_va[e] = va /\ fork_va'[e] = va
      BY <1>2, <1>9
    <2> QED BY <1>2, <1>3, <1>4, <1>9, <1>10, <2>1, OtherViews
  <1>12. /\ Visible(c, va) = IF Mapped(m, c, va) /\ ~Pending(e, va)
                             THEN data[PageAt(c, va)] ELSE Absent
         /\ Visible(c, va)' = IF Mapped(m, c, va)' /\ ~Pending(e, va)'
                              THEN data'[PageAt(c, va)'] ELSE Absent
    BY <1>2, <1>3, <1>4, <1>9, ChildView
  <1>13. Visible(c, va) = Absent
    BY <1>4, <1>12
  <1>14. Visible(c, va)' = Absent \/ Visible(c, va)' = Visible(e, va)
    <2>1. CASE r.ret # "ok"
      <3>1. ~Mapped(m, c, va)'
        BY <1>4, <1>8, <2>1 DEF Mapped
      <3> QED BY <1>12, <3>1
    <2>2. CASE r.ret = "ok"
      <3>1. Steady(e, va)
        BY <1>3, <1>4, <1>10
      <3>2. data'[PageAt(c, va)'] = data[PageAt(e, va)]
        BY <1>4, <1>8, <2>2, <3>1 DEF Steady, PageAt
      <3>3. Visible(e, va) = data[PageAt(e, va)]
        BY <1>3, <1>4, <1>9, OwnView
      <3> QED BY <1>12, <3>2, <3>3
    <2> QED BY <2>1, <2>2
  <1>15. State(e)' = State(e)
    BY <1>3, <1>9 DEF State
  <1> QED BY <1>2, <1>3, <1>4, <1>9, <1>11, <1>13, <1>14, <1>15, Handed

\* duppage of fork.c, second call: now the page is handed over.
LEMMA MarkSeen ==
    ASSUME CowInv, NEW e \in Env, Mark(e), UNCHANGED <<forks, fork_kind>>
    PROVE  Implements
  <1>1. AtPage(e, "mark") /\ "mark" \in LoopPCs \cup {"xstack"}
    BY DEF Mark, LoopPCs
  <1>2. PICK c, va : c = fork_child[e] /\ va = fork_va[e]
    OBVIOUS
  <1>3. /\ Envs /\ Shape /\ EnvInv(e) /\ pc[e] = "mark" /\ Live(e)
        /\ c \in Env /\ c # e /\ c # NoEnv /\ m.env_pgdir[e] # NoPage
        /\ \A x \in Env : fork_child[x] # e
    BY <1>1, <1>2, InTheFork
  <1>4. /\ MemInv(m) /\ OneParent
        /\ va \in UserVa /\ va \in Va /\ Mapped(m, e, va)
    BY <1>2, <1>3, Addresses DEF CowInv, EnvInv, ForkAt, LoopPCs, EntriesAt
  <1>5. PICK f \in SUBSET Flag : f = {"COW"}
    BY DEF Flag
  <1>6. PICK r : r = env_page_map(m, e, va, e, va, f)
    OBVIOUS
  <1>7. r.ret = "ok"
    <2>1. HasTable(m, e, va) /\ "W" \notin f \ m.pte[e][va].perm
      BY <1>3, <1>4, <1>5 DEF MemInv, Nested
    <2> QED BY <1>4, <1>6, <2>1, MapSucceeds
  <1>8. SetMem(r.mem) /\ Goto(e, "loop") /\ NextVa(e)
    BY <1>2, <1>5, <1>6, <1>7 DEF Mark, Syscall
  <1>9. DataKept(m') /\ Still(e, va) /\ m'.pte[e][va].page = PageAt(e, va)
    BY <1>3, <1>4, <1>6, <1>7, <1>8, MapStill
  <1>10. /\ pc'[e] = "loop" /\ UNCHANGED <<fork_child, fork_kind>>
         /\ \A x \in Env \ {e} : pc'[x] = pc[x] /\ fork_va'[x] = fork_va[x]
    BY <1>3, <1>8 DEF Goto, Shape, NextVa
  <1>11. \A x \in Env, v \in UserVa : x # e \/ v # va =>
            Steady(x, v) /\ m'.pte[x][v] = m.pte[x][v]
    <2>1. \A v \in UserVa : v \in Va
      BY Addresses
    <2> QED BY <1>9, <2>1, StillSteady DEF Still
  <1>12. Steady(e, va)
    BY <1>3, <1>4, <1>9 DEF Steady, DataKept, Mapped, PageAt
  <1>13. \A v \in UserVa : Visible(e, v)' = Visible(e, v)
    <2>1. \A v \in UserVa : Steady(e, v)
      BY <1>11, <1>12
    <2> QED BY <1>3, <1>10, <2>1, OwnSteady
  <1>14. \A v \in UserVa : ~Pending(e, v)'
    BY <1>10 DEF Pending
  <1>15. State(e)' = State(e)
    BY <1>3, <1>10 DEF State
  <1>16. \A x \in Env \ {e}, v \in UserVa : Steady(x, v) /\ m'.pte[x][v] = m.pte[x][v]
    BY <1>11
  <1> QED BY <1>2, <1>3, <1>4, <1>10, <1>13, <1>14, <1>15, <1>16, MarkLeft

\* A page for the child: there is nothing to see in it yet.
LEMMA ForkAllocSeen ==
    ASSUME CowInv, NEW e \in Env, Alloc(e), UNCHANGED <<forks, fork_kind>>
    PROVE  Implements
  <1>1. AtPage(e, "alloc") /\ "alloc" \in LoopPCs \cup {"xstack"}
    BY DEF Alloc, LoopPCs
  <1>2. PICK c, va : c = fork_child[e] /\ va = fork_va[e]
    OBVIOUS
  <1>3. /\ Envs /\ Shape /\ EnvInv(e) /\ pc[e] = "alloc" /\ Live(e)
        /\ c \in Env /\ c # e /\ c # NoEnv /\ m.env_pgdir[c] # NoPage
        /\ fork_child[c] = NoEnv
        /\ \A x \in Env : fork_child[x] # e
    BY <1>1, <1>2, InTheFork
  <1>4. /\ MemInv(m) /\ OneParent /\ fork_kind # "cow"
        /\ va \in UserVa /\ va \in Va /\ ~Mapped(m, c, va)
    BY <1>2, <1>3, Addresses DEF CowInv, EnvInv, ForkAt, LoopPCs, ChildAt
  <1>5. PICK r : r = env_page_alloc(m, c, va, {"W"})
    OBVIOUS
  <1>6. /\ SetMem(r.mem) /\ Goto(e, IF r.ret = "ok" THEN "temp" ELSE "panic")
        /\ UNCHANGED forkVars
    BY <1>2, <1>5 DEF Alloc, Syscall
  <1>7. DataKept(m') /\ Still(c, va)
    BY <1>3, <1>4, <1>5, <1>6, AllocStill
  <1>8. /\ pc'[e] \in {"temp", "panic"}
        /\ UNCHANGED <<fork_child, fork_kind>> /\ fork_va' = fork_va
        /\ \A x \in Env \ {e} : pc'[x] = pc[x] /\ fork_va'[x] = fork_va[x]
    BY <1>3, <1>6 DEF Goto, Shape, forkVars
  <1>9. \A x \in Env, v \in UserVa : x # c \/ v # va =>
            Steady(x, v) /\ m'.pte[x][v] = m.pte[x][v]
    <2>1. \A v \in UserVa : v \in Va
      BY Addresses
    <2> QED BY <1>7, <2>1, StillSteady DEF Still
  <1>10. \A x \in Env, v \in UserVa : x # c \/ v # va => Visible(x, v)' = Visible(x, v)
    <2>1. fork_va[e] = va /\ fork_va'[e] = va
      BY <1>2, <1>8
    <2> QED BY <1>2, <1>3, <1>4, <1>8, <1>9, <2>1, OtherViews
  <1>11. Visible(c, va)' = Visible(c, va)
    <2>1. /\ Visible(c, va) = IF Mapped(m, c, va) /\ ~Pending(e, va)
                              THEN data[PageAt(c, va)] ELSE Absent
          /\ Visible(c, va)' = IF Mapped(m, c, va)' /\ ~Pending(e, va)'
                               THEN data'[PageAt(c, va)'] ELSE Absent
      BY <1>2, <1>3, <1>4, <1>8, ChildView
    <2>2. Pending(e, va)'
      BY <1>2, <1>4, <1>8 DEF Pending
    <2> QED BY <1>4, <2>1, <2>2
  <1>12. State(e)' = State(e)
    BY <1>3, <1>8 DEF State
  <1> QED BY <1>2, <1>3, <1>4, <1>8, <1>10, <1>11, <1>12, Handed

\* Now the child's page has the contents of the parent's.
LEMMA CopySeen ==
    ASSUME CowInv, NEW e \in Env, Copy(e), UNCHANGED <<forks, fork_kind>>
    PROVE  Implements
  <1>1. AtPage(e, "copy") /\ "copy" \in LoopPCs \cup {"xstack"}
    BY DEF Copy, LoopPCs
  <1>2. PICK c, va : c = fork_child[e] /\ va = fork_va[e]
    OBVIOUS
  <1>3. /\ Envs /\ Shape /\ OwnPages /\ EnvInv(e) /\ pc[e] = "copy" /\ Live(e) /\ utf[e] = <<>>
        /\ c \in Env /\ c # e /\ c # NoEnv
        /\ fork_child[c] = NoEnv
        /\ \A x \in Env : fork_child[x] # e
    BY <1>1, <1>2, InTheFork
  <1>4. OneParent /\ va \in UserVa /\ va \in Va /\ Mapped(m, e, va)
    BY <1>2, <1>3, Addresses DEF CowInv, EnvInv, ForkAt, LoopPCs, EntriesAt
  <1>5. PICK w \in Va : w = UTEMP /\ w \notin UserVa
    BY Addresses DEF UTEMP
  <1>6. /\ Mapped(m, e, w) /\ Perm(e, w) = {"W"} /\ Mapped(m, c, va)
        /\ PageAt(e, w) = PageAt(c, va)
    BY <1>2, <1>3, <1>4, <1>5 DEF EnvInv, ChildAt, EntriesAt
  <1>7. /\ UNCHANGED <<m, forkVars>> /\ Goto(e, "untemp")
        /\ data' = [data EXCEPT ![PageAt(e, w)] = data[PageAt(e, va)]]
    BY <1>2, <1>5 DEF Copy, CopyTo
  <1>8. /\ pc'[e] = "untemp"
        /\ UNCHANGED <<fork_child, fork_kind>> /\ fork_va' = fork_va
        /\ \A x \in Env \ {e} : pc'[x] = pc[x] /\ fork_va'[x] = fork_va[x]
    BY <1>3, <1>7 DEF Goto, Shape, forkVars
  <1>9. data \in [Page -> Value] /\ PageAt(e, w) \in Page
    BY <1>3, <1>6, MappedPage DEF CowInv, Shape, PageAt
  <1>10. ASSUME NEW x \in Env, NEW v \in UserVa, x # c \/ v # va
         PROVE  Steady(x, v) /\ m'.pte[x][v] = m.pte[x][v]
    <2>1. v \in Va /\ v # w
      BY <1>5, Addresses
    <2>2. Mapped(m, x, v) => PageAt(x, v) \in Page
      BY <2>1, MappedPage DEF CowInv, PageAt
    <2>3. PageAt(x, v) # PageAt(e, w)
      <3> SUFFICES ASSUME PageAt(x, v) = PageAt(e, w) PROVE FALSE
        OBVIOUS
      <3>1. Doubled(e, w, x, v)
        BY <1>3, <1>6, <2>1 DEF OwnPages, Shares, PageAt, Perm
      <3> QED BY <1>2, <1>3, <1>5, <1>10, <3>1 DEF Doubled, HandlerSees, ParentSees, NotYetMarked
    <2> QED BY <1>7, <1>9, <2>2, <2>3 DEF Steady, PageAt
  <1>11. \A x \in Env, v \in UserVa : x # c \/ v # va => Visible(x, v)' = Visible(x, v)
    <2>1. fork_va[e] = va /\ fork_va'[e] = va
      BY <1>2, <1>8
    <2>2. \A x \in Env, v \in UserVa : x # c \/ v # va =>
             Steady(x, v) /\ m'.pte[x][v] = m.pte[x][v]
      BY <1>10
    <2> QED BY <1>2, <1>3, <1>4, <1>8, <2>1, <2>2, OtherViews
  <1>12. Visible(c, va) = Absent /\ Visible(c, va)' = Visible(e, va)
    <2>1. /\ Visible(c, va) = IF Mapped(m, c, va) /\ ~Pending(e, va)
                              THEN data[PageAt(c, va)] ELSE Absent
          /\ Visible(c, va)' = IF Mapped(m, c, va)' /\ ~Pending(e, va)'
                               THEN data'[PageAt(c, va)'] ELSE Absent
      BY <1>2, <1>3, <1>4, <1>8, ChildView
    <2>2. Pending(e, va) /\ ~Pending(e, va)'
      BY <1>2, <1>3, <1>8 DEF Pending
    <2>3. Mapped(m, c, va)' /\ data'[PageAt(c, va)'] = data[PageAt(e, va)]
      BY <1>6, <1>7, <1>9 DEF Mapped, PageAt
    <2>4. Visible(e, va) = data[PageAt(e, va)]
      BY <1>3, <1>4, <1>8, OwnView
    <2> QED BY <2>1, <2>2, <2>3, <2>4
  <1>13. State(e)' = State(e)
    BY <1>3, <1>8 DEF State
  <1> QED BY <1>2, <1>3, <1>4, <1>8, <1>11, <1>12, <1>13, Handed

-----------------------------------------------------------------------------
(* Steps that change the tree of forks.                                    *)

\* Whose parent e is, that is its child.
LEMMA ParentHas ==
    ASSUME OneParent, NEW e \in Env, NEW x \in Env, ParentOf(x) = e
    PROVE  fork_child[e] = x
  <1>1. \E f \in Env : fork_child[f] = x
    BY ForkAssumption DEF ParentOf
  <1> QED BY <1>1, ParentIs

\* A parent has no child any more.
LEMMA ParentLost ==
    ASSUME OneParent, NEW e \in Env, fork_child'[e] = NoEnv,
           \A y \in Env \ {e} : fork_child'[y] = fork_child[y], NEW x \in Env
    PROVE  ParentOf(x)' = IF ParentOf(x) = e THEN Absent ELSE ParentOf(x)
  <1>1. x # NoEnv /\ e # Absent
    BY NoEnvIsNone, ForkAssumption
  <1>2. ParentOf(x)' = IF \E y \in Env : fork_child'[y] = x
                       THEN CHOOSE y \in Env : fork_child'[y] = x ELSE Absent
    BY DEF ParentOf
  <1>3. \A y \in Env : fork_child'[y] = x <=> y # e /\ fork_child[y] = x
    BY <1>1
  <1>4. CASE fork_child[e] = x
    <2>1. ParentOf(x) = e
      BY <1>4, ParentIs
    <2>2. \A y \in Env : fork_child'[y] # x
      BY <1>1, <1>3, <1>4 DEF OneParent
    <2> QED BY <1>2, <2>1, <2>2
  <1>5. CASE fork_child[e] # x
    <2>1. ParentOf(x) # e
      BY <1>5, ParentHas
    <2>2. \A y \in Env : fork_child'[y] = x <=> fork_child[y] = x
      BY <1>3, <1>5
    <2>3. ParentOf(x)' = ParentOf(x)
      <3>1. CASE \E y \in Env : fork_child[y] = x
        <4>1. PICK y \in Env : fork_child[y] = x
          BY <3>1
        <4>2. \A z \in Env : fork_child[z] = x <=> z = y
          BY <1>1, <4>1 DEF OneParent
        <4>3. ParentOf(x) = y
          BY <4>1, ParentIs
        <4>4. ParentOf(x)' = CHOOSE z \in Env : fork_child'[z] = x
          BY <1>2, <2>2, <4>1
        <4>5. \A z \in Env : fork_child'[z] = x <=> z = y
          BY <2>2, <4>2
        <4> QED BY <4>3, <4>4, <4>5
      <3>2. CASE ~\E y \in Env : fork_child[y] = x
        <4>1. ParentOf(x) = Absent
          BY <3>2, OrphanIs
        <4> QED BY <1>2, <2>2, <3>2, <4>1
      <3> QED BY <3>1, <3>2
    <2> QED BY <2>1, <2>3
  <1> QED BY <1>4, <1>5

\* What an environment sees does not depend on who comes or goes.
LEMMA ViewKept ==
    ASSUME NEW e \in Env, NEW d \in Env, fork_kind' = fork_kind,
           \A y \in Env \ {e, d} : /\ pc'[y] = pc[y] /\ fork_va'[y] = fork_va[y]
                                   /\ fork_child'[y] = fork_child[y]
                                   /\ \A u \in UserVa : m'.pte[y][u] = m.pte[y][u],
           d = e \/ (fork_child[d] = NoEnv /\ fork_child'[d] = NoEnv),
           \A u \in UserVa : ~Pending(e, u) /\ ~Pending(e, u)',
           NEW x \in Env, \A u \in UserVa : Steady(x, u), NEW v \in UserVa
    PROVE  Visible(x, v)' = Visible(x, v)
  <1>1. ASSUME NEW y \in Env
        PROVE  fork_child'[y] = x /\ Pending(y, v)' <=> fork_child[y] = x /\ Pending(y, v)
    <2>1. CASE y = e
      BY <2>1
    <2>2. CASE y = d /\ d # e
      BY <2>2, NoEnvIsNone
    <2>3. CASE y \notin {e, d}
      <3>1. fork_child'[y] = fork_child[y]
        BY <2>3
      <3>2. CASE fork_child[y] = x
        <4>1. /\ pc'[y] = pc[y] /\ fork_va'[y] = fork_va[y] /\ fork_kind' = fork_kind
              /\ fork_child'[y] = fork_child[y]
              /\ \A u \in UserVa : m'.pte[y][u] = m.pte[y][u]
              /\ \A u \in UserVa : m'.pte[fork_child[y]][u].page = PageAt(fork_child[y], u)
          BY <2>3, <3>2 DEF Steady
        <4>2. Settled(y)
          BY <4>1, PendingSame
        <4> QED BY <3>1, <4>2 DEF Settled
      <3> QED BY <3>1, <3>2
    <2> QED BY <2>1, <2>2, <2>3
  <1>2. InTheMaking(x, v)' <=> \E y \in Env : fork_child'[y] = x /\ Pending(y, v)'
    BY DEF InTheMaking, Pending
  <1>3. InTheMaking(x, v)' <=> InTheMaking(x, v)
    BY <1>1, <1>2, MakingIs
  <1>4. Steady(x, v)
    OBVIOUS
  <1> QED BY <1>3, <1>4 DEF Visible, Steady, PageAt, Mapped

\* Nobody sees anything where nothing is mapped.
LEMMA SeesNothing ==
    ASSUME NEW x
    PROVE  /\ (\A v \in UserVa : ~Mapped(m, x, v)) => \A v \in UserVa : Visible(x, v) = Absent
           /\ (\A v \in UserVa : ~Mapped(m, x, v)') => \A v \in UserVa : Visible(x, v)' = Absent
  BY DEF Visible

\* An environment that is not in the middle of a page ends: nothing of it is
\* left, and no other environment sees a difference.
LEMMA EndSeen ==
    ASSUME CowInv, NEW e \in Env, Live(e), EnvDestroy(e), Goto(e, "free"),
           Reset(e) \/ (UNCHANGED forkVars /\ pc[e] = "run"),
           \A u \in UserVa : ~Pending(e, u),
           UNCHANGED <<forks, fork_kind>>
    PROVE  Implements
  <1>1. Envs /\ Shape /\ OneParent /\ EnvInv(e)
    BY DEF CowInv, Envs
  <1>2. m.env_pgdir[e] # NoPage
    BY <1>1 DEF EnvInv, DirAt, Live
  <1>3. /\ DataKept(m')
        /\ \A x \in Env \ {e} : m'.pte[x] = m.pte[x]
        /\ \A va \in Va : m'.pte[e][va] = Zero
    BY <1>1, <1>2, Destroyed DEF CowInv
  <1>4. /\ fork_child'[e] = NoEnv /\ pc'[e] = "free"
        /\ \A x \in Env \ {e} : /\ fork_child'[x] = fork_child[x] /\ fork_va'[x] = fork_va[x]
                                /\ pc'[x] = pc[x]
    <2>1. pc[e] = "run" => fork_child[e] = NoEnv
      BY <1>1 DEF EnvInv, ForkAt
    <2> QED BY <1>1, <2>1 DEF Shape, Goto, Reset, forkVars
  <1>5. UserVa \subseteq Va
    BY Addresses
  <1>6. States' = [States EXCEPT ![e] = "free"]
    BY <1>4 DEF States, State
  <1>7. Parents' = [x \in Env |-> IF x = e \/ Parents[x] = e THEN Absent ELSE Parents[x]]
    <2>1. \A x \in Env : ParentOf(x)' = IF ParentOf(x) = e THEN Absent ELSE ParentOf(x)
      BY <1>1, <1>4, ParentLost
    <2> QED BY <1>4, <2>1 DEF Parents, Parent
  <1>8. View' = [View EXCEPT ![e] = [va \in UserVa |-> Absent]]
    <2>1. \A u \in UserVa : Visible(e, u)' = Absent
      <3>1. \A u \in UserVa : ~Mapped(m, e, u)'
        BY <1>3, <1>5 DEF Mapped, Zero
      <3> QED BY <3>1, SeesNothing
    <2>2. ASSUME NEW x \in Env \ {e}, NEW u \in UserVa
          PROVE  Visible(x, u)' = Visible(x, u)
      <3>1. \A v \in UserVa : Steady(x, v)
        BY <1>3, <1>5, StillSteady
      <3>2. \A v \in UserVa : ~Pending(e, v) /\ ~Pending(e, v)'
        BY <1>4 DEF Pending
      <3>3. \A y \in Env \ {e, e} : /\ pc'[y] = pc[y] /\ fork_va'[y] = fork_va[y]
                                    /\ fork_child'[y] = fork_child[y]
                                    /\ \A v \in UserVa : m'.pte[y][v] = m.pte[y][v]
        BY <1>3, <1>4
      <3>4. fork_kind' = fork_kind
        OBVIOUS
      <3> QED BY <3>1, <3>2, <3>3, <3>4, ViewKept
    <2> QED BY <2>1, <2>2 DEF View
  <1>9. pc[e] # "free"
    BY DEF Live
  <1> QED BY <1>6, <1>7, <1>8, <1>9, ImplGone

\* exit.
LEMMA ExitSeen ==
    ASSUME CowInv, NEW e \in Env, Exit(e), UNCHANGED <<forks, fork_kind>>
    PROVE  Implements
  <1>1. pc[e] = "run" /\ EnvDestroy(e) /\ Goto(e, "free") /\ UNCHANGED forkVars
    BY DEF Exit
  <1>2. Live(e) /\ \A u \in UserVa : ~Pending(e, u)
    BY <1>1 DEF Live, Pending
  <1>3. Reset(e) \/ (UNCHANGED forkVars /\ pc[e] = "run")
    BY <1>1
  <1> QED BY <1>1, <1>2, <1>3, EndSeen

\* A store that faults: the handler starts, or the environment ends because it
\* has none, which cannot be while fork is handing out a page.
LEMMA StoreFaultsSeen ==
    ASSUME CowInv, NEW e \in Env, NEW va \in UserVa, NEW v \in Value, Store(e, va, v),
           ~user_mem_check(m, e, va, {"W"}), UNCHANGED <<forks, fork_kind>>
    PROVE  Implements
  <1>1. PageFault(e, va) /\ utf[e] = <<>> /\ Live(e) /\ pc[e] # "panic"
        /\ (pc[e] = "run" \/ va = STACK)
    BY DEF Store, Executes, Live
  <1>2. Envs /\ Shape /\ EnvInv(e) /\ va \in Va
    BY Addresses DEF CowInv, Envs
  <1>3. CASE env_pgfault_upcall[e]
    <2>1. user_mem_check(m, e, EXSTACK, {"W"})
      <3>1. EXSTACK \in Va /\ EXSTACK \notin UserVa /\ Mapped(m, e, EXSTACK)
        BY <1>2, <1>3, Addresses DEF EnvInv, UpcallAt, EXSTACK
      <3>2. Perm(e, EXSTACK) = {"W"} /\ HasTable(m, e, EXSTACK)
        BY <1>2, <3>1 DEF EnvInv, EntriesAt, CowInv, MemInv, Nested
      <3> QED BY <3>1, <3>2 DEF user_mem_check, Perm
    <2>2. UNCHANGED <<m, data, pc, forkVars>>
      BY <1>1, <1>3, <2>1 DEF PageFault
    <2> QED BY <1>2, <2>2, FrameSeen
  <1>4. CASE ~env_pgfault_upcall[e]
    <2>1. EnvDestroy(e) /\ Goto(e, "free") /\ Reset(e)
      BY <1>1, <1>4 DEF PageFault
    <2>2. Mapped(m, e, va) /\ Perm(e, va) # {"W"}
      <3>1. Mapped(m, e, va)
        BY <1>1, <1>2 DEF EnvInv, EntriesAt
      <3>2. HasTable(m, e, va)
        BY <1>2, <3>1 DEF CowInv, MemInv, Nested
      <3> QED BY <3>1, <3>2 DEF user_mem_check, Perm
    <2>3. fork_kind = "cow"
      BY <1>2, <2>2 DEF EnvInv, EntriesAt
    <2>4. pc[e] \notin {"temp", "copy"}
      BY <1>2, <2>3 DEF EnvInv, ForkAt
    <2>5. pc[e] # "mark"
      <3> SUFFICES ASSUME pc[e] = "mark" PROVE FALSE
        OBVIOUS
      <3>1. va = STACK /\ STACK \in UserVa /\ fork_va[e] \in UserVa
        BY <1>1, <1>2 DEF EnvInv, ForkAt, LoopPCs
      <3>2. STACK >= fork_va[e]
        BY <3>1, Addresses DEF STACK
      <3>3. Perm(e, STACK) = {"W"}
        BY <1>2, <1>4, <3>1, <3>2 DEF EnvInv, HandledAt, LoopPCs
      <3> QED BY <2>2, <3>1, <3>3
    <2>6. \A u \in UserVa : ~Pending(e, u)
      BY <1>1, <2>4, <2>5 DEF Pending
    <2> QED BY <1>1, <2>1, <2>6, EndSeen
  <1> QED BY <1>3, <1>4

\* A parent's status: its child gets an upcall, which shows nowhere, or ends.
LEMMA UpcallSeen ==
    ASSUME CowInv, NEW e \in Env, Upcall(e), UNCHANGED <<forks, fork_kind>>
    PROVE  Implements
  <1>1. /\ Envs /\ Shape /\ OneParent /\ EnvInv(e)
        /\ pc[e] = "upcall" /\ Live(e)
    BY DEF CowInv, Envs, Upcall, AtPage, Executes, Live
  <1>2. PICK c : c = fork_child[e]
    OBVIOUS
  <1>3. /\ c # NoEnv /\ c \in Env /\ c # e /\ pc[c] = "embryo" /\ EnvInv(c)
    BY <1>1, <1>2 DEF Shape, Envs, EnvInv, ChildAt, ForkAt
  <1>4. UNCHANGED <<fork_va, fork_pte, forks, fork_kind>>
    BY DEF Upcall
  <1>5. \A x \in Env : fork_child[x] # e
    BY <1>1, NoChild, NoEnvIsNone
  <1>6. UserVa \subseteq Va
    BY Addresses
  <1>7. CASE env_pgfault_upcall[e]
    <2>1. Goto(e, "status") /\ UNCHANGED <<m, data, fork_child>>
      BY <1>2, <1>7 DEF Upcall
    <2>2. pc'[e] = "status" /\ \A x \in Env \ {e} : pc'[x] = pc[x]
      BY <1>1, <2>1, Moves
    <2>3. /\ \A x \in Env \ {e} : pc'[x] = pc[x] /\ fork_va'[x] = fork_va[x]
          /\ UNCHANGED <<fork_child, fork_kind>>
      BY <1>4, <2>1, <2>2
    <2>4. \A x \in Env, v \in UserVa : Steady(x, v) /\ m'.pte[x][v] = m.pte[x][v]
      BY <2>1 DEF Steady, PageAt
    <2>5. Live(e)' /\ Idle(e) /\ Idle(e)'
      BY <1>1, <2>2 DEF Live, Idle
    <2> QED BY <1>1, <1>5, <2>3, <2>4, <2>5, QuietEnd
  <1>8. CASE ~env_pgfault_upcall[e]
    <2>1. /\ EnvDestroy(c)
          /\ pc' = [pc EXCEPT ![e] = "status", ![c] = "free"]
          /\ fork_child' = [fork_child EXCEPT ![e] = NoEnv]
      BY <1>2, <1>8 DEF Upcall
    <2>2. m.env_pgdir[c] # NoPage
      BY <1>3 DEF EnvInv, DirAt
    <2>3. /\ DataKept(m')
          /\ \A x \in Env \ {c} : m'.pte[x] = m.pte[x]
          /\ \A va \in Va : m'.pte[c][va] = Zero
      BY <1>1, <1>3, <2>1, <2>2, Destroyed DEF CowInv
    <2>4. /\ pc'[e] = "status" /\ pc'[c] = "free" /\ \A x \in Env \ {e, c} : pc'[x] = pc[x]
          /\ fork_child'[e] = NoEnv /\ \A x \in Env \ {e} : fork_child'[x] = fork_child[x]
      BY <1>1, <1>3, <2>1 DEF Shape
    <2>5. States' = [States EXCEPT ![c] = "free"]
      BY <1>1, <1>3, <2>4 DEF States, State
    <2>6. Parents' = [x \in Env |-> IF x = c \/ Parents[x] = c THEN Absent ELSE Parents[x]]
      <3>1. \A x \in Env : ParentOf(x)' = IF ParentOf(x) = e THEN Absent ELSE ParentOf(x)
        BY <1>1, <2>4, ParentLost
      <3>2. fork_child[c] = NoEnv
        BY <1>3 DEF EnvInv, ForkAt
      <3>3. \A x \in Env : ParentOf(x) # c
        BY <1>1, <1>3, <3>2, ParentHas, NoEnvIsNone
      <3>4. \A x \in Env \ {c} : ParentOf(x) # e
        BY <1>1, <1>2, ParentHas
      <3>5. c # Absent
        BY <1>3, ForkAssumption
      <3>6. ASSUME NEW x \in Env
            PROVE  Parent(x)' = IF x = c \/ Parent(x) = c THEN Absent ELSE Parent(x)
        <4>1. CASE x = c
          BY <2>4, <4>1 DEF Parent
        <4>2. CASE x = e
          BY <1>1, <2>4, <4>2 DEF Parent
        <4>3. CASE x \notin {e, c}
          <5>1. pc'[x] = pc[x] /\ ParentOf(x)' = ParentOf(x) /\ ParentOf(x) # c
            BY <2>4, <3>1, <3>3, <3>4, <4>3
          <5> QED BY <3>5, <4>3, <5>1 DEF Parent
        <4> QED BY <4>1, <4>2, <4>3
      <3> QED BY <3>6 DEF Parents
    <2>7. View' = [View EXCEPT ![c] = [va \in UserVa |-> Absent]]
      <3>1. \A u \in UserVa : Visible(c, u)' = Absent
        <4>1. \A u \in UserVa : ~Mapped(m, c, u)'
          BY <1>6, <2>3 DEF Mapped, Zero
        <4> QED BY <4>1, SeesNothing
      <3>2. ASSUME NEW x \in Env \ {c}, NEW u \in UserVa
            PROVE  Visible(x, u)' = Visible(x, u)
        <4>1. \A v \in UserVa : Steady(x, v)
          BY <1>6, <2>3, StillSteady
        <4>2. \A v \in UserVa : ~Pending(e, v) /\ ~Pending(e, v)'
          BY <1>1, <2>4 DEF Pending
        <4>3. \A y \in Env \ {e, c} : /\ pc'[y] = pc[y] /\ fork_va'[y] = fork_va[y]
                                      /\ fork_child'[y] = fork_child[y]
                                      /\ \A v \in UserVa : m'.pte[y][v] = m.pte[y][v]
          BY <1>4, <2>3, <2>4
        <4>4. fork_child[c] = NoEnv /\ fork_child'[c] = NoEnv
          BY <1>3, <2>4 DEF EnvInv, ForkAt
        <4>5. fork_kind' = fork_kind
          OBVIOUS
        <4> QED BY <1>3, <4>1, <4>2, <4>3, <4>4, <4>5, ViewKept
      <3> QED BY <3>1, <3>2 DEF View
    <2>8. pc[c] # "free"
      BY <1>3
    <2> QED BY <1>3, <2>5, <2>6, <2>7, <2>8, ImplGone
  <1> QED BY <1>7, <1>8

\* The child starts with everything that its parent had, or the parent fails.
LEMMA StatusSeen ==
    ASSUME CowInv, NEW e \in Env, Status(e), UNCHANGED <<forks, fork_kind>>
    PROVE  Implements
  <1>1. /\ Envs /\ Shape /\ OneParent /\ EnvInv(e)
        /\ pc[e] = "status" /\ Live(e)
    BY DEF CowInv, Envs, Status, AtPage, Executes, Live
  <1>2. PICK c : c = fork_child[e]
    OBVIOUS
  <1>3. UNCHANGED <<m, data, forks, fork_kind>>
    BY DEF Status
  <1>4. fork_va[e] = NVA
    BY <1>1 DEF EnvInv, ForkAt
  <1>5. \A x \in Env : fork_child[x] # e
    BY <1>1, NoChild, NoEnvIsNone
  <1>6. \A x \in Env, v \in UserVa : Steady(x, v) /\ m'.pte[x][v] = m.pte[x][v]
    BY <1>3 DEF Steady, PageAt
  <1>7. CASE c = NoEnv
    <2>1. Goto(e, "panic") /\ UNCHANGED forkVars
      BY <1>2, <1>7 DEF Status
    <2>2. UNCHANGED <<fork_child, fork_va, fork_kind>>
      BY <1>3, <2>1 DEF forkVars
    <2> QED BY <1>1, <1>2, <1>5, <1>6, <1>7, <2>1, <2>2, Panics
  <1>8. CASE c # NoEnv
    <2>1. /\ c \in Env /\ c # e /\ pc[c] = "embryo" /\ EnvInv(c)
          /\ \A va \in UserVa : Mapped(m, c, va)
      <3>1. \A va \in UserVa : va < NVA
        BY Addresses
      <3> QED BY <1>1, <1>2, <1>4, <1>8, <3>1 DEF Shape, Envs, EnvInv, ChildAt
    <2>2. /\ pc' = [pc EXCEPT ![e] = "run", ![c] = "run"]
          /\ Reset(e)
      BY <1>2, <1>8 DEF Status
    <2>3. /\ pc'[e] = "run" /\ pc'[c] = "run" /\ fork_child'[e] = NoEnv
          /\ \A x \in Env \ {e} : fork_child'[x] = fork_child[x] /\ fork_va'[x] = fork_va[x]
          /\ \A x \in Env \ {e, c} : pc'[x] = pc[x]
      BY <1>1, <2>1, <2>2 DEF Shape, Reset
    <2>4. \A va \in UserVa : Visible(c, va) # Absent
      <3>1. \A va \in UserVa : ~Pending(e, va)
        BY <1>1 DEF Pending
      <3>2. ASSUME NEW va \in UserVa PROVE data[PageAt(c, va)] # Absent
        <4>1. PageAt(c, va) \in Page
          BY <2>1, Addresses, MappedPage DEF CowInv, PageAt
        <4> QED BY <1>1, <4>1, ForkAssumption DEF Shape
      <3>3. ASSUME NEW va \in UserVa PROVE Visible(c, va) # Absent
        <4>1. ~InTheMaking(c, va)
          <5>1. \A y \in Env : fork_child[y] = c => y = e
            BY <1>1, <1>2, <1>8 DEF OneParent
          <5> QED BY <3>1, <5>1, MakingIs
        <4> QED BY <2>1, <3>2, <4>1 DEF Visible
      <3> QED BY <3>3
    <2>5. States' = [States EXCEPT ![c] = "live"]
      BY <1>1, <2>1, <2>3 DEF States, State
    <2>6. Parents' = [Parents EXCEPT ![c] = Absent]
      <3>1. \A x \in Env : ParentOf(x)' = IF ParentOf(x) = e THEN Absent ELSE ParentOf(x)
        BY <1>1, <2>3, ParentLost
      <3>2. \A x \in Env \ {c} : ParentOf(x) # e
        BY <1>1, <1>2, ParentHas
      <3>3. ASSUME NEW x \in Env PROVE Parent(x)' = IF x = c THEN Absent ELSE Parent(x)
        <4>1. CASE x = c
          BY <2>3, <4>1 DEF Parent
        <4>2. CASE x = e
          BY <1>1, <2>1, <2>3, <4>2 DEF Parent
        <4>3. CASE x \notin {e, c}
          BY <2>3, <3>1, <3>2, <4>3 DEF Parent
        <4> QED BY <4>1, <4>2, <4>3
      <3> QED BY <3>3 DEF Parents
    <2>7. View' = View
      <3>1. ASSUME NEW x \in Env, NEW u \in UserVa
            PROVE  Visible(x, u)' = Visible(x, u)
        <4>1. \A v \in UserVa : Steady(x, v)
          BY <1>6
        <4>2. \A v \in UserVa : ~Pending(e, v) /\ ~Pending(e, v)'
          BY <1>1, <2>3 DEF Pending
        <4>3. \A y \in Env \ {e, c} : /\ pc'[y] = pc[y] /\ fork_va'[y] = fork_va[y]
                                      /\ fork_child'[y] = fork_child[y]
                                      /\ \A v \in UserVa : m'.pte[y][v] = m.pte[y][v]
          BY <1>6, <2>3
        <4>4. fork_child[c] = NoEnv /\ fork_child'[c] = NoEnv
          BY <2>1, <2>3 DEF EnvInv, ForkAt
        <4>5. fork_kind' = fork_kind
          OBVIOUS
        <4> QED BY <2>1, <4>1, <4>2, <4>3, <4>4, <4>5, ViewKept
      <3> QED BY <3>1 DEF View
    <2> QED BY <2>1, <2>4, <2>5, <2>6, <2>7, ImplStart
  <1> QED BY <1>7, <1>8

\* A parent gets its child, in which nothing is seen yet.
LEMMA ExoforkSeen ==
    ASSUME CowInv, NEW e \in Env, NEW c \in Env, Exofork(e, c), UNCHANGED fork_kind
    PROVE  Implements
  <1>1. /\ Envs /\ Shape /\ OneParent /\ EnvInv(e) /\ EnvInv(c)
        /\ pc[e] = "exofork" /\ Live(e) /\ pc[c] = "free" /\ c # e
    BY DEF CowInv, Envs, Exofork, Executes, Live
  <1>2. /\ HasFree(m)
        /\ SetMem(env_setup_vm(m, c))
        /\ pc' = [pc EXCEPT ![e] = "loop", ![c] = "embryo"]
        /\ fork_child' = [fork_child EXCEPT ![e] = c]
        /\ UNCHANGED fork_va
    BY DEF Exofork
  <1>3. /\ m.env_pgdir[c] = NoPage
        /\ fork_child[c] = NoEnv /\ fork_child[e] = NoEnv /\ c # NoEnv
    BY <1>1, NoEnvIsNone DEF EnvInv, DirAt, ForkAt
  <1>4. /\ \A x \in Env : fork_child[x] # e
        /\ \A x \in Env : fork_child[x] # c
    BY <1>1, NoChild, NoEnvIsNone
  <1>5. \A va \in Va : ~Mapped(m, c, va)
    BY <1>3, Tables DEF CowInv, MemInv, Nested, HasTable
  <1>6. m'.pte = m.pte /\ DataKept(m')
    <2>1. PICK n : n = env_setup_vm(m, c)
      OBVIOUS
    <2>2. MemInv(n) /\ n.pte = m.pte
      BY <1>2, <1>3, <2>1, SetupKeeps DEF CowInv
    <2> QED BY <1>1, <1>2, <2>1, <2>2, SetMemKeeps DEF Shape
  <1>7. /\ pc'[e] = "loop" /\ pc'[c] = "embryo" /\ \A x \in Env \ {e, c} : pc'[x] = pc[x]
        /\ fork_child'[e] = c /\ \A x \in Env \ {e} : fork_child'[x] = fork_child[x]
    BY <1>1, <1>2 DEF Shape
  <1>8. States' = [States EXCEPT ![c] = "embryo"]
    BY <1>1, <1>7 DEF States, State
  <1>9. Parents' = [Parents EXCEPT ![c] = e]
    <2>1. ParentOf(c)' = e
      <3>1. ParentOf(c)' = IF \E y \in Env : fork_child'[y] = c
                           THEN CHOOSE y \in Env : fork_child'[y] = c ELSE Absent
        BY DEF ParentOf
      <3>2. \A y \in Env : fork_child'[y] = c <=> y = e
        BY <1>4, <1>7
      <3> QED BY <3>1, <3>2
    <2>2. ASSUME NEW x \in Env, x # c PROVE ParentOf(x)' = ParentOf(x)
      <3>1. \A y \in Env : fork_child'[y] = x <=> fork_child[y] = x
        BY <1>3, <1>7, <2>2, NoEnvIsNone
      <3> QED BY <3>1 DEF ParentOf
    <2>3. ASSUME NEW x \in Env PROVE Parent(x)' = IF x = c THEN e ELSE Parent(x)
      <3>1. CASE x = c
        BY <1>7, <2>1, <3>1 DEF Parent
      <3>2. CASE x = e
        BY <1>1, <1>7, <3>2 DEF Parent
      <3>3. CASE x \notin {e, c}
        BY <1>7, <2>2, <3>3 DEF Parent
      <3> QED BY <3>1, <3>2, <3>3
    <2> QED BY <2>3 DEF Parents
  <1>10. View' = View
    <2>1. UserVa \subseteq Va
      BY Addresses
    <2>2. \A u \in UserVa : Visible(c, u)' = Visible(c, u)
      <3>1. \A u \in UserVa : ~Mapped(m, c, u)
        BY <1>5, <2>1
      <3>2. \A u \in UserVa : ~Mapped(m, c, u)'
        BY <1>6, <3>1 DEF Mapped
      <3> QED BY <3>1, <3>2, SeesNothing
    <2>3. ASSUME NEW x \in Env \ {c}, NEW u \in UserVa
          PROVE  Visible(x, u)' = Visible(x, u)
      <3>1. \A v \in UserVa : Steady(x, v)
        BY <1>6, <2>1, StillSteady
      <3>2. \A v \in UserVa : ~Pending(e, v) /\ ~Pending(e, v)'
        BY <1>1, <1>7 DEF Pending
      <3>3. \A y \in Env \ {e, c} : /\ pc'[y] = pc[y] /\ fork_va'[y] = fork_va[y]
                                    /\ fork_child'[y] = fork_child[y]
                                    /\ \A v \in UserVa : m'.pte[y][v] = m.pte[y][v]
        BY <1>2, <1>6, <1>7
      <3>4. fork_child[c] = NoEnv /\ fork_child'[c] = NoEnv
        BY <1>1, <1>3, <1>7
      <3> QED BY <3>1, <3>2, <3>3, <3>4, ViewKept
    <2> QED BY <2>2, <2>3 DEF View
  <1>11. fork_child \in [Env -> Env \cup {NoEnv}]
    BY <1>1 DEF Shape
  <1> QED BY <1>1, <1>3, <1>8, <1>9, <1>10, <1>11, ImplChild

\* Every step of the system is a step of private memories, or changes nothing
\* that can be seen.
LEMMA NextSeen == CowInv /\ [Next]_vars => Implements
  <1> SUFFICES ASSUME CowInv, [Next]_vars PROVE Implements
    OBVIOUS
  <1>1. CASE UNCHANGED vars
    <2>1. UNCHANGED <<m, data, pc, forkVars, fork_kind>>
      BY <1>1 DEF vars
    <2>2. States' = States /\ Parents' = Parents /\ View' = View
      BY <2>1 DEF forkVars, States, State, Parents, Parent, ParentOf, View, Visible,
         InTheMaking, Mapped, PageAt
    <2> QED BY <2>2, Stutters
  <1>2. CASE Next
    <2>1. PICK e \in Env :
              \/ \E c \in Env : Exofork(e, c)
              \/ /\ \/ \E va \in UserVa, x \in Value : Store(e, va, x)
                    \/ Fault(e)
                    \/ Fork(e)
                    \/ Exit(e)
                 /\ UNCHANGED forks
      BY <1>2 DEF Next
    <2>2. UNCHANGED fork_kind
      BY <1>2 DEF Next
    <2>3. CASE \E c \in Env : Exofork(e, c)
      BY <2>2, <2>3, ExoforkSeen
    <2>4. ASSUME UNCHANGED forks, NEW va \in UserVa, NEW x \in Value, Store(e, va, x)
          PROVE  Implements
      <3>1. CASE user_mem_check(m, e, va, {"W"})
        BY <2>2, <2>4, <3>1, StoreSeen
      <3>2. CASE ~user_mem_check(m, e, va, {"W"})
        BY <2>2, <2>4, <3>2, StoreFaultsSeen
      <3> QED BY <3>1, <3>2
    <2>5. CASE UNCHANGED forks /\ Fault(e)
      BY <2>2, <2>5, PfAllocSeen, PfCopySeen, PfMapSeen, PfUnmapSeen, PfRetSeen DEF Fault
    <2>6. CASE UNCHANGED forks /\ Exit(e)
      BY <2>2, <2>6, ExitSeen
    <2>7. CASE UNCHANGED forks /\ Fork(e)
      <3>1. CASE ForkEnter(e)
        BY <2>2, <2>7, <3>1, ForkEnterSeen
      <3>2. CASE ExoforkFails(e)
        BY <2>2, <2>7, <3>2, ExoforkFailsSeen
      <3>3. CASE Loop(e)
        BY <2>2, <2>7, <3>3, LoopSeen
      <3>4. CASE Share(e)
        BY <2>2, <2>7, <3>4, ShareSeen
      <3>5. CASE Mark(e)
        BY <2>2, <2>7, <3>5, MarkSeen
      <3>6. CASE Alloc(e)
        BY <2>2, <2>7, <3>6, ForkAllocSeen
      <3>7. CASE Temp(e)
        BY <2>2, <2>7, <3>7, TempSeen
      <3>8. CASE Copy(e)
        BY <2>2, <2>7, <3>8, CopySeen
      <3>9. CASE Untemp(e)
        BY <2>2, <2>7, <3>9, UntempSeen
      <3>10. CASE XStack(e)
        BY <2>2, <2>7, <3>10, XStackSeen
      <3>11. CASE Upcall(e)
        BY <2>2, <2>7, <3>11, UpcallSeen
      <3>12. CASE Status(e)
        BY <2>2, <2>7, <3>12, StatusSeen
      <3> QED BY <2>7, <3>1, <3>2, <3>3, <3>4, <3>5, <3>6, <3>7, <3>8, <3>9, <3>10, <3>11,
                 <3>12 DEF Fork
    <2> QED BY <2>1, <2>3, <2>4, <2>5, <2>6, <2>7
  <1> QED BY <1>1, <1>2

\* In the beginning there is one environment, which sees all of its memory.
LEMMA InitSeen == Init => Private!Init
  <1> SUFFICES ASSUME Init PROVE Private!Init
    OBVIOUS
  <1>1. PICK e \in Env :
            /\ m = Loaded(e)
            /\ \A va \in UserVa : Mapped(m, e, va)
            /\ data = [p \in Page |-> 0]
            /\ pc = [x \in Env |-> IF x = e THEN "run" ELSE "free"]
            /\ fork_child = [x \in Env |-> NoEnv]
    BY DEF Init
  <1>2. PICK n : n = m
    OBVIOUS
  <1>3. /\ MemInv(n)
        /\ \A x \in Env, va \in Va : Mapped(n, x, va) <=> x = e /\ va \in UserVa
    <2>1. n = Loaded(e) /\ \A va \in UserVa : Mapped(n, e, va)
      BY <1>1, <1>2
    <2> QED BY <2>1, LoadedIs
  <1>4. UserVa \subseteq Va
    BY Addresses
  <1>5. States = [x \in Env |-> IF x = e THEN "live" ELSE "free"]
    BY <1>1 DEF States, State
  <1>6. Parents = [x \in Env |-> Absent]
    BY <1>1 DEF Parents, Parent
  <1>7. \A va \in UserVa : Visible(e, va) = 0
    <2>1. \A va \in UserVa : ~InTheMaking(e, va)
      BY <1>1, NoEnvIsNone DEF InTheMaking
    <2>2. \A va \in UserVa : PageAt(e, va) \in Page
      BY <1>1, <1>2, <1>3, <1>4, MappedPage DEF PageAt
    <2> QED BY <1>1, <2>1, <2>2 DEF Visible
  <1>8. \A x \in Env \ {e}, va \in UserVa : Visible(x, va) = Absent
    BY <1>2, <1>3, <1>4 DEF Visible
  <1>9. 0 \in Value /\ 0 # Absent
    BY ForkAssumption
  <1>10. /\ View \in [Env -> [UserVa -> Value \cup {Absent}]]
         /\ \A va \in UserVa : View[e][va] # Absent
         /\ \A x \in Env \ {e} : View[x] = [va \in UserVa |-> Absent]
    <2>1. \A x \in Env, va \in UserVa : Visible(x, va) \in Value \cup {Absent}
      BY <1>7, <1>8, <1>9
    <2> QED BY <1>7, <1>8, <1>9, <2>1 DEF View
  <1> QED BY <1>5, <1>6, <1>10 DEF Private!Init, Private!Nothing, States, Parents, View,
         State, Parent

\* fork keeps its promise, whatever the number of environments and pages and
\* whichever fork the programs call: to each environment its memory looks as if
\* nobody shared it, through copy-on-write, faults, faults inside the handler,
\* writes to the stack while fork marks it, forks that fail and environments that
\* end half-way.
THEOREM ForkIsPrivate == Spec => IsPrivateMemory
  <1>1. Init => Private!Init
    BY InitSeen
  <1>2. CowInv /\ [Next]_vars => [Private!Next]_(Private!vars)
    BY NextSeen DEF Implements
  <1> QED BY <1>1, <1>2, CowSafe, PTL DEF Spec, IsPrivateMemory, Private!Spec
=============================================================================
