------------------------------ MODULE PageOps ------------------------------
(***************************************************************************)
(* Physical pages and page tables of the kernel in sched/: the routines of *)
(* kern/pmap.c, env_setup_vm of kern/env.c and the helpers of the page     *)
(* system calls of kern/syscall.c, as functions on a value m of the        *)
(* kernel's memory structures.  A system call applies several of them in a *)
(* row with the kernel lock held.                                          *)
(*                                                                         *)
(* The entries of a page table are kept under the environment and the      *)
(* address they translate; pde says which page holds them.  What mem_init  *)
(* maps above UTOP is the same for everyone and is not part of m.          *)
(* page_free_list is the set of the pages on the list: which of them is    *)
(* first makes no difference, since nothing else refers to any of them.    *)
(***************************************************************************)
EXTENDS Integers, FiniteSets

CONSTANTS
    Env,      \* slots of envs
    NPAGES,   \* physical pages on the free list after mem_init
    NVA,      \* user pages (addresses below UTOP, in pages)
    PDX,      \* page directory index of an address
    MaxRef    \* largest pp_ref: 2^16 - 1 in the code

Page == 1..NPAGES
NoPage == 0   \* the page of a zero entry
Va == 0..(NVA - 1)
Pdx == {PDX[va] : va \in Va}

\* PTE_P and PTE_U are set in every user entry; PTE_COW is one of PTE_AVAIL,
\* and PCD stands for PTE_PCD | PTE_PWT.
Flag == {"W", "COW", "PCD"}
PTE_SYSCALL == {"W", "COW"}

ASSUME PageAssumption ==
    /\ IsFiniteSet(Env)
    /\ NPAGES \in Nat
    /\ NVA \in Nat \ {0}
    /\ PDX \in [Va -> Nat]
    /\ MaxRef \in Nat \ {0}

PTE == [page : Page \cup {NoPage}, perm : SUBSET Flag]
Zero == [page |-> NoPage, perm |-> {}]

Memory == [page_free_list : SUBSET Page,
           pp_ref : [Page -> 0..MaxRef],
           env_pgdir : [Env -> Page \cup {NoPage}],
           pde : [Env -> [Pdx -> Page \cup {NoPage}]],
           pte : [Env -> [Va -> PTE]],
           double_free : BOOLEAN]

Mapped(m, e, va) == m.pte[e][va].page # NoPage

\* pp_ref has 16 bits.
Incr(r) == IF r = MaxRef THEN 0 ELSE r + 1
Decr(r) == IF r = 0 THEN MaxRef ELSE r - 1

-----------------------------------------------------------------------------
(* kern/pmap.c                                                             *)

HasFree(m) == m.page_free_list # {}

\* The page that page_alloc returns, and what it leaves.
FirstFree(m) == CHOOSE p \in Page : p \in m.page_free_list

\* A bug for the runs: the page stays on the list.
page_allocKeeps(m) == m

page_alloc(m) == [m EXCEPT !.page_free_list = @ \ {FirstFree(m)}]

\* The kernel panics over a page that is still referred to, or free already.
\* (The second test misses the last page of the list, whose pp_link is null: the
\* list would be damaged then, and double_free stands for that as well.)
page_free(m, p) ==
    IF m.pp_ref[p] # 0 \/ p \in m.page_free_list
    THEN [m EXCEPT !.double_free = TRUE]
    ELSE [m EXCEPT !.page_free_list = @ \cup {p}]

page_incref(m, p) == [m EXCEPT !.pp_ref[p] = Incr(@)]

page_decref(m, p) ==
    LET d == [m EXCEPT !.pp_ref[p] = Decr(@)]
    IN  IF d.pp_ref[p] = 0 THEN page_free(d, p) ELSE d

\* pgdir_walk with create = 1: the table of va exists afterwards unless there
\* was no page for it.  A new table is clear.
pgdir_walk(m, e, va) ==
    IF m.pde[e][PDX[va]] # NoPage \/ ~HasFree(m)
    THEN m
    ELSE LET p == FirstFree(m)
         IN  [page_incref(page_alloc(m), p) EXCEPT
                !.pde[e][PDX[va]] = p,
                !.pte[e] = [v \in Va |-> IF PDX[v] = PDX[va] THEN Zero
                                                             ELSE @[v]]]

HasTable(m, e, va) == m.pde[e][PDX[va]] # NoPage

\* A bug for the runs: the reference is not given back.
page_removeKeepsRef(m, e, va) ==
    IF HasTable(m, e, va) /\ Mapped(m, e, va)
    THEN [m EXCEPT !.pte[e][va] = Zero]
    ELSE m

\* Nothing happens when nothing is mapped.
page_remove(m, e, va) ==
    IF HasTable(m, e, va) /\ Mapped(m, e, va)
    THEN [page_decref(m, m.pte[e][va].page) EXCEPT !.pte[e][va] = Zero]
    ELSE m

\* The count grows before the old mapping goes, so that mapping a page where it
\* is mapped already does not free it.
set_page(m, e, p, va, perm) ==
    [page_remove(page_incref(m, p), e, va) EXCEPT
        !.pte[e][va] = [page |-> p, perm |-> perm]]

page_insert(m, e, p, va, perm) ==
    LET w == pgdir_walk(m, e, va)
    IN  IF HasTable(w, e, va)
        THEN [mem |-> set_page(w, e, p, va, perm), ret |-> "ok"]
        ELSE [mem |-> w, ret |-> "E_NO_MEM"]

\* What user_mem_check finds for one page: mapped with these permissions.
user_mem_check(m, e, va, perm) ==
    /\ HasTable(m, e, va)
    /\ Mapped(m, e, va)
    /\ perm \subseteq m.pte[e][va].perm

-----------------------------------------------------------------------------
(* kern/env.c                                                              *)

\* The new directory has the kernel's entries only.
env_setup_vm(m, e) ==
    LET p == FirstFree(m)
    IN  [page_incref(page_alloc(m), p) EXCEPT
            !.env_pgdir[e] = p,
            !.pde[e] = [x \in Pdx |-> NoPage]]

\* A bug for the runs: the page of the table is not given back.
free_tableLeaks(m, e, x) == [m EXCEPT !.pde[e][x] = NoPage]

\* The end of the loop over a page table in env_free, and the end of env_free.
free_table(m, e, x) ==
    page_decref([m EXCEPT !.pde[e][x] = NoPage], m.pde[e][x])

free_pgdir(m, e) ==
    page_decref([m EXCEPT !.env_pgdir[e] = NoPage], m.env_pgdir[e])

-----------------------------------------------------------------------------
(* kern/syscall.c                                                          *)

\* A page that page_insert refuses is on no list any more.
env_page_alloc(m, e, va, perm) ==
    IF ~(perm \subseteq PTE_SYSCALL)
    THEN [mem |-> m, ret |-> "E_INVAL"]
    ELSE IF ~HasFree(m)
    THEN [mem |-> m, ret |-> "E_NO_MEM"]
    ELSE page_insert(page_alloc(m), e, FirstFree(m), va, perm)

env_page_map(m, src, srcva, dst, dstva, perm) ==
    IF \/ ~(HasTable(m, src, srcva) /\ Mapped(m, src, srcva))
       \/ "W" \in perm \ m.pte[src][srcva].perm
    THEN [mem |-> m, ret |-> "E_INVAL"]
    ELSE page_insert(m, dst, m.pte[src][srcva].page, dstva, perm)

-----------------------------------------------------------------------------
(* Who refers to a page.                                                   *)

PteRefs(m, p) == {s \in Env \X Va : m.pte[s[1]][s[2]].page = p}
PdeRefs(m, p) == {s \in Env \X Pdx : m.pde[s[1]][s[2]] = p}
DirRefs(m, p) == {e \in Env : m.env_pgdir[e] = p}

\* Pages that nothing refers to and no allocation will find again.
Lost(m) == {p \in Page : /\ p \notin m.page_free_list
                         /\ PteRefs(m, p) = {} /\ PdeRefs(m, p) = {}
                         /\ DirRefs(m, p) = {}}
=============================================================================
