--------------------------- MODULE PageOpsProofs ---------------------------
(* What the routines of PageOps keep, for any number of environments,      *)
(* pages and addresses.                                                    *)
EXTENDS PageOps, FiniteSetTheorems, TLAPS

Refs(m, p) == Cardinality(PteRefs(m, p)) + Cardinality(PdeRefs(m, p))
              + Cardinality(DirRefs(m, p))

\* Nothing refers to page p.
Unused(m, p) ==
    /\ \A e \in Env, va \in Va : m.pte[e][va].page # p
    /\ \A e \in Env, x \in Pdx : m.pde[e][x] # p
    /\ \A e \in Env : m.env_pgdir[e] # p

\* Page p is no table and no directory.
NotTable(m, p) ==
    /\ \A e \in Env, x \in Pdx : m.pde[e][x] # p
    /\ \A e \in Env : m.env_pgdir[e] # p

-----------------------------------------------------------------------------
(* The invariant of the memory structures.                                 *)

Exact(m) == \A p \in Page : m.pp_ref[p] = Refs(m, p)

FreeUnused(m) == \A p \in m.page_free_list : Unused(m, p)

\* A page table or directory has one owner and is mapped nowhere.
OneOwner(m) ==
    /\ \A e, f \in Env, x, y \in Pdx :
          m.pde[e][x] # NoPage /\ m.pde[e][x] = m.pde[f][y] => e = f /\ x = y
    /\ \A e, f \in Env :
          m.env_pgdir[e] # NoPage /\ m.env_pgdir[e] = m.env_pgdir[f] => e = f
    /\ \A e, f \in Env, x \in Pdx : m.pde[e][x] # NoPage => m.pde[e][x] # m.env_pgdir[f]
    /\ \A e \in Env, va \in Va : Mapped(m, e, va) => NotTable(m, m.pte[e][va].page)

\* Entries are in a table, and tables in a directory; what is not mapped is
\* zero.
Nested(m) ==
    /\ \A e \in Env, va \in Va : Mapped(m, e, va) => HasTable(m, e, va)
    /\ \A e \in Env, va \in Va : ~Mapped(m, e, va) => m.pte[e][va] = Zero
    /\ \A e \in Env, x \in Pdx : m.pde[e][x] # NoPage => m.env_pgdir[e] # NoPage

MemInv(m) ==
    /\ m \in Memory
    /\ Exact(m)
    /\ ~m.double_free
    /\ FreeUnused(m)
    /\ OneOwner(m)
    /\ Nested(m)

-----------------------------------------------------------------------------
(* Counting.                                                               *)

\* Every address has a slot of the page directory.
LEMMA Tables == \A va \in Va : PDX[va] \in Pdx
  BY DEF Pdx

\* NoPage, the null pointer, is no page.
LEMMA NoPageIsNone == NoPage \notin Page
  BY DEF NoPage, Page

\* The entries that may refer to a page are finitely many.
LEMMA FiniteSlots ==
    /\ IsFiniteSet(Env) /\ IsFiniteSet(Env \X Va) /\ IsFiniteSet(Env \X Pdx)
  <1>1. IsFiniteSet(Env)
    BY PageAssumption
  <1>2. IsFiniteSet(Va)
    <2>1. 0 \in Int /\ NVA - 1 \in Int
      BY PageAssumption
    <2> QED BY <2>1, FS_Interval DEF Va
  <1>3. IsFiniteSet(Pdx)
    <2>1. PDX \in Surjection(Va, Pdx)
      BY PageAssumption DEF Surjection, Pdx
    <2> QED BY <1>2, <2>1, FS_Surjection
  <1> QED BY <1>1, <1>2, <1>3, FS_Product

Is(a, b) == IF a = b THEN 1 ELSE 0

\* Is counts 0 or 1.
LEMMA IsType == \A a, b : Is(a, b) \in {0, 1}
  BY DEF Is

\* Where a function has a given value.
Fibre(S, f, p) == {t \in S : f[t] = p}

\* The functions are the same but for s.
Differ(S, f, g, s) == \A t \in S : t # s => f[t] = g[t]

\* When a function changes at one point, so do the sizes of its fibres.
LEMMA OneChanges ==
    ASSUME NEW S, IsFiniteSet(S), NEW f, NEW g, NEW s \in S, NEW p, Differ(S, f, g, s)
    PROVE  Cardinality(Fibre(S, g, p)) = Cardinality(Fibre(S, f, p))
              + Is(g[s], p) - Is(f[s], p)
  <1> DEFINE F == Fibre(S, f, p)
             G == Fibre(S, g, p)
  <1>1. F \in SUBSET S /\ G \in SUBSET S
    BY DEF Fibre, Differ
  <1>2. IsFiniteSet(F) /\ IsFiniteSet(G)
    BY <1>1, FS_Subset
  <1>3. Cardinality(F) \in Nat /\ Cardinality(G) \in Nat
    BY <1>2, FS_CardinalityType
  <1>4. f[s] = p /\ g[s] = p => F = G
    BY DEF Fibre, Differ
  <1>5. f[s] # p /\ g[s] # p => F = G
    BY DEF Fibre, Differ
  <1>6. f[s] # p /\ g[s] = p => G = F \cup {s} /\ s \notin F
    BY DEF Fibre, Differ
  <1>7. f[s] = p /\ g[s] # p => F = G \cup {s} /\ s \notin G
    BY DEF Fibre, Differ
  <1> HIDE DEF F, G
  <1>8. f[s] # p /\ g[s] = p => Cardinality(G) = Cardinality(F) + 1
    BY <1>2, <1>6, FS_AddElement
  <1>9. f[s] = p /\ g[s] # p => Cardinality(F) = Cardinality(G) + 1
    BY <1>2, <1>7, FS_AddElement
  <1>10. Cardinality(G) = Cardinality(F)
              + Is(g[s], p) - Is(f[s], p)
    BY <1>3, <1>4, <1>5, <1>8, <1>9 DEF Is
  <1> QED BY <1>10 DEF F, G

\* The references to a page can be counted.
LEMMA RefsType ==
    ASSUME NEW m, NEW p
    PROVE  /\ Cardinality(PteRefs(m, p)) \in Nat /\ Cardinality(PdeRefs(m, p)) \in Nat
           /\ Cardinality(DirRefs(m, p)) \in Nat /\ Refs(m, p) \in Nat
           /\ IsFiniteSet(PteRefs(m, p)) /\ IsFiniteSet(PdeRefs(m, p))
           /\ IsFiniteSet(DirRefs(m, p))
  <1>1. /\ PteRefs(m, p) \in SUBSET (Env \X Va) /\ PdeRefs(m, p) \in SUBSET (Env \X Pdx)
        /\ DirRefs(m, p) \in SUBSET Env
    BY DEF PteRefs, PdeRefs, DirRefs
  <1>2. /\ IsFiniteSet(PteRefs(m, p)) /\ IsFiniteSet(PdeRefs(m, p))
        /\ IsFiniteSet(DirRefs(m, p))
    BY <1>1, FiniteSlots, FS_Subset
  <1>3. /\ Cardinality(PteRefs(m, p)) \in Nat /\ Cardinality(PdeRefs(m, p)) \in Nat
        /\ Cardinality(DirRefs(m, p)) \in Nat
    BY <1>2, FS_CardinalityType
  <1> QED BY <1>2, <1>3 DEF Refs

\* A count of zero means that the page is free to go.
LEMMA ZeroRefs ==
    ASSUME NEW m, NEW p
    PROVE  Refs(m, p) = 0 <=> Unused(m, p)
  <1>1. Refs(m, p) = 0 <=> /\ Cardinality(PteRefs(m, p)) = 0
                           /\ Cardinality(PdeRefs(m, p)) = 0
                           /\ Cardinality(DirRefs(m, p)) = 0
    BY RefsType DEF Refs
  <1>2. /\ Cardinality(PteRefs(m, p)) = 0 <=> PteRefs(m, p) = {}
        /\ Cardinality(PdeRefs(m, p)) = 0 <=> PdeRefs(m, p) = {}
        /\ Cardinality(DirRefs(m, p)) = 0 <=> DirRefs(m, p) = {}
    BY RefsType, FS_EmptySet
  <1>3. PteRefs(m, p) = {} <=> \A e \in Env, va \in Va : m.pte[e][va].page # p
    <2>1. \A e \in Env, va \in Va :
             m.pte[e][va].page = p <=> <<e, va>> \in PteRefs(m, p)
      BY DEF PteRefs
    <2>2. \A s \in PteRefs(m, p) : \E e \in Env, va \in Va : s = <<e, va>>
      BY DEF PteRefs
    <2>3. ASSUME PteRefs(m, p) # {} PROVE \E e \in Env, va \in Va : m.pte[e][va].page = p
      <3>1. PICK s : s \in PteRefs(m, p)
        BY <2>3
      <3> QED BY <2>1, <2>2, <3>1
    <2> QED BY <2>1, <2>3
  <1>4. PdeRefs(m, p) = {} <=> \A e \in Env, x \in Pdx : m.pde[e][x] # p
    <2>1. \A e \in Env, x \in Pdx : m.pde[e][x] = p <=> <<e, x>> \in PdeRefs(m, p)
      BY DEF PdeRefs
    <2>2. \A s \in PdeRefs(m, p) : \E e \in Env, x \in Pdx : s = <<e, x>>
      BY DEF PdeRefs
    <2>3. ASSUME PdeRefs(m, p) # {} PROVE \E e \in Env, x \in Pdx : m.pde[e][x] = p
      <3>1. PICK s : s \in PdeRefs(m, p)
        BY <2>3
      <3> QED BY <2>1, <2>2, <3>1
    <2> QED BY <2>1, <2>3
  <1>5. DirRefs(m, p) = {} <=> \A e \in Env : m.env_pgdir[e] # p
    BY DEF DirRefs
  <1> QED BY <1>1, <1>2, <1>3, <1>4, <1>5 DEF Unused

\* The page tables are the same but for one entry.
PtesDiffer(m, n, e, va) ==
    \A f \in Env, v \in Va : f # e \/ v # va => n.pte[f][v] = m.pte[f][v]

\* One entry of a page table changes.
LEMMA PteChanges ==
    ASSUME NEW m, NEW n, n.pde = m.pde, n.env_pgdir = m.env_pgdir,
           NEW e \in Env, NEW va \in Va, PtesDiffer(m, n, e, va), NEW p
    PROVE  Refs(n, p) = Refs(m, p) + Is(n.pte[e][va].page, p)
                                   - Is(m.pte[e][va].page, p)
  <1> DEFINE S == Env \X Va
             F == [s \in S |-> m.pte[s[1]][s[2]].page]
             G == [s \in S |-> n.pte[s[1]][s[2]].page]
             z == <<e, va>>
  <1>1. /\ PteRefs(m, p) = Fibre(S, F, p) /\ PteRefs(n, p) = Fibre(S, G, p)
        /\ z \in S /\ F[z] = m.pte[e][va].page /\ G[z] = n.pte[e][va].page
    BY DEF PteRefs, Fibre
  <1>2. Differ(S, F, G, z)
    BY DEF Differ, PtesDiffer
  <1>s. IsFiniteSet(S)
    BY FiniteSlots
  <1>3. PdeRefs(n, p) = PdeRefs(m, p) /\ DirRefs(n, p) = DirRefs(m, p)
    BY DEF PdeRefs, DirRefs
  <1> HIDE DEF F, G, S, z
  <1>z. z \in S
    BY <1>1
  <1>4. Cardinality(Fibre(S, G, p)) = Cardinality(Fibre(S, F, p))
            + Is(G[z], p) - Is(F[z], p)
    BY <1>z, <1>2, <1>s, OneChanges
  <1> QED BY <1>1, <1>3, <1>4, RefsType, IsType DEF Refs

\* The directories are the same but for one entry.
PdesDiffer(m, n, e, x) ==
    \A f \in Env, y \in Pdx : f # e \/ y # x => n.pde[f][y] = m.pde[f][y]

\* One entry of a page directory changes.
LEMMA PdeChanges ==
    ASSUME NEW m, NEW n, n.pte = m.pte, n.env_pgdir = m.env_pgdir,
           NEW e \in Env, NEW x \in Pdx, PdesDiffer(m, n, e, x), NEW p
    PROVE  Refs(n, p) = Refs(m, p) + Is(n.pde[e][x], p)
                                   - Is(m.pde[e][x], p)
  <1> DEFINE S == Env \X Pdx
             F == [s \in S |-> m.pde[s[1]][s[2]]]
             G == [s \in S |-> n.pde[s[1]][s[2]]]
             z == <<e, x>>
  <1>1. /\ PdeRefs(m, p) = Fibre(S, F, p) /\ PdeRefs(n, p) = Fibre(S, G, p)
        /\ z \in S /\ F[z] = m.pde[e][x] /\ G[z] = n.pde[e][x]
    BY DEF PdeRefs, Fibre
  <1>2. Differ(S, F, G, z)
    BY DEF Differ, PdesDiffer
  <1>s. IsFiniteSet(S)
    BY FiniteSlots
  <1>3. PteRefs(n, p) = PteRefs(m, p) /\ DirRefs(n, p) = DirRefs(m, p)
    BY DEF PteRefs, DirRefs
  <1> HIDE DEF F, G, S, z
  <1>z. z \in S
    BY <1>1
  <1>4. Cardinality(Fibre(S, G, p)) = Cardinality(Fibre(S, F, p))
            + Is(G[z], p) - Is(F[z], p)
    BY <1>z, <1>2, <1>s, OneChanges
  <1> QED BY <1>1, <1>3, <1>4, RefsType, IsType DEF Refs

\* The directories of the environments are the same but for one.
DirsDiffer(m, n, e) == \A f \in Env : f # e => n.env_pgdir[f] = m.env_pgdir[f]

\* The directory of one environment changes.
LEMMA DirChanges ==
    ASSUME NEW m, NEW n, n.pte = m.pte, n.pde = m.pde,
           NEW e \in Env,
           DirsDiffer(m, n, e), NEW p
    PROVE  Refs(n, p) = Refs(m, p) + Is(n.env_pgdir[e], p)
                                   - Is(m.env_pgdir[e], p)
  <1>1. PteRefs(n, p) = PteRefs(m, p) /\ PdeRefs(n, p) = PdeRefs(m, p)
    BY DEF PteRefs, PdeRefs
  <1> DEFINE F == m.env_pgdir
             G == n.env_pgdir
  <1>a. Differ(Env, F, G, e)
    BY DEF Differ, DirsDiffer
  <1> HIDE DEF F, G
  <1>2. Cardinality(Fibre(Env, G, p)) = Cardinality(Fibre(Env, F, p))
            + Is(G[e], p) - Is(F[e], p)
    BY <1>a, FiniteSlots, OneChanges
  <1>3. Cardinality(DirRefs(n, p)) = Cardinality(DirRefs(m, p))
            + Is(n.env_pgdir[e], p) - Is(m.env_pgdir[e], p)
    BY <1>2 DEF DirRefs, Fibre, F, G
  <1> QED BY <1>1, <1>3, RefsType, IsType DEF Refs

-----------------------------------------------------------------------------
(* The fields of the memory structures.                                    *)

\* The parts of a memory and their types.
LEMMA Fields ==
    ASSUME NEW m \in Memory
    PROVE  /\ m.page_free_list \in SUBSET Page
           /\ m.pp_ref \in [Page -> 0..MaxRef]
           /\ m.env_pgdir \in [Env -> Page \cup {NoPage}]
           /\ m.pde \in [Env -> [Pdx -> Page \cup {NoPage}]]
           /\ m.pte \in [Env -> [Va -> PTE]]
           /\ m.double_free \in BOOLEAN
           /\ DOMAIN m = {"page_free_list", "pp_ref", "env_pgdir", "pde", "pte", "double_free"}
  BY DEF Memory

\* The types of the entries of an environment.
LEMMA Entries ==
    ASSUME NEW m \in Memory, NEW e \in Env
    PROVE  /\ \A va \in Va : /\ m.pte[e][va] \in PTE
                             /\ m.pte[e][va].page \in Page \cup {NoPage}
                             /\ m.pde[e][PDX[va]] \in Page \cup {NoPage}
           /\ \A x \in Pdx : m.pde[e][x] \in Page \cup {NoPage}
           /\ m.env_pgdir[e] \in Page \cup {NoPage}
  <1>1. \A va \in Va : m.pte[e][va] \in PTE
    BY Fields
  <1>2. \A x \in Pdx : m.pde[e][x] \in Page \cup {NoPage}
    BY Fields
  <1>3. m.env_pgdir[e] \in Page \cup {NoPage}
    BY Fields
  <1> QED BY <1>1, <1>2, <1>3, Tables DEF PTE

\* page_alloc takes a page of the free list.
LEMMA FirstFreeIs ==
    ASSUME NEW m \in Memory, HasFree(m)
    PROVE  FirstFree(m) \in m.page_free_list /\ FirstFree(m) \in Page
  <1>1. \E p \in Page : p \in m.page_free_list
    BY Fields DEF HasFree
  <1> QED BY <1>1 DEF FirstFree

\* page_alloc takes one page off the free list and touches nothing else.
LEMMA AllocEffect ==
    ASSUME NEW m \in Memory, HasFree(m), NEW n, n = page_alloc(m)
    PROVE  /\ n \in Memory
           /\ n.page_free_list = m.page_free_list \ {FirstFree(m)}
           /\ n.pp_ref = m.pp_ref /\ n.env_pgdir = m.env_pgdir
           /\ n.pde = m.pde /\ n.pte = m.pte /\ n.double_free = m.double_free
  BY DEF page_alloc, Memory

\* page_insert and pgdir_walk count a reference more, below the limit of pp_ref.
LEMMA IncrefEffect ==
    ASSUME NEW m \in Memory, NEW p \in Page, m.pp_ref[p] < MaxRef,
           NEW n, n = page_incref(m, p)
    PROVE  /\ n \in Memory
           /\ n.pp_ref = [m.pp_ref EXCEPT ![p] = m.pp_ref[p] + 1]
           /\ n.page_free_list = m.page_free_list /\ n.env_pgdir = m.env_pgdir
           /\ n.pde = m.pde /\ n.pte = m.pte /\ n.double_free = m.double_free
  <1>1. m.pp_ref[p] \in 0..MaxRef /\ m.pp_ref \in [Page -> 0..MaxRef]
    BY Fields
  <1>2. m.pp_ref[p] + 1 \in 0..MaxRef /\ Incr(m.pp_ref[p]) = m.pp_ref[p] + 1
    BY <1>1, PageAssumption DEF Incr
  <1>3. n = [m EXCEPT !.pp_ref = [m.pp_ref EXCEPT ![p] = m.pp_ref[p] + 1]]
    BY <1>2 DEF page_incref
  <1>4. [m.pp_ref EXCEPT ![p] = m.pp_ref[p] + 1] \in [Page -> 0..MaxRef]
    BY <1>1, <1>2
  <1> QED BY <1>3, <1>4 DEF Memory

\* A page that loses its last reference goes back to the list.
LEMMA DecrefEffect ==
    ASSUME NEW m \in Memory, NEW p \in Page, m.pp_ref[p] # 0, p \notin m.page_free_list,
           NEW n, n = page_decref(m, p)
    PROVE  /\ n \in Memory
           /\ n.pp_ref = [m.pp_ref EXCEPT ![p] = m.pp_ref[p] - 1]
           /\ n.page_free_list = IF m.pp_ref[p] = 1 THEN m.page_free_list \cup {p}
                                                    ELSE m.page_free_list
           /\ n.env_pgdir = m.env_pgdir
           /\ n.pde = m.pde /\ n.pte = m.pte /\ n.double_free = m.double_free
  <1>1. m.pp_ref[p] \in 0..MaxRef /\ m.pp_ref \in [Page -> 0..MaxRef]
    BY Fields
  <1>2. m.pp_ref[p] - 1 \in 0..MaxRef /\ Decr(m.pp_ref[p]) = m.pp_ref[p] - 1
    BY <1>1, PageAssumption DEF Decr
  <1> DEFINE R == [m.pp_ref EXCEPT ![p] = m.pp_ref[p] - 1]
             d == [m EXCEPT !.pp_ref = R]
  <1>3. R \in [Page -> 0..MaxRef] /\ R[p] = m.pp_ref[p] - 1
    BY <1>1, <1>2
  <1>4. [m EXCEPT !.pp_ref[p] = Decr(@)] = d
    BY <1>2
  <1> HIDE DEF R
  <1>5. /\ d \in Memory /\ d.pp_ref = R
        /\ d.page_free_list = m.page_free_list /\ d.env_pgdir = m.env_pgdir
        /\ d.pde = m.pde /\ d.pte = m.pte /\ d.double_free = m.double_free
    BY <1>3 DEF Memory
  <1> HIDE DEF d
  <1>6. n = IF R[p] = 0 THEN page_free(d, p) ELSE d
    BY <1>4, <1>5 DEF page_decref
  <1>7. CASE m.pp_ref[p] = 1
    <2>1. n = [d EXCEPT !.page_free_list = m.page_free_list \cup {p}]
      BY <1>1, <1>3, <1>5, <1>6, <1>7 DEF page_free
    <2>2. m.page_free_list \cup {p} \in SUBSET Page
      BY Fields
    <2> QED BY <1>5, <1>7, <2>1, <2>2 DEF Memory, R
  <1>8. CASE m.pp_ref[p] # 1
    <2>1. n = d
      BY <1>1, <1>3, <1>6, <1>8
    <2> QED BY <1>5, <1>8, <2>1 DEF R
  <1> QED BY <1>7, <1>8

\* The page tables with entry z for an address.
Entered(pte, e, va, z) == [pte EXCEPT ![e] = [pte[e] EXCEPT ![va] = z]]

\* page_remove: the entry goes, and with it the reference.
LEMMA RemoveEffect ==
    ASSUME NEW m \in Memory, NEW e \in Env, NEW va \in Va,
           HasTable(m, e, va), Mapped(m, e, va),
           NEW p \in Page, p = m.pte[e][va].page,
           m.pp_ref[p] # 0, p \notin m.page_free_list,
           NEW n, n = page_remove(m, e, va)
    PROVE  /\ n \in Memory
           /\ n.pp_ref = [m.pp_ref EXCEPT ![p] = m.pp_ref[p] - 1]
           /\ n.page_free_list = IF m.pp_ref[p] = 1 THEN m.page_free_list \cup {p}
                                                    ELSE m.page_free_list
           /\ n.pte = Entered(m.pte, e, va, Zero)
           /\ n.env_pgdir = m.env_pgdir
           /\ n.pde = m.pde /\ n.double_free = m.double_free
  <1> DEFINE d == page_decref(m, p)
             T == [m.pte EXCEPT ![e] = [m.pte[e] EXCEPT ![va] = Zero]]
  <1>1. /\ d \in Memory
        /\ d.pp_ref = [m.pp_ref EXCEPT ![p] = m.pp_ref[p] - 1]
        /\ d.page_free_list = IF m.pp_ref[p] = 1 THEN m.page_free_list \cup {p}
                                                 ELSE m.page_free_list
        /\ d.env_pgdir = m.env_pgdir
        /\ d.pde = m.pde /\ d.pte = m.pte /\ d.double_free = m.double_free
    BY DecrefEffect
  <1>2. n = [d EXCEPT !.pte = [d.pte EXCEPT ![e] = [d.pte[e] EXCEPT ![va] = Zero]]]
    BY DEF page_remove
  <1> HIDE DEF d
  <1>3. n = [d EXCEPT !.pte = T]
    BY <1>1, <1>2
  <1>4. T \in [Env -> [Va -> PTE]]
    <2>1. m.pte \in [Env -> [Va -> PTE]] /\ m.pte[e] \in [Va -> PTE]
      BY Fields
    <2>2. Zero \in PTE
      BY DEF Zero, PTE
    <2>3. [m.pte[e] EXCEPT ![va] = Zero] \in [Va -> PTE]
      BY <2>1, <2>2
    <2> QED BY <2>1, <2>3
  <1> HIDE DEF T
  <1>5. /\ n \in Memory /\ n.pte = T /\ n.pp_ref = d.pp_ref /\ n.pde = d.pde
        /\ n.page_free_list = d.page_free_list /\ n.env_pgdir = d.env_pgdir
        /\ n.double_free = d.double_free
    BY <1>1, <1>3, <1>4 DEF Memory
  <1> QED BY <1>1, <1>5 DEF T, Entered

-----------------------------------------------------------------------------
(* Pages that nothing will find again, and pages in use.                   *)

\* A page is lost when it is neither free nor counted.
LEMMA LostIs ==
    ASSUME NEW m, MemInv(m)
    PROVE  \A p \in Page : p \in Lost(m) <=> p \notin m.page_free_list /\ m.pp_ref[p] = 0
  <1> SUFFICES ASSUME NEW p \in Page
               PROVE  p \in Lost(m) <=> p \notin m.page_free_list /\ m.pp_ref[p] = 0
    OBVIOUS
  <1>1. m.pp_ref[p] = 0 <=> Refs(m, p) = 0
    BY DEF MemInv, Exact
  <1>2. Refs(m, p) = 0 <=> PteRefs(m, p) = {} /\ PdeRefs(m, p) = {} /\ DirRefs(m, p) = {}
    <2>1. Refs(m, p) = 0 <=> /\ Cardinality(PteRefs(m, p)) = 0
                             /\ Cardinality(PdeRefs(m, p)) = 0
                             /\ Cardinality(DirRefs(m, p)) = 0
      BY RefsType DEF Refs
    <2> QED BY <2>1, RefsType, FS_EmptySet
  <1> QED BY <1>1, <1>2 DEF Lost

\* The count is zero when the page is unused.
LEMMA CountIs ==
    ASSUME NEW m, MemInv(m), NEW p \in Page
    PROVE  m.pp_ref[p] \in Nat /\ (m.pp_ref[p] = 0 <=> Unused(m, p))
  BY ZeroRefs, Fields, PageAssumption DEF MemInv, Exact

\* A page that is mapped.
LEMMA MappedPage ==
    ASSUME NEW m, MemInv(m), NEW e \in Env, NEW va \in Va, Mapped(m, e, va),
           NEW p, p = m.pte[e][va].page
    PROVE  /\ p \in Page /\ p \notin m.page_free_list /\ m.pp_ref[p] # 0
           /\ NotTable(m, p) /\ HasTable(m, e, va) /\ p \notin Lost(m)
  <1>1. p \in Page
    BY Entries DEF MemInv, Mapped
  <1>2. ~Unused(m, p)
    BY DEF Unused
  <1>3. p \notin m.page_free_list
    BY <1>2 DEF MemInv, FreeUnused
  <1>4. m.pp_ref[p] # 0
    BY <1>1, <1>2, CountIs
  <1>5. NotTable(m, p) /\ HasTable(m, e, va)
    BY DEF MemInv, OneOwner, Nested
  <1>6. p \notin Lost(m)
    BY <1>1, <1>4, LostIs
  <1> QED BY <1>1, <1>3, <1>4, <1>5, <1>6

\* The first of the free list.
LEMMA FreePage ==
    ASSUME NEW m, MemInv(m), NEW p \in m.page_free_list
    PROVE  p \in Page /\ Unused(m, p) /\ NotTable(m, p) /\ m.pp_ref[p] = 0
  <1>1. p \in Page
    BY Fields DEF MemInv
  <1>2. Unused(m, p)
    BY DEF MemInv, FreeUnused
  <1> QED BY <1>1, <1>2, CountIs DEF Unused, NotTable

-----------------------------------------------------------------------------
(* page_alloc, page_remove and page_insert.                                *)

\* page_alloc keeps MemInv, and the page it returns has no other use.
LEMMA AllocKeeps ==
    ASSUME NEW m, MemInv(m), HasFree(m), NEW n, n = page_alloc(m),
           NEW p, p = FirstFree(m)
    PROVE  /\ MemInv(n)
           /\ n.pp_ref = m.pp_ref /\ n.env_pgdir = m.env_pgdir
           /\ n.pde = m.pde /\ n.pte = m.pte
           /\ n.page_free_list = m.page_free_list \ {p}
           /\ p \in Page /\ p \notin n.page_free_list /\ n.pp_ref[p] = 0 /\ Unused(n, p)
           /\ \A q \in Page : q \in Lost(n) <=> q \in Lost(m) \/ q = p
  <1>1. /\ n \in Memory
        /\ n.page_free_list = m.page_free_list \ {p}
        /\ n.pp_ref = m.pp_ref /\ n.env_pgdir = m.env_pgdir
        /\ n.pde = m.pde /\ n.pte = m.pte /\ n.double_free = m.double_free
    BY AllocEffect DEF MemInv
  <1>2. \A q : Unused(n, q) <=> Unused(m, q)
    BY <1>1 DEF Unused
  <1>3. \A q : Refs(n, q) = Refs(m, q)
    BY <1>1 DEF Refs, PteRefs, PdeRefs, DirRefs
  <1>4. Exact(n)
    BY <1>1, <1>3 DEF MemInv, Exact
  <1>5. FreeUnused(n)
    BY <1>1, <1>2 DEF MemInv, FreeUnused
  <1>6. OneOwner(n) /\ Nested(n)
    BY <1>1 DEF MemInv, OneOwner, Nested, NotTable, Mapped, HasTable
  <1>7. MemInv(n)
    BY <1>1, <1>4, <1>5, <1>6 DEF MemInv
  <1>8. p \in m.page_free_list
    BY FirstFreeIs DEF MemInv
  <1>9. p \in Page /\ Unused(m, p) /\ m.pp_ref[p] = 0
    BY <1>8, FreePage
  <1>10. \A q \in Page : q \in Lost(n) <=> q \in Lost(m) \/ q = p
    BY <1>1, <1>7, <1>9, LostIs
  <1> QED BY <1>1, <1>2, <1>7, <1>9, <1>10

\* A store in a page table changes that entry alone.
LEMMA EnteredIs ==
    ASSUME NEW m \in Memory, NEW e \in Env, NEW va \in Va, NEW z,
           NEW n, n.pte = Entered(m.pte, e, va, z)
    PROVE  n.pte[e][va] = z /\ PtesDiffer(m, n, e, va)
  BY Fields DEF Entered, PtesDiffer

\* The counts when a reference to page a becomes one to page b.
Moved(m, n, a, b) ==
    \A q \in Page : n.pp_ref[q] = m.pp_ref[q] + Is(b, q) - Is(a, q)

\* Only pages without a reference come to the free list.
FreedUnused(m, n) ==
    \A q \in n.page_free_list : q \in m.page_free_list \/ n.pp_ref[q] = 0

\* What follows when the entry of one address changes and the counts follow.
LEMMA EntryChanges ==
    ASSUME NEW m, MemInv(m), NEW n \in Memory,
           NEW e \in Env, NEW va \in Va, NEW z \in PTE, HasTable(m, e, va),
           n.pde = m.pde, n.env_pgdir = m.env_pgdir, n.double_free = m.double_free,
           n.pte = Entered(m.pte, e, va, z),
           z.page = NoPage => z = Zero,
           z.page # NoPage => z.page \notin n.page_free_list /\ NotTable(m, z.page),
           Moved(m, n, m.pte[e][va].page, z.page), FreedUnused(m, n)
    PROVE  MemInv(n)
  <1>0. n.pte[e][va] = z /\ PtesDiffer(m, n, e, va)
    BY EnteredIs DEF MemInv
  <1>1. /\ n.pte[e][va] = z
        /\ \A f \in Env, v \in Va : f # e \/ v # va => n.pte[f][v] = m.pte[f][v]
    BY <1>0 DEF PtesDiffer
  <1>2. Exact(n)
    <2> SUFFICES ASSUME NEW q \in Page PROVE n.pp_ref[q] = Refs(n, q)
      BY DEF Exact
    <2>1. Refs(n, q) = Refs(m, q) + Is(n.pte[e][va].page, q) - Is(m.pte[e][va].page, q)
      BY <1>0, PteChanges
    <2>2. m.pp_ref[q] = Refs(m, q)
      BY DEF MemInv, Exact
    <2>3. n.pp_ref[q] = m.pp_ref[q] + Is(z.page, q) - Is(m.pte[e][va].page, q)
      BY DEF Moved
    <2> QED BY <1>1, <2>1, <2>2, <2>3
  <1>3. \A q : NotTable(n, q) <=> NotTable(m, q)
    BY DEF NotTable
  <1>4. FreeUnused(n)
    <2> SUFFICES ASSUME NEW q \in n.page_free_list PROVE Unused(n, q)
      BY DEF FreeUnused
    <2>1. q \in Page
      BY Fields
    <2>a. q \in m.page_free_list \/ n.pp_ref[q] = 0
      BY DEF FreedUnused
    <2>2. CASE n.pp_ref[q] = 0
      BY <1>2, <2>1, <2>2, ZeroRefs DEF Exact
    <2>3. CASE q \in m.page_free_list
      <3>1. Unused(m, q)
        BY <2>3 DEF MemInv, FreeUnused
      <3>2. z.page # q
        BY <2>1, NoPageIsNone
      <3>3. \A f \in Env, v \in Va : n.pte[f][v].page # q
        BY <1>1, <3>1, <3>2 DEF Unused
      <3> QED BY <3>1, <3>3 DEF Unused
    <2> QED BY <2>a, <2>2, <2>3
  <1>5. OneOwner(n)
    <2>1. \A f \in Env, v \in Va : Mapped(n, f, v) => NotTable(n, n.pte[f][v].page)
      BY <1>1, <1>3 DEF MemInv, OneOwner, Mapped
    <2> QED BY <2>1 DEF MemInv, OneOwner
  <1>6. Nested(n)
    <2>1. \A f \in Env, v \in Va : Mapped(n, f, v) => HasTable(n, f, v)
      BY <1>1 DEF MemInv, Nested, Mapped, HasTable
    <2>2. \A f \in Env, v \in Va : ~Mapped(n, f, v) => n.pte[f][v] = Zero
      BY <1>1 DEF MemInv, Nested, Mapped
    <2> QED BY <2>1, <2>2 DEF MemInv, Nested
  <1> QED BY <1>2, <1>4, <1>5, <1>6 DEF MemInv

\* page_remove keeps MemInv and loses no page.
LEMMA RemoveKeeps ==
    ASSUME NEW m, MemInv(m), NEW e \in Env, NEW va \in Va,
           NEW n, n = page_remove(m, e, va)
    PROVE  /\ MemInv(n)
           /\ n.env_pgdir = m.env_pgdir /\ n.pde = m.pde
           /\ n.pte = Entered(m.pte, e, va, Zero)
           /\ Lost(n) = Lost(m)
  <1>1. CASE ~Mapped(m, e, va)
    <2>1. n = m
      BY <1>1 DEF page_remove
    <2>2. m.pte[e][va] = Zero
      BY <1>1 DEF MemInv, Nested
    <2>3. m.pte = Entered(m.pte, e, va, Zero)
      BY <2>2, Fields DEF MemInv, Entered
    <2> QED BY <2>1, <2>3
  <1>2. CASE Mapped(m, e, va)
    <2> DEFINE p == m.pte[e][va].page
    <2>1. p \in Page /\ p \notin m.page_free_list /\ m.pp_ref[p] # 0 /\ HasTable(m, e, va)
      BY <1>2, MappedPage
    <2>2. m \in Memory
      BY DEF MemInv
    <2>3. /\ n \in Memory
          /\ n.pp_ref = [m.pp_ref EXCEPT ![p] = m.pp_ref[p] - 1]
          /\ n.page_free_list = IF m.pp_ref[p] = 1 THEN m.page_free_list \cup {p}
                                                   ELSE m.page_free_list
          /\ n.pte = Entered(m.pte, e, va, Zero)
          /\ n.env_pgdir = m.env_pgdir
          /\ n.pde = m.pde /\ n.double_free = m.double_free
      BY <1>2, <2>1, <2>2, RemoveEffect
    <2> HIDE DEF p
    <2>4. \A q \in Page : m.pp_ref[q] \in Nat
      BY CountIs
    <2>5. /\ n.pp_ref[p] = m.pp_ref[p] - 1
          /\ \A q \in Page : q # p => n.pp_ref[q] = m.pp_ref[q]
      BY <2>1, <2>2, <2>3, Fields
    <2>6. Moved(m, n, m.pte[e][va].page, Zero.page)
      BY <2>4, <2>5, NoPageIsNone DEF Is, Zero, p, Moved
    <2>7. Zero \in PTE /\ Zero.page = NoPage
      BY DEF Zero, PTE
    <2>8. FreedUnused(m, n)
      BY <2>3, <2>5 DEF FreedUnused
    <2>9. MemInv(n)
      BY <2>1, <2>3, <2>6, <2>7, <2>8, EntryChanges
    <2>10. \A q \in Page : q \in Lost(n) <=> q \in Lost(m)
      <3>1. \A q \in Page : q # p => (q \in Lost(n) <=> q \in Lost(m))
        <4>1. \A q \in Page : q # p => (q \in n.page_free_list <=> q \in m.page_free_list)
          BY <2>3
        <4> QED BY <2>5, <2>9, <4>1, LostIs
      <3>2. p \notin Lost(m)
        BY <2>1, LostIs
      <3>3. p \notin Lost(n)
        BY <2>1, <2>3, <2>4, <2>5, <2>9, LostIs
      <3> QED BY <3>1, <3>2, <3>3
    <2>11. Lost(n) = Lost(m)
      BY <2>10 DEF Lost
    <2> QED BY <2>3, <2>9, <2>11
  <1> QED BY <1>1, <1>2

\* An entry is written over.
LEMMA EnterTwice ==
    ASSUME NEW T \in [Env -> [Va -> PTE]], NEW e \in Env, NEW va \in Va, NEW y, NEW z
    PROVE  Entered(Entered(T, e, va, y), e, va, z) = Entered(T, e, va, z)
  <1> DEFINE U == Entered(T, e, va, y)
  <1>1. T[e] \in [Va -> PTE]
    OBVIOUS
  <1>2. U[e] = [T[e] EXCEPT ![va] = y]
    BY DEF Entered
  <1>3. [U[e] EXCEPT ![va] = z] = [T[e] EXCEPT ![va] = z]
    BY <1>1, <1>2
  <1> QED BY <1>3 DEF Entered

\* page_insert of an allocated page that is no table keeps MemInv.
LEMMA SetPageKeeps ==
    ASSUME NEW m, MemInv(m), NEW e \in Env, NEW va \in Va, HasTable(m, e, va),
           NEW p \in Page, p \notin m.page_free_list, NotTable(m, p),
           m.pp_ref[p] < MaxRef, NEW perm \in SUBSET Flag,
           NEW n, n = set_page(m, e, p, va, perm)
    PROVE  /\ MemInv(n)
           /\ n.env_pgdir = m.env_pgdir /\ n.pde = m.pde
           /\ n.pte = Entered(m.pte, e, va, [page |-> p, perm |-> perm])
           /\ \A q \in Page : q \in Lost(n) <=> q \in Lost(m) /\ q # p
           /\ \A q \in Page : q # p => n.pp_ref[q] <= m.pp_ref[q]
  <1> DEFINE i == page_incref(m, p)
             k == page_remove(i, e, va)
             old == m.pte[e][va].page
             z == [page |-> p, perm |-> perm]
  <1>0. m \in Memory /\ MaxRef \in Nat
    BY PageAssumption DEF MemInv
  <1>1. /\ i \in Memory
        /\ i.pp_ref = [m.pp_ref EXCEPT ![p] = m.pp_ref[p] + 1]
        /\ i.page_free_list = m.page_free_list /\ i.env_pgdir = m.env_pgdir
        /\ i.pde = m.pde /\ i.pte = m.pte /\ i.double_free = m.double_free
    BY <1>0, IncrefEffect
  <1>2. n = [k EXCEPT !.pte = [k.pte EXCEPT ![e] = [k.pte[e] EXCEPT ![va] = z]]]
    BY DEF set_page
  <1> HIDE DEF i
  <1>3. \A q \in Page : /\ m.pp_ref[q] \in Nat
                        /\ i.pp_ref[q] = m.pp_ref[q] + Is(p, q)
    <2>1. \A q \in Page : m.pp_ref[q] \in Nat
      BY CountIs
    <2> QED BY <1>0, <1>1, <2>1, Fields DEF Is
  <1>4. old \in Page \cup {NoPage} /\ (Mapped(m, e, va) <=> old # NoPage)
    BY <1>0, Entries DEF Mapped
  <1>5. old # NoPage => old \in Page /\ old \notin m.page_free_list /\ m.pp_ref[old] # 0
    BY <1>4, MappedPage
  <1>6. HasTable(i, e, va) /\ (Mapped(i, e, va) <=> Mapped(m, e, va))
    BY <1>1 DEF HasTable, Mapped
  <1> HIDE DEF k, old, z
  \* After page_remove.
  <1>7. /\ k \in Memory
        /\ k.pde = m.pde /\ k.env_pgdir = m.env_pgdir /\ k.double_free = m.double_free
        /\ \A q \in Page : k.pp_ref[q] = i.pp_ref[q] - Is(old, q)
        /\ \A q \in Page : q \in k.page_free_list <=>
              q \in m.page_free_list \/ (q = old /\ i.pp_ref[q] = 1)
        /\ k.pte = m.pte \/ k.pte = Entered(m.pte, e, va, Zero)
    <2>1. CASE old = NoPage
      <3>1. k = i
        BY <1>4, <1>6, <2>1 DEF page_remove, k
      <3>2. \A q \in Page : Is(old, q) = 0 /\ q # old
        BY <2>1, NoPageIsNone DEF Is
      <3>3. \A q \in Page : k.pp_ref[q] = i.pp_ref[q] - Is(old, q)
        BY <1>3, <3>1, <3>2, IsType
      <3>4. \A q \in Page : q \in k.page_free_list <=>
              q \in m.page_free_list \/ (q = old /\ i.pp_ref[q] = 1)
        BY <1>1, <3>1, <3>2
      <3> QED BY <1>1, <3>1, <3>3, <3>4
    <2>2. CASE old # NoPage
      <3>1. i.pte[e][va].page = old /\ old \in Page /\ old \notin i.page_free_list
        BY <1>1, <1>5, <2>2 DEF old
      <3>2. i.pp_ref[old] # 0
        BY <1>3, <1>5, <2>2, IsType
      <3>3. Mapped(i, e, va) /\ HasTable(i, e, va)
        BY <1>4, <1>6, <2>2
      <3>4. /\ k \in Memory
            /\ k.pp_ref = [i.pp_ref EXCEPT ![old] = i.pp_ref[old] - 1]
            /\ k.page_free_list = IF i.pp_ref[old] = 1 THEN i.page_free_list \cup {old}
                                                       ELSE i.page_free_list
            /\ k.pte = Entered(i.pte, e, va, Zero)
            /\ k.env_pgdir = i.env_pgdir
            /\ k.pde = i.pde /\ k.double_free = i.double_free
        <4>1. k = page_remove(i, e, va)
          BY DEF k
        <4>2. i \in Memory
          BY <1>1
        <4> QED BY <3>1, <3>2, <3>3, <4>1, <4>2, RemoveEffect
      <3>5. \A q \in Page : k.pp_ref[q] = i.pp_ref[q] - Is(old, q)
        <4>1. \A q \in Page : i.pp_ref[q] \in Nat
          BY <1>3, IsType
        <4> QED BY <1>1, <3>1, <3>4, <4>1, Fields DEF Is
      <3>6. k.pte = Entered(m.pte, e, va, Zero)
        BY <1>1, <3>4 DEF Entered
      <3>7. \A q \in Page : q \in k.page_free_list <=>
              q \in m.page_free_list \/ (q = old /\ i.pp_ref[q] = 1)
        BY <1>1, <3>4
      <3> QED BY <1>1, <3>4, <3>5, <3>6, <3>7
    <2> QED BY <2>1, <2>2
  <1>8. z \in PTE /\ z.page = p /\ p # NoPage
    BY NoPageIsNone DEF PTE, z
  <1>9. [k.pte EXCEPT ![e] = [k.pte[e] EXCEPT ![va] = z]] = Entered(m.pte, e, va, z)
    <2>1. m.pte \in [Env -> [Va -> PTE]]
      BY <1>0, Fields
    <2>2. Entered(k.pte, e, va, z) = Entered(m.pte, e, va, z)
      BY <1>7, <2>1, EnterTwice
    <2> QED BY <2>2 DEF Entered
  <1>10. Entered(m.pte, e, va, z) \in [Env -> [Va -> PTE]]
    <2>1. m.pte \in [Env -> [Va -> PTE]] /\ m.pte[e] \in [Va -> PTE]
      BY <1>0, Fields
    <2>2. [m.pte[e] EXCEPT ![va] = z] \in [Va -> PTE]
      BY <1>8, <2>1
    <2> QED BY <2>1, <2>2 DEF Entered
  <1>11. n = [k EXCEPT !.pte = Entered(m.pte, e, va, z)]
    BY <1>2, <1>9
  <1>12. /\ n \in Memory /\ n.pte = Entered(m.pte, e, va, z)
         /\ n.pp_ref = k.pp_ref /\ n.page_free_list = k.page_free_list
         /\ n.env_pgdir = k.env_pgdir /\ n.pde = k.pde /\ n.double_free = k.double_free
    BY <1>7, <1>10, <1>11 DEF Memory
  <1>13. \A q \in Page : n.pp_ref[q] = m.pp_ref[q] + Is(p, q) - Is(old, q)
    BY <1>3, <1>7, <1>12, IsType
  <1>14. Moved(m, n, m.pte[e][va].page, z.page)
    BY <1>8, <1>13 DEF Moved, old
  <1>15. \A q \in Page : q \in n.page_free_list <=>
            q \in m.page_free_list \/ (q = old /\ m.pp_ref[q] + Is(p, q) = 1)
    BY <1>3, <1>7, <1>12
  <1>16. FreedUnused(m, n)
    <2> SUFFICES ASSUME NEW q \in n.page_free_list, q \notin m.page_free_list
                 PROVE  n.pp_ref[q] = 0
      BY DEF FreedUnused
    <2>1. q \in Page
      BY <1>12, Fields
    <2>2. q = old /\ m.pp_ref[q] + Is(p, q) = 1
      BY <1>15, <2>1
    <2>3. n.pp_ref[q] = m.pp_ref[q] + Is(p, q) - 1
      BY <1>13, <2>1, <2>2 DEF Is
    <2>4. m.pp_ref[q] \in Nat /\ Is(p, q) \in {0, 1}
      BY <1>3, <2>1, IsType
    <2> QED BY <2>2, <2>3, <2>4
  <1>17. p \notin n.page_free_list
    <2>1. p # old \/ m.pp_ref[p] + 1 # 1
      BY <1>3, <1>4, <1>5, <1>8
    <2>2. Is(p, p) = 1
      BY DEF Is
    <2> QED BY <1>15, <2>1, <2>2
  <1>18. MemInv(n)
    BY <1>7, <1>8, <1>12, <1>14, <1>16, <1>17, EntryChanges
  <1>19. \A q \in Page : q \in Lost(n) <=> q \in Lost(m) /\ q # p
    <2> SUFFICES ASSUME NEW q \in Page PROVE q \in Lost(n) <=> q \in Lost(m) /\ q # p
      OBVIOUS
    <2>1. CASE q = p
      <3>1. Is(p, q) = 1 /\ m.pp_ref[q] \in Nat /\ (old = q => m.pp_ref[q] # 0)
        BY <1>3, <1>5, <1>8, <2>1 DEF Is
      <3>2. n.pp_ref[q] # 0
        BY <1>13, <3>1 DEF Is
      <3> QED BY <1>18, <2>1, <3>2, LostIs
    <2>2. CASE q # p /\ q # old
      <3>1. n.pp_ref[q] = m.pp_ref[q] /\ (q \in n.page_free_list <=> q \in m.page_free_list)
        BY <1>3, <1>13, <1>15, <2>2 DEF Is
      <3> QED BY <1>18, <2>2, <3>1, LostIs
    <2>3. CASE q # p /\ q = old
      <3>1. q # NoPage /\ m.pp_ref[q] # 0 /\ m.pp_ref[q] \in Nat /\ Is(p, q) = 0
        BY <1>3, <1>5, <2>3, NoPageIsNone DEF Is
      <3>2. n.pp_ref[q] = m.pp_ref[q] - 1
        BY <1>13, <2>3, <3>1 DEF Is
      <3>3. m.pp_ref[q] = 1 => q \in n.page_free_list
        BY <1>15, <2>3, <3>1
      <3>4. q \notin Lost(m)
        BY <3>1, LostIs
      <3>5. q \notin Lost(n)
        BY <1>18, <3>1, <3>2, <3>3, LostIs
      <3> QED BY <3>4, <3>5
    <2> QED BY <2>1, <2>2, <2>3
  <1>20. \A q \in Page : q # p => n.pp_ref[q] <= m.pp_ref[q]
    BY <1>3, <1>13 DEF Is
  <1> QED BY <1>7, <1>12, <1>18, <1>19, <1>20 DEF z

-----------------------------------------------------------------------------
(* Page tables and directories come and go.                                *)

\* Only page p changes its count or its place on the list.
OthersStay(m, n, p) ==
    \A q \in Page : q # p => /\ n.pp_ref[q] = m.pp_ref[q]
                             /\ q \in n.page_free_list <=> q \in m.page_free_list

\* One page changes its count or its place on the list, and is not lost.
LEMMA SameLost ==
    ASSUME NEW m, MemInv(m), NEW n, MemInv(n), NEW p \in Page,
           OthersStay(m, n, p),
           p \in m.page_free_list \/ m.pp_ref[p] # 0,
           p \in n.page_free_list \/ n.pp_ref[p] # 0
    PROVE  Lost(n) = Lost(m)
  <1>1. p \notin Lost(m) /\ p \notin Lost(n)
    BY LostIs
  <1>2. \A q \in Page : q # p => (q \in Lost(n) <=> q \in Lost(m))
    BY LostIs DEF OthersStay
  <1>3. Lost(m) \subseteq Page /\ Lost(n) \subseteq Page
    BY DEF Lost
  <1> QED BY <1>1, <1>2, <1>3

\* A page from the list, for the kernel's own use.
LEMMA TakePage ==
    ASSUME NEW m, MemInv(m), HasFree(m), NEW p, p = FirstFree(m),
           NEW i, i = page_incref(page_alloc(m), p)
    PROVE  /\ i \in Memory /\ p \in Page /\ p \in m.page_free_list
           /\ Unused(m, p) /\ m.pp_ref[p] = 0
           /\ i.page_free_list = m.page_free_list \ {p}
           /\ i.pp_ref[p] = 1 /\ OthersStay(m, i, p)
           /\ Moved(m, i, NoPage, p)
           /\ i.env_pgdir = m.env_pgdir /\ i.pde = m.pde /\ i.pte = m.pte
           /\ i.double_free = m.double_free
  <1> DEFINE a == page_alloc(m)
  <1>1. p \in m.page_free_list
    BY FirstFreeIs DEF MemInv
  <1>2. p \in Page /\ Unused(m, p) /\ m.pp_ref[p] = 0
    BY <1>1, FreePage
  <1>3. m \in Memory
    BY DEF MemInv
  <1>4. /\ a \in Memory
        /\ a.page_free_list = m.page_free_list \ {p}
        /\ a.pp_ref = m.pp_ref /\ a.env_pgdir = m.env_pgdir
        /\ a.pde = m.pde /\ a.pte = m.pte /\ a.double_free = m.double_free
    BY <1>3, AllocEffect
  <1>5. a.pp_ref[p] < MaxRef
    BY <1>2, <1>4, PageAssumption
  <1> HIDE DEF a
  <1>6. i = page_incref(a, p)
    BY DEF a
  <1>7. /\ i \in Memory
        /\ i.pp_ref = [a.pp_ref EXCEPT ![p] = a.pp_ref[p] + 1]
        /\ i.page_free_list = a.page_free_list /\ i.env_pgdir = a.env_pgdir
        /\ i.pde = a.pde /\ i.pte = a.pte /\ i.double_free = a.double_free
    BY <1>2, <1>4, <1>5, <1>6, IncrefEffect
  <1>8. i.pp_ref[p] = 1 /\ \A q \in Page : q # p => i.pp_ref[q] = m.pp_ref[q]
    BY <1>2, <1>3, <1>4, <1>7, Fields
  <1>9. Moved(m, i, NoPage, p)
    <2> SUFFICES ASSUME NEW q \in Page
                 PROVE  i.pp_ref[q] = m.pp_ref[q] + Is(p, q) - Is(NoPage, q)
      BY DEF Moved
    <2>1. Is(NoPage, q) = 0 /\ m.pp_ref[q] \in Nat
      BY CountIs, NoPageIsNone DEF Is
    <2> QED BY <1>2, <1>8, <2>1 DEF Is
  <1>10. OthersStay(m, i, p)
    BY <1>4, <1>7, <1>8 DEF OthersStay
  <1> QED BY <1>1, <1>2, <1>4, <1>7, <1>8, <1>9, <1>10

\* A page that the kernel gives back.
LEMMA GivePage ==
    ASSUME NEW m, MemInv(m), NEW p \in Page, m.pp_ref[p] # 0, p \notin m.page_free_list,
           NEW d \in Memory, d.pp_ref = m.pp_ref, d.page_free_list = m.page_free_list,
           NEW n, n = page_decref(d, p)
    PROVE  /\ n \in Memory
           /\ Moved(m, n, p, NoPage) /\ FreedUnused(m, n)
           /\ OthersStay(m, n, p)
           /\ p \in n.page_free_list \/ n.pp_ref[p] # 0
           /\ n.env_pgdir = d.env_pgdir /\ n.pde = d.pde /\ n.pte = d.pte
           /\ n.double_free = d.double_free
  <1>1. /\ n \in Memory
        /\ n.pp_ref = [d.pp_ref EXCEPT ![p] = d.pp_ref[p] - 1]
        /\ n.page_free_list = IF d.pp_ref[p] = 1 THEN d.page_free_list \cup {p}
                                                 ELSE d.page_free_list
        /\ n.env_pgdir = d.env_pgdir
        /\ n.pde = d.pde /\ n.pte = d.pte /\ n.double_free = d.double_free
    BY DecrefEffect
  <1>2. \A q \in Page : m.pp_ref[q] \in Nat
    BY CountIs
  <1>3. n.pp_ref[p] = m.pp_ref[p] - 1 /\ \A q \in Page : q # p => n.pp_ref[q] = m.pp_ref[q]
    BY <1>1, Fields
  <1>4. /\ \A q \in Page : q # p => (q \in n.page_free_list <=> q \in m.page_free_list)
        /\ m.pp_ref[p] = 1 => p \in n.page_free_list
        /\ \A q \in n.page_free_list : q \in m.page_free_list \/ (q = p /\ m.pp_ref[p] = 1)
    BY <1>1
  <1>5. Moved(m, n, p, NoPage)
    <2> SUFFICES ASSUME NEW q \in Page
                 PROVE  n.pp_ref[q] = m.pp_ref[q] + Is(NoPage, q) - Is(p, q)
      BY DEF Moved
    <2>1. Is(NoPage, q) = 0 /\ m.pp_ref[q] \in Nat
      BY <1>2, NoPageIsNone DEF Is
    <2> QED BY <1>3, <2>1 DEF Is
  <1>6. FreedUnused(m, n)
    BY <1>2, <1>3, <1>4 DEF FreedUnused
  <1>7. p \in n.page_free_list \/ n.pp_ref[p] # 0
    BY <1>2, <1>3, <1>4
  <1>8. OthersStay(m, n, p)
    BY <1>3, <1>4 DEF OthersStay
  <1> QED BY <1>1, <1>5, <1>6, <1>7, <1>8

\* What follows when an entry of a directory changes and the counts follow: a
\* table is new, or nothing is in it.
LEMMA TableChanges ==
    ASSUME NEW m, MemInv(m), NEW n \in Memory, NEW e \in Env, NEW x \in Pdx,
           n.pte = m.pte, n.env_pgdir = m.env_pgdir, n.double_free = m.double_free,
           PdesDiffer(m, n, e, x), NEW p, p = n.pde[e][x],
           p # NoPage => /\ p \notin n.page_free_list /\ Unused(m, p)
                         /\ m.env_pgdir[e] # NoPage,
           p = NoPage => \A va \in Va : PDX[va] = x => ~Mapped(m, e, va),
           Moved(m, n, m.pde[e][x], p), FreedUnused(m, n)
    PROVE  MemInv(n)
  <1>1. \A f \in Env, y \in Pdx : f # e \/ y # x => n.pde[f][y] = m.pde[f][y]
    BY DEF PdesDiffer
  <1>2. Exact(n)
    <2> SUFFICES ASSUME NEW q \in Page PROVE n.pp_ref[q] = Refs(n, q)
      BY DEF Exact
    <2>1. Refs(n, q) = Refs(m, q) + Is(n.pde[e][x], q) - Is(m.pde[e][x], q)
      BY PdeChanges
    <2>2. m.pp_ref[q] = Refs(m, q)
      BY DEF MemInv, Exact
    <2>3. n.pp_ref[q] = m.pp_ref[q] + Is(p, q) - Is(m.pde[e][x], q)
      BY DEF Moved
    <2> QED BY <2>1, <2>2, <2>3
  <1>3. p \in Page \cup {NoPage}
    BY Entries
  <1>4. FreeUnused(n)
    <2> SUFFICES ASSUME NEW q \in n.page_free_list PROVE Unused(n, q)
      BY DEF FreeUnused
    <2>1. q \in Page
      BY Fields
    <2>2. q \in m.page_free_list \/ n.pp_ref[q] = 0
      BY DEF FreedUnused
    <2>3. CASE n.pp_ref[q] = 0
      BY <1>2, <2>1, <2>3, ZeroRefs DEF Exact
    <2>4. CASE q \in m.page_free_list
      <3>1. Unused(m, q)
        BY <2>4 DEF MemInv, FreeUnused
      <3>2. p # q
        BY <2>1, NoPageIsNone
      <3>3. \A f \in Env, y \in Pdx : n.pde[f][y] # q
        BY <1>1, <3>1, <3>2 DEF Unused
      <3> QED BY <3>1, <3>3 DEF Unused
    <2> QED BY <2>2, <2>3, <2>4
  <1>5. OneOwner(n)
    <2>1. \A f, g \in Env, y, w \in Pdx :
             n.pde[f][y] # NoPage /\ n.pde[f][y] = n.pde[g][w] => f = g /\ y = w
      <3>1. \A f, g \in Env, y, w \in Pdx :
               m.pde[f][y] # NoPage /\ m.pde[f][y] = m.pde[g][w] => f = g /\ y = w
        BY DEF MemInv, OneOwner
      <3>2. p # NoPage => \A f \in Env, y \in Pdx : m.pde[f][y] # p
        BY DEF Unused
      <3> QED BY <1>1, <3>1, <3>2
    <2>2. \A f, g \in Env, y \in Pdx : n.pde[f][y] # NoPage => n.pde[f][y] # n.env_pgdir[g]
      <3>1. \A f, g \in Env, y \in Pdx : m.pde[f][y] # NoPage => m.pde[f][y] # m.env_pgdir[g]
        BY DEF MemInv, OneOwner
      <3>2. p # NoPage => \A f \in Env : m.env_pgdir[f] # p
        BY DEF Unused
      <3> QED BY <1>1, <3>1, <3>2
    <2>3. \A f \in Env, v \in Va : Mapped(n, f, v) => NotTable(n, n.pte[f][v].page)
      <3> SUFFICES ASSUME NEW f \in Env, NEW v \in Va, Mapped(n, f, v)
                   PROVE  NotTable(n, n.pte[f][v].page)
        OBVIOUS
      <3>1. Mapped(m, f, v) /\ n.pte[f][v].page = m.pte[f][v].page
        BY DEF Mapped
      <3>2. NotTable(m, m.pte[f][v].page)
        BY <3>1 DEF MemInv, OneOwner
      <3>3. p # m.pte[f][v].page
        BY <3>1 DEF Unused, Mapped
      <3> QED BY <1>1, <3>1, <3>2, <3>3 DEF NotTable
    <2>4. \A f, g \in Env :
             n.env_pgdir[f] # NoPage /\ n.env_pgdir[f] = n.env_pgdir[g] => f = g
      BY DEF MemInv, OneOwner
    <2> QED BY <2>1, <2>2, <2>3, <2>4 DEF OneOwner
  <1>6. Nested(n)
    <2>1. ASSUME NEW f \in Env, NEW v \in Va, Mapped(n, f, v) PROVE HasTable(n, f, v)
      <3>1. Mapped(m, f, v)
        BY <2>1 DEF Mapped
      <3>2. m.pde[f][PDX[v]] # NoPage
        BY <3>1 DEF MemInv, Nested, HasTable
      <3>3. f = e /\ PDX[v] = x => p # NoPage
        BY <3>1
      <3> QED BY <1>1, <3>2, <3>3, Tables DEF HasTable
    <2>2. \A f \in Env, v \in Va : ~Mapped(n, f, v) => n.pte[f][v] = Zero
      BY DEF MemInv, Nested, Mapped
    <2>3. \A f \in Env, y \in Pdx : n.pde[f][y] # NoPage => n.env_pgdir[f] # NoPage
      BY <1>1 DEF MemInv, Nested
    <2> QED BY <2>1, <2>2, <2>3 DEF Nested
  <1> QED BY <1>2, <1>4, <1>5, <1>6 DEF MemInv

\* What follows when an environment gets a directory or loses it.
LEMMA DirectoryChanges ==
    ASSUME NEW m, MemInv(m), NEW n \in Memory, NEW e \in Env,
           n.pte = m.pte, n.pde = m.pde, n.double_free = m.double_free,
           DirsDiffer(m, n, e), NEW p, p = n.env_pgdir[e],
           p # NoPage => p \notin n.page_free_list /\ Unused(m, p),
           \A x \in Pdx : m.pde[e][x] = NoPage,
           Moved(m, n, m.env_pgdir[e], p), FreedUnused(m, n)
    PROVE  MemInv(n)
  <1>1. \A f \in Env : f # e => n.env_pgdir[f] = m.env_pgdir[f]
    BY DEF DirsDiffer
  <1>2. Exact(n)
    <2> SUFFICES ASSUME NEW q \in Page PROVE n.pp_ref[q] = Refs(n, q)
      BY DEF Exact
    <2>1. Refs(n, q) = Refs(m, q) + Is(n.env_pgdir[e], q) - Is(m.env_pgdir[e], q)
      BY DirChanges
    <2>2. m.pp_ref[q] = Refs(m, q)
      BY DEF MemInv, Exact
    <2>3. n.pp_ref[q] = m.pp_ref[q] + Is(p, q) - Is(m.env_pgdir[e], q)
      BY DEF Moved
    <2> QED BY <2>1, <2>2, <2>3
  <1>3. p \in Page \cup {NoPage}
    BY Entries
  <1>4. FreeUnused(n)
    <2> SUFFICES ASSUME NEW q \in n.page_free_list PROVE Unused(n, q)
      BY DEF FreeUnused
    <2>1. q \in Page
      BY Fields
    <2>2. q \in m.page_free_list \/ n.pp_ref[q] = 0
      BY DEF FreedUnused
    <2>3. CASE n.pp_ref[q] = 0
      BY <1>2, <2>1, <2>3, ZeroRefs DEF Exact
    <2>4. CASE q \in m.page_free_list
      <3>1. Unused(m, q)
        BY <2>4 DEF MemInv, FreeUnused
      <3>2. p # q
        BY <2>1, NoPageIsNone
      <3>3. \A f \in Env : n.env_pgdir[f] # q
        BY <1>1, <3>1, <3>2 DEF Unused
      <3> QED BY <3>1, <3>3 DEF Unused
    <2> QED BY <2>2, <2>3, <2>4
  <1>5. OneOwner(n)
    <2>1. \A f, g \in Env, y, w \in Pdx :
             n.pde[f][y] # NoPage /\ n.pde[f][y] = n.pde[g][w] => f = g /\ y = w
      BY DEF MemInv, OneOwner
    <2>2. \A f, g \in Env, y \in Pdx : n.pde[f][y] # NoPage => n.pde[f][y] # n.env_pgdir[g]
      BY <1>1 DEF MemInv, OneOwner, Unused
    <2>3. \A f \in Env, v \in Va : Mapped(n, f, v) => NotTable(n, n.pte[f][v].page)
      BY <1>1 DEF MemInv, OneOwner, Unused, NotTable, Mapped
    <2>4. \A f, g \in Env :
             n.env_pgdir[f] # NoPage /\ n.env_pgdir[f] = n.env_pgdir[g] => f = g
      BY <1>1 DEF MemInv, OneOwner, Unused
    <2> QED BY <2>1, <2>2, <2>3, <2>4 DEF OneOwner
  <1>6. Nested(n)
    <2>1. \A f \in Env, v \in Va : Mapped(n, f, v) => HasTable(n, f, v)
      BY DEF MemInv, Nested, Mapped, HasTable
    <2>2. \A f \in Env, v \in Va : ~Mapped(n, f, v) => n.pte[f][v] = Zero
      BY DEF MemInv, Nested, Mapped
    <2>3. \A f \in Env, y \in Pdx : n.pde[f][y] # NoPage => n.env_pgdir[f] # NoPage
      BY <1>1 DEF MemInv, Nested
    <2> QED BY <2>1, <2>2, <2>3 DEF Nested
  <1> QED BY <1>2, <1>4, <1>5, <1>6 DEF MemInv

\* Pages in use keep their counts, or lose references.
PagesStay(m, n) ==
    \A q \in Page : q \notin m.page_free_list =>
        /\ q \notin n.page_free_list /\ n.pp_ref[q] = m.pp_ref[q]
        /\ NotTable(m, q) => NotTable(n, q)

\* pgdir_walk adds at most an empty table, and fails only without a free page.
LEMMA WalkKeeps ==
    ASSUME NEW m, MemInv(m), NEW e \in Env, NEW va \in Va, m.env_pgdir[e] # NoPage,
           NEW w, w = pgdir_walk(m, e, va)
    PROVE  /\ MemInv(w)
           /\ w.env_pgdir = m.env_pgdir /\ w.pte = m.pte
           /\ Lost(w) = Lost(m) /\ PagesStay(m, w)
           /\ ~HasTable(w, e, va) => w = m /\ m.page_free_list = {}
  <1>1. CASE HasTable(m, e, va) \/ ~HasFree(m)
    <2>1. w = m
      BY <1>1 DEF pgdir_walk, HasTable
    <2>2. PagesStay(m, m)
      BY DEF PagesStay
    <2> QED BY <1>1, <2>1, <2>2 DEF HasFree
  <1>2. CASE ~HasTable(m, e, va) /\ HasFree(m)
    <2> DEFINE p == FirstFree(m)
               i == page_incref(page_alloc(m), p)
               x == PDX[va]
               D == [m.pde EXCEPT ![e] = [m.pde[e] EXCEPT ![x] = p]]
               T == [v \in Va |-> IF PDX[v] = x THEN Zero ELSE m.pte[e][v]]
    <2>1. /\ i \in Memory /\ p \in Page /\ p \in m.page_free_list
          /\ Unused(m, p) /\ m.pp_ref[p] = 0
          /\ i.page_free_list = m.page_free_list \ {p}
          /\ i.pp_ref[p] = 1 /\ OthersStay(m, i, p)
          /\ Moved(m, i, NoPage, p)
          /\ i.env_pgdir = m.env_pgdir /\ i.pde = m.pde /\ i.pte = m.pte
          /\ i.double_free = m.double_free
      BY <1>2, TakePage
    <2>2. m \in Memory /\ x \in Pdx /\ m.pde[e][x] = NoPage
      BY <1>2, Tables DEF MemInv, HasTable
    <2>3. w = [i EXCEPT !.pde = [i.pde EXCEPT ![e] = [i.pde[e] EXCEPT ![x] = p]],
                        !.pte = [i.pte EXCEPT ![e] =
                                    [v \in Va |-> IF PDX[v] = x THEN Zero ELSE i.pte[e][v]]]]
      BY <1>2 DEF pgdir_walk, HasTable
    <2> HIDE DEF i, p, x
    <2>4. T = m.pte[e]
      <3>1. m.pte[e] \in [Va -> PTE]
        BY <2>2, Fields
      <3>2. \A v \in Va : PDX[v] = x => m.pte[e][v] = Zero
        BY <2>2 DEF MemInv, Nested, HasTable
      <3> QED BY <3>1, <3>2
    <2>5. [m.pte EXCEPT ![e] = T] = m.pte
      BY <2>2, <2>4, Fields
    <2>6. w = [i EXCEPT !.pde = D, !.pte = m.pte]
      BY <2>1, <2>3, <2>5
    <2>7. D \in [Env -> [Pdx -> Page \cup {NoPage}]] /\ D[e][x] = p
      <3>1. m.pde \in [Env -> [Pdx -> Page \cup {NoPage}]]
        BY <2>2, Fields
      <3>2. [m.pde[e] EXCEPT ![x] = p] \in [Pdx -> Page \cup {NoPage}]
        BY <2>1, <2>2, <3>1
      <3> QED BY <2>2, <3>1, <3>2
    <2>8. PdesDiffer(m, [pde |-> D], e, x)
      BY <2>2, Fields DEF PdesDiffer
    <2> HIDE DEF D, T
    <2>9. /\ w \in Memory /\ w.pde = D /\ w.pte = m.pte /\ w.pp_ref = i.pp_ref
          /\ w.page_free_list = i.page_free_list /\ w.env_pgdir = i.env_pgdir
          /\ w.double_free = i.double_free
      BY <2>1, <2>2, <2>6, <2>7 DEF Memory
    <2>10. PdesDiffer(m, w, e, x) /\ w.pde[e][x] = p
      BY <2>7, <2>8, <2>9 DEF PdesDiffer
    <2>11. Moved(m, w, m.pde[e][x], p)
      BY <2>1, <2>2, <2>9 DEF Moved
    <2>12. FreedUnused(m, w) /\ p \notin w.page_free_list
      BY <2>1, <2>9 DEF FreedUnused
    <2>13. p # NoPage
      BY <2>1, NoPageIsNone
    <2>14. MemInv(w)
      BY <2>1, <2>2, <2>9, <2>10, <2>11, <2>12, <2>13, TableChanges
    <2>15. OthersStay(m, w, p) /\ w.pp_ref[p] # 0
      BY <2>1, <2>9 DEF OthersStay
    <2>16. Lost(w) = Lost(m)
      BY <2>1, <2>14, <2>15, SameLost
    <2>17. HasTable(w, e, va)
      BY <2>10, <2>13 DEF HasTable, x
    <2>18. PagesStay(m, w)
      <3> SUFFICES ASSUME NEW q \in Page, q \notin m.page_free_list
                   PROVE  /\ q \notin w.page_free_list /\ w.pp_ref[q] = m.pp_ref[q]
                          /\ NotTable(m, q) => NotTable(w, q)
        BY DEF PagesStay
      <3>1. q # p
        BY <2>1
      <3>2. NotTable(m, q) => NotTable(w, q)
        BY <2>1, <2>9, <2>10, <3>1 DEF NotTable, PdesDiffer
      <3> QED BY <2>15, <3>1, <3>2 DEF OthersStay
    <2> QED BY <2>1, <2>9, <2>14, <2>16, <2>17, <2>18
  <1> QED BY <1>1, <1>2

\* page_insert either maps the page or changes nothing that programs see.
LEMMA InsertKeeps ==
    ASSUME NEW m, MemInv(m), NEW e \in Env, NEW va \in Va, m.env_pgdir[e] # NoPage,
           NEW p \in Page, p \notin m.page_free_list, NotTable(m, p),
           m.pp_ref[p] < MaxRef, NEW perm \in SUBSET Flag,
           NEW r, r = page_insert(m, e, p, va, perm)
    PROVE  /\ MemInv(r.mem) /\ r.ret \in {"ok", "E_NO_MEM"}
           /\ r.mem.env_pgdir = m.env_pgdir
           /\ r.ret = "ok" =>
                /\ r.mem.pte = Entered(m.pte, e, va, [page |-> p, perm |-> perm])
                /\ \A q \in Page : q \in Lost(r.mem) <=> q \in Lost(m) /\ q # p
                /\ \A q \in Page : q # p /\ q \notin m.page_free_list =>
                      r.mem.pp_ref[q] <= m.pp_ref[q]
           /\ r.ret # "ok" => r.mem = m /\ m.page_free_list = {}
  <1> DEFINE w == pgdir_walk(m, e, va)
             n == set_page(w, e, p, va, perm)
  <1>1. /\ MemInv(w)
        /\ w.env_pgdir = m.env_pgdir /\ w.pte = m.pte
        /\ Lost(w) = Lost(m) /\ PagesStay(m, w)
        /\ ~HasTable(w, e, va) => w = m /\ m.page_free_list = {}
    BY WalkKeeps
  <1>2. r = IF HasTable(w, e, va) THEN [mem |-> n, ret |-> "ok"]
                                  ELSE [mem |-> w, ret |-> "E_NO_MEM"]
    BY DEF page_insert
  <1> HIDE DEF w
  <1>3. p \notin w.page_free_list /\ w.pp_ref[p] < MaxRef /\ NotTable(w, p)
    BY <1>1 DEF PagesStay
  <1>4. HasTable(w, e, va) =>
           /\ MemInv(n)
           /\ n.env_pgdir = w.env_pgdir /\ n.pde = w.pde
           /\ n.pte = Entered(w.pte, e, va, [page |-> p, perm |-> perm])
           /\ \A q \in Page : q \in Lost(n) <=> q \in Lost(w) /\ q # p
           /\ \A q \in Page : q # p => n.pp_ref[q] <= w.pp_ref[q]
    BY <1>1, <1>3, SetPageKeeps
  <1> HIDE DEF n
  <1>5. \A q \in Page : q \notin m.page_free_list => w.pp_ref[q] = m.pp_ref[q]
    BY <1>1 DEF PagesStay
  <1>6. CASE HasTable(w, e, va)
    <2>1. r.mem = n /\ r.ret = "ok"
      BY <1>2, <1>6
    <2> QED BY <1>1, <1>4, <1>5, <1>6, <2>1
  <1>7. CASE ~HasTable(w, e, va)
    <2>1. r.mem = w /\ r.ret = "E_NO_MEM"
      BY <1>2, <1>7
    <2> QED BY <1>1, <1>7, <2>1
  <1> QED BY <1>6, <1>7

-----------------------------------------------------------------------------
(* The helpers of the system calls.                                        *)

\* Pages in use get no further references.
CountsFall(m, n) ==
    \A q \in Page : q \notin m.page_free_list => n.pp_ref[q] <= m.pp_ref[q]

\* A step may lose a page only when it takes the last one.
LosesLast(m, n) == Lost(n) # Lost(m) => n.page_free_list = {} /\ m.page_free_list # {}

\* n has the entries of m, but for a page that was unused at va.
EntersFresh(m, n, e, va, perm) ==
    \E p \in Page : /\ Unused(m, p)
                    /\ n.pte = Entered(m.pte, e, va, [page |-> p, perm |-> perm])

\* env_page_alloc: a fresh page at va, or nothing that a program sees.
LEMMA PageAllocGives ==
    ASSUME NEW m, MemInv(m), NEW e \in Env, NEW va \in Va, m.env_pgdir[e] # NoPage,
           NEW perm \in SUBSET Flag,
           NEW r, r = env_page_alloc(m, e, va, perm)
    PROVE  /\ MemInv(r.mem)
           /\ r.mem.env_pgdir = m.env_pgdir
           /\ r.ret = "ok" => EntersFresh(m, r.mem, e, va, perm)
           /\ r.ret # "ok" => r.mem.pte = m.pte
           /\ r.ret = "ok" => Lost(r.mem) = Lost(m)
           /\ CountsFall(m, r.mem) /\ LosesLast(m, r.mem)
  <1>0. CountsFall(m, m) /\ LosesLast(m, m)
    <2>1. \A q \in Page : m.pp_ref[q] \in Nat
      BY CountIs
    <2> QED BY <2>1 DEF CountsFall, LosesLast
  <1>1. CASE ~(perm \subseteq PTE_SYSCALL)
    <2>1. r.mem = m /\ r.ret # "ok"
      BY <1>1 DEF env_page_alloc
    <2> QED BY <1>0, <2>1
  <1>2. CASE perm \subseteq PTE_SYSCALL /\ ~HasFree(m)
    <2>1. r.mem = m /\ r.ret # "ok"
      BY <1>2 DEF env_page_alloc
    <2> QED BY <1>0, <2>1
  <1>3. CASE perm \subseteq PTE_SYSCALL /\ HasFree(m)
    <2> DEFINE a == page_alloc(m)
               p == FirstFree(m)
    <2>1. r = page_insert(a, e, p, va, perm)
      BY <1>3 DEF env_page_alloc
    <2>2. /\ MemInv(a)
          /\ a.pp_ref = m.pp_ref /\ a.env_pgdir = m.env_pgdir
          /\ a.pde = m.pde /\ a.pte = m.pte
          /\ a.page_free_list = m.page_free_list \ {p}
          /\ p \in Page /\ p \notin a.page_free_list /\ a.pp_ref[p] = 0 /\ Unused(a, p)
          /\ \A q \in Page : q \in Lost(a) <=> q \in Lost(m) \/ q = p
      BY <1>3, AllocKeeps
    <2>3. p \in m.page_free_list /\ Unused(m, p)
      BY <1>3, FirstFreeIs, FreePage DEF MemInv
    <2> HIDE DEF a, p
    <2>4. NotTable(a, p) /\ a.pp_ref[p] < MaxRef /\ a.env_pgdir[e] # NoPage
      BY <2>2, PageAssumption DEF Unused, NotTable
    <2>5. /\ MemInv(r.mem) /\ r.ret \in {"ok", "E_NO_MEM"}
          /\ r.mem.env_pgdir = a.env_pgdir
          /\ r.ret = "ok" =>
               /\ r.mem.pte = Entered(a.pte, e, va, [page |-> p, perm |-> perm])
               /\ \A q \in Page : q \in Lost(r.mem) <=> q \in Lost(a) /\ q # p
               /\ \A q \in Page : q # p /\ q \notin a.page_free_list =>
                     r.mem.pp_ref[q] <= a.pp_ref[q]
          /\ r.ret # "ok" => r.mem = a /\ a.page_free_list = {}
      BY <2>1, <2>2, <2>4, InsertKeeps
    <2>6. CASE r.ret = "ok"
      <3>1. p \notin Lost(m)
        BY <2>3 DEF Lost
      <3>2. \A q \in Page : q \in Lost(r.mem) <=> q \in Lost(m)
        BY <2>2, <2>5, <2>6, <3>1
      <3>3. Lost(r.mem) = Lost(m)
        BY <3>2 DEF Lost
      <3>4. CountsFall(m, r.mem)
        BY <2>2, <2>3, <2>5, <2>6 DEF CountsFall
      <3>5. EntersFresh(m, r.mem, e, va, perm)
        BY <2>2, <2>3, <2>5, <2>6 DEF EntersFresh
      <3> QED BY <2>2, <2>3, <2>5, <2>6, <3>3, <3>4, <3>5 DEF LosesLast
    <2>7. CASE r.ret # "ok"
      <3>1. CountsFall(m, r.mem)
        <4>1. \A q \in Page : m.pp_ref[q] \in Nat
          BY CountIs
        <4> QED BY <2>2, <2>5, <2>7, <4>1 DEF CountsFall
      <3>2. LosesLast(m, r.mem)
        BY <2>3, <2>5, <2>7 DEF LosesLast
      <3> QED BY <2>2, <2>5, <2>7, <3>1, <3>2
    <2> QED BY <2>6, <2>7
  <1> QED BY <1>1, <1>2, <1>3

\* env_page_map: the page at srcva is at dstva too, or nothing changes that a
\* program sees.
LEMMA PageMapGives ==
    ASSUME NEW m, MemInv(m), NEW s \in Env, NEW sva \in Va,
           NEW e \in Env, NEW va \in Va, m.env_pgdir[e] # NoPage,
           Mapped(m, s, sva) => m.pp_ref[m.pte[s][sva].page] < MaxRef,
           NEW perm \in SUBSET Flag,
           NEW r, r = env_page_map(m, s, sva, e, va, perm)
    PROVE  /\ MemInv(r.mem)
           /\ r.mem.env_pgdir = m.env_pgdir
           /\ r.ret = "ok" =>
                 /\ m.pte[s][sva].page \in Page
                 /\ r.mem.pte = Entered(m.pte, e, va,
                                        [page |-> m.pte[s][sva].page, perm |-> perm])
           /\ r.ret # "ok" => r.mem.pte = m.pte
           /\ Lost(r.mem) = Lost(m)
  <1> DEFINE p == m.pte[s][sva].page
  <1>1. CASE \/ ~(HasTable(m, s, sva) /\ Mapped(m, s, sva))
             \/ "W" \in perm \ m.pte[s][sva].perm
    <2>1. r.mem = m /\ r.ret # "ok"
      BY <1>1 DEF env_page_map
    <2> QED BY <2>1
  <1>2. CASE ~(\/ ~(HasTable(m, s, sva) /\ Mapped(m, s, sva))
               \/ "W" \in perm \ m.pte[s][sva].perm)
    <2>1. r = page_insert(m, e, p, va, perm)
      BY <1>2 DEF env_page_map
    <2>2. /\ p \in Page /\ p \notin m.page_free_list /\ NotTable(m, p)
          /\ p \notin Lost(m) /\ m.pp_ref[p] < MaxRef
      BY <1>2, MappedPage
    <2> HIDE DEF p
    <2>3. /\ MemInv(r.mem) /\ r.ret \in {"ok", "E_NO_MEM"}
          /\ r.mem.env_pgdir = m.env_pgdir
          /\ r.ret = "ok" =>
               /\ r.mem.pte = Entered(m.pte, e, va, [page |-> p, perm |-> perm])
               /\ \A q \in Page : q \in Lost(r.mem) <=> q \in Lost(m) /\ q # p
          /\ r.ret # "ok" => r.mem = m
      BY <2>1, <2>2, InsertKeeps
    <2>4. r.ret = "ok" => Lost(r.mem) = Lost(m)
      BY <2>2, <2>3 DEF Lost
    <2>6. p = m.pte[s][sva].page
      BY DEF p
    <2> QED BY <2>2, <2>3, <2>4, <2>6
  <1> QED BY <1>1, <1>2

\* The same without saying which page it is.
LEMMA PageAllocKeeps ==
    ASSUME NEW m, MemInv(m), NEW e \in Env, NEW va \in Va, m.env_pgdir[e] # NoPage,
           NEW perm \in SUBSET Flag,
           NEW r, r = env_page_alloc(m, e, va, perm)
    PROVE  /\ MemInv(r.mem)
           /\ r.mem.env_pgdir = m.env_pgdir
           /\ r.ret = "ok" => \E p \in Page :
                 r.mem.pte = Entered(m.pte, e, va, [page |-> p, perm |-> perm])
           /\ r.ret # "ok" => r.mem.pte = m.pte
           /\ r.ret = "ok" => Lost(r.mem) = Lost(m)
           /\ CountsFall(m, r.mem) /\ LosesLast(m, r.mem)
  <1>1. /\ MemInv(r.mem)
        /\ r.mem.env_pgdir = m.env_pgdir
        /\ r.ret = "ok" => EntersFresh(m, r.mem, e, va, perm)
        /\ r.ret # "ok" => r.mem.pte = m.pte
        /\ r.ret = "ok" => Lost(r.mem) = Lost(m)
        /\ CountsFall(m, r.mem) /\ LosesLast(m, r.mem)
    BY PageAllocGives
  <1>2. r.ret = "ok" =>
            \E p \in Page : r.mem.pte = Entered(m.pte, e, va, [page |-> p, perm |-> perm])
    BY <1>1 DEF EntersFresh
  <1> QED BY <1>1, <1>2

\* sys_page_map keeps MemInv, and enters what the entry of the source refers to.
LEMMA PageMapKeeps ==
    ASSUME NEW m, MemInv(m), NEW s \in Env, NEW sva \in Va,
           NEW e \in Env, NEW va \in Va, m.env_pgdir[e] # NoPage,
           Mapped(m, s, sva) => m.pp_ref[m.pte[s][sva].page] < MaxRef,
           NEW perm \in SUBSET Flag,
           NEW r, r = env_page_map(m, s, sva, e, va, perm)
    PROVE  /\ MemInv(r.mem)
           /\ r.mem.env_pgdir = m.env_pgdir
           /\ r.ret = "ok" => \E p \in Page :
                 r.mem.pte = Entered(m.pte, e, va, [page |-> p, perm |-> perm])
           /\ r.ret # "ok" => r.mem.pte = m.pte
           /\ Lost(r.mem) = Lost(m)
  <1>1. /\ MemInv(r.mem)
        /\ r.mem.env_pgdir = m.env_pgdir
        /\ r.ret = "ok" =>
              /\ m.pte[s][sva].page \in Page
              /\ r.mem.pte = Entered(m.pte, e, va,
                                     [page |-> m.pte[s][sva].page, perm |-> perm])
        /\ r.ret # "ok" => r.mem.pte = m.pte
        /\ Lost(r.mem) = Lost(m)
    BY PageMapGives
  <1> QED BY <1>1

\* A page is mapped again where there is a table: nothing can go wrong.
LEMMA MapSucceeds ==
    ASSUME NEW m, NEW s, NEW sva, NEW e, NEW va, NEW perm,
           HasTable(m, s, sva), Mapped(m, s, sva), HasTable(m, e, va),
           "W" \notin perm \ m.pte[s][sva].perm
    PROVE  env_page_map(m, s, sva, e, va, perm).ret = "ok"
  <1> DEFINE p == m.pte[s][sva].page
  <1>1. env_page_map(m, s, sva, e, va, perm) = page_insert(m, e, p, va, perm)
    BY DEF env_page_map
  <1>2. pgdir_walk(m, e, va) = m
    BY DEF pgdir_walk, HasTable
  <1>3. page_insert(m, e, p, va, perm) = [mem |-> set_page(m, e, p, va, perm), ret |-> "ok"]
    BY <1>2 DEF page_insert
  <1> QED BY <1>1, <1>3

\* A page has at most as many entries as there are slots.
LEMMA FewSlots ==
    ASSUME NEW m, NEW p, Cardinality(Env) * NVA < MaxRef
    PROVE  Cardinality(PteRefs(m, p)) < MaxRef
  <1>1. IsFiniteSet(Va) /\ Cardinality(Va) = NVA
    <2>1. 0 \in Int /\ NVA - 1 \in Int /\ NVA \in Nat /\ NVA # 0
      BY PageAssumption
    <2>2. IsFiniteSet(0..(NVA - 1)) /\ Cardinality(0..(NVA - 1)) =
             IF 0 > NVA - 1 THEN 0 ELSE (NVA - 1) - 0 + 1
      BY <2>1, FS_Interval
    <2> QED BY <2>1, <2>2 DEF Va
  <1>2. IsFiniteSet(Env) /\ IsFiniteSet(Env \X Va)
    BY FiniteSlots
  <1>3. Cardinality(Env \X Va) = Cardinality(Env) * NVA
    BY <1>1, <1>2, FS_Product
  <1>4. PteRefs(m, p) \in SUBSET (Env \X Va)
    BY DEF PteRefs
  <1>5. Cardinality(PteRefs(m, p)) <= Cardinality(Env \X Va)
    BY <1>2, <1>4, FS_Subset
  <1>6. Cardinality(PteRefs(m, p)) \in Nat /\ Cardinality(Env \X Va) \in Nat /\ MaxRef \in Nat
    BY <1>2, RefsType, FS_CardinalityType, PageAssumption
  <1> QED BY <1>3, <1>5, <1>6

\* The count of a mapped page is below the limit when its entries are.
LEMMA CountOfMapped ==
    ASSUME NEW m, MemInv(m), NEW e \in Env, NEW va \in Va, Mapped(m, e, va),
           NEW p, p = m.pte[e][va].page, Cardinality(PteRefs(m, p)) < MaxRef
    PROVE  m.pp_ref[p] < MaxRef
  <1>1. p \in Page /\ NotTable(m, p)
    BY MappedPage
  <1>2. PdeRefs(m, p) = {} /\ DirRefs(m, p) = {}
    BY <1>1 DEF PdeRefs, DirRefs, NotTable
  <1>3. Cardinality(PdeRefs(m, p)) = 0 /\ Cardinality(DirRefs(m, p)) = 0
    BY <1>2, FS_EmptySet
  <1>4. m.pp_ref[p] = Cardinality(PteRefs(m, p))
    BY <1>1, <1>3, RefsType DEF MemInv, Exact, Refs
  <1> QED BY <1>1, <1>4

-----------------------------------------------------------------------------
(* The address space of an environment begins and ends.                    *)

\* env_setup_vm: a directory for an environment without one.
LEMMA SetupKeeps ==
    ASSUME NEW m, MemInv(m), HasFree(m), NEW e \in Env, m.env_pgdir[e] = NoPage,
           NEW n, n = env_setup_vm(m, e)
    PROVE  /\ MemInv(n)
           /\ \E p \in Page : n.env_pgdir = [m.env_pgdir EXCEPT ![e] = p]
           /\ n.pte = m.pte /\ Lost(n) = Lost(m)
  <1> DEFINE p == FirstFree(m)
             i == page_incref(page_alloc(m), p)
             D == [m.env_pgdir EXCEPT ![e] = p]
  <1>1. /\ i \in Memory /\ p \in Page /\ p \in m.page_free_list
        /\ Unused(m, p) /\ m.pp_ref[p] = 0
        /\ i.page_free_list = m.page_free_list \ {p}
        /\ i.pp_ref[p] = 1 /\ OthersStay(m, i, p)
        /\ Moved(m, i, NoPage, p)
        /\ i.env_pgdir = m.env_pgdir /\ i.pde = m.pde /\ i.pte = m.pte
        /\ i.double_free = m.double_free
    BY TakePage
  <1>2. n = [i EXCEPT !.env_pgdir = [i.env_pgdir EXCEPT ![e] = p],
                      !.pde = [i.pde EXCEPT ![e] = [x \in Pdx |-> NoPage]]]
    BY DEF env_setup_vm
  <1>3. m \in Memory
    BY DEF MemInv
  <1>4. \A x \in Pdx : m.pde[e][x] = NoPage
    BY DEF MemInv, Nested
  <1> HIDE DEF i, p
  <1>5. [m.pde EXCEPT ![e] = [x \in Pdx |-> NoPage]] = m.pde
    <2>1. m.pde \in [Env -> [Pdx -> Page \cup {NoPage}]]
      BY <1>3, Fields
    <2>2. m.pde[e] = [x \in Pdx |-> NoPage]
      BY <1>4, <2>1
    <2> QED BY <2>1, <2>2
  <1>6. n = [i EXCEPT !.env_pgdir = D, !.pde = m.pde]
    BY <1>1, <1>2, <1>5
  <1>7. D \in [Env -> Page \cup {NoPage}] /\ D[e] = p
    BY <1>1, <1>3, Fields
  <1>8. DirsDiffer(m, [env_pgdir |-> D], e)
    BY <1>3, Fields DEF DirsDiffer
  <1> HIDE DEF D
  <1>9. /\ n \in Memory /\ n.pde = m.pde /\ n.pte = m.pte /\ n.pp_ref = i.pp_ref
        /\ n.page_free_list = i.page_free_list /\ n.env_pgdir = D
        /\ n.double_free = i.double_free
    BY <1>1, <1>3, <1>6, <1>7 DEF Memory
  <1>10. DirsDiffer(m, n, e) /\ n.env_pgdir[e] = p
    BY <1>7, <1>8, <1>9 DEF DirsDiffer
  <1>11. Moved(m, n, m.env_pgdir[e], p)
    BY <1>1, <1>9 DEF Moved
  <1>12. FreedUnused(m, n) /\ p \notin n.page_free_list
    BY <1>1, <1>9 DEF FreedUnused
  <1>13. MemInv(n)
    BY <1>1, <1>4, <1>9, <1>10, <1>11, <1>12, DirectoryChanges
  <1>14. OthersStay(m, n, p) /\ n.pp_ref[p] # 0
    BY <1>1, <1>9 DEF OthersStay
  <1>15. Lost(n) = Lost(m)
    BY <1>1, <1>13, <1>14, SameLost
  <1> QED BY <1>1, <1>9, <1>13, <1>15 DEF D

\* A page that the kernel uses for a table or a directory.
LEMMA KernelPage ==
    ASSUME NEW m, MemInv(m), NEW p \in Page, ~Unused(m, p)
    PROVE  p \notin m.page_free_list /\ m.pp_ref[p] # 0
  BY CountIs DEF MemInv, FreeUnused

\* The table that env_free gives back is empty.
LEMMA FreeTableKeeps ==
    ASSUME NEW m, MemInv(m), NEW e \in Env, NEW x \in Pdx, m.pde[e][x] # NoPage,
           \A va \in Va : PDX[va] = x => ~Mapped(m, e, va),
           NEW n, n = free_table(m, e, x)
    PROVE  /\ MemInv(n)
           /\ n.env_pgdir = m.env_pgdir /\ n.pte = m.pte /\ Lost(n) = Lost(m)
  <1> DEFINE p == m.pde[e][x]
             D == [m.pde EXCEPT ![e] = [m.pde[e] EXCEPT ![x] = NoPage]]
             d == [m EXCEPT !.pde = D]
  <1>1. n = page_decref(d, p)
    BY DEF free_table
  <1>2. m \in Memory
    BY DEF MemInv
  <1>3. p \in Page
    BY <1>2, Entries
  <1>4. p \notin m.page_free_list /\ m.pp_ref[p] # 0
    BY <1>3, KernelPage DEF Unused
  <1>5. D \in [Env -> [Pdx -> Page \cup {NoPage}]] /\ D[e][x] = NoPage
    <2>1. m.pde \in [Env -> [Pdx -> Page \cup {NoPage}]]
      BY <1>2, Fields
    <2>2. [m.pde[e] EXCEPT ![x] = NoPage] \in [Pdx -> Page \cup {NoPage}]
      BY <2>1
    <2> QED BY <2>1, <2>2
  <1>6. PdesDiffer(m, [pde |-> D], e, x)
    BY <1>2, Fields DEF PdesDiffer
  <1> HIDE DEF D
  <1>7. /\ d \in Memory /\ d.pde = D /\ d.pp_ref = m.pp_ref /\ d.pte = m.pte
        /\ d.page_free_list = m.page_free_list /\ d.env_pgdir = m.env_pgdir
        /\ d.double_free = m.double_free
    BY <1>2, <1>5 DEF Memory
  <1> HIDE DEF d, p
  <1>8. /\ n \in Memory
        /\ Moved(m, n, p, NoPage) /\ FreedUnused(m, n)
        /\ OthersStay(m, n, p)
        /\ p \in n.page_free_list \/ n.pp_ref[p] # 0
        /\ n.env_pgdir = d.env_pgdir /\ n.pde = d.pde /\ n.pte = d.pte
        /\ n.double_free = d.double_free
    BY <1>1, <1>3, <1>4, <1>7, GivePage
  <1>9. PdesDiffer(m, n, e, x) /\ n.pde[e][x] = NoPage
    BY <1>5, <1>6, <1>7, <1>8 DEF PdesDiffer
  <1>10. Moved(m, n, m.pde[e][x], NoPage)
    BY <1>8 DEF p
  <1>11. MemInv(n)
    BY <1>7, <1>8, <1>9, <1>10, TableChanges
  <1>12. Lost(n) = Lost(m)
    BY <1>3, <1>4, <1>8, <1>11, SameLost
  <1> QED BY <1>7, <1>8, <1>11, <1>12

\* The directory that env_free gives back is empty.
LEMMA FreePgdirKeeps ==
    ASSUME NEW m, MemInv(m), NEW e \in Env, m.env_pgdir[e] # NoPage,
           \A x \in Pdx : m.pde[e][x] = NoPage,
           NEW n, n = free_pgdir(m, e)
    PROVE  /\ MemInv(n)
           /\ n.env_pgdir = [m.env_pgdir EXCEPT ![e] = NoPage]
           /\ n.pte = m.pte /\ Lost(n) = Lost(m)
  <1> DEFINE p == m.env_pgdir[e]
             D == [m.env_pgdir EXCEPT ![e] = NoPage]
             d == [m EXCEPT !.env_pgdir = D]
  <1>1. n = page_decref(d, p)
    BY DEF free_pgdir
  <1>2. m \in Memory
    BY DEF MemInv
  <1>3. p \in Page
    BY <1>2, Entries
  <1>4. p \notin m.page_free_list /\ m.pp_ref[p] # 0
    BY <1>3, KernelPage DEF Unused
  <1>5. D \in [Env -> Page \cup {NoPage}] /\ D[e] = NoPage
    BY <1>2, Fields
  <1>6. DirsDiffer(m, [env_pgdir |-> D], e)
    BY <1>2, Fields DEF DirsDiffer
  <1> HIDE DEF D
  <1>7. /\ d \in Memory /\ d.env_pgdir = D /\ d.pp_ref = m.pp_ref /\ d.pte = m.pte
        /\ d.page_free_list = m.page_free_list /\ d.pde = m.pde
        /\ d.double_free = m.double_free
    BY <1>2, <1>5 DEF Memory
  <1> HIDE DEF d, p
  <1>8. /\ n \in Memory
        /\ Moved(m, n, p, NoPage) /\ FreedUnused(m, n)
        /\ OthersStay(m, n, p)
        /\ p \in n.page_free_list \/ n.pp_ref[p] # 0
        /\ n.env_pgdir = d.env_pgdir /\ n.pde = d.pde /\ n.pte = d.pte
        /\ n.double_free = d.double_free
    BY <1>1, <1>3, <1>4, <1>7, GivePage
  <1>9. DirsDiffer(m, n, e) /\ n.env_pgdir[e] = NoPage
    BY <1>5, <1>6, <1>7, <1>8 DEF DirsDiffer
  <1>10. Moved(m, n, m.env_pgdir[e], NoPage)
    BY <1>8 DEF p
  <1>11. MemInv(n)
    BY <1>7, <1>8, <1>9, <1>10, DirectoryChanges
  <1>12. Lost(n) = Lost(m)
    BY <1>3, <1>4, <1>8, <1>11, SameLost
  <1> QED BY <1>7, <1>8, <1>11, <1>12 DEF D

\* The memory structures after mem_init: every page is free.
LEMMA EmptyMemory ==
    ASSUME NEW m, m = [page_free_list |-> Page,
                       pp_ref |-> [p \in Page |-> 0],
                       env_pgdir |-> [e \in Env |-> NoPage],
                       pde |-> [e \in Env |-> [x \in Pdx |-> NoPage]],
                       pte |-> [e \in Env |-> [va \in Va |-> Zero]],
                       double_free |-> FALSE]
    PROVE  MemInv(m)
  <1>1. /\ m.page_free_list = Page /\ m.pp_ref = [p \in Page |-> 0]
        /\ m.env_pgdir = [e \in Env |-> NoPage]
        /\ m.pde = [e \in Env |-> [x \in Pdx |-> NoPage]]
        /\ m.pte = [e \in Env |-> [va \in Va |-> Zero]]
        /\ m.double_free = FALSE
    OBVIOUS
  <1>2. m \in Memory
    <2>1. Zero \in PTE
      BY DEF Zero, PTE
    <2>2. [e \in Env |-> [va \in Va |-> Zero]] \in [Env -> [Va -> PTE]]
      BY <2>1
    <2>3. [p \in Page |-> 0] \in [Page -> 0..MaxRef]
      BY PageAssumption
    <2>4. [e \in Env |-> [x \in Pdx |-> NoPage]] \in [Env -> [Pdx -> Page \cup {NoPage}]]
      OBVIOUS
    <2>5. [e \in Env |-> NoPage] \in [Env -> Page \cup {NoPage}]
      OBVIOUS
    <2> QED BY <2>2, <2>3, <2>4, <2>5 DEF Memory
  <1>3. \A p \in Page : Unused(m, p)
    BY <1>1, NoPageIsNone DEF Unused, Zero
  <1>4. Exact(m)
    BY <1>1, <1>3, ZeroRefs DEF Exact
  <1>5. FreeUnused(m)
    BY <1>1, <1>3 DEF FreeUnused
  <1>6. OneOwner(m)
    BY <1>1 DEF OneOwner, Mapped, Zero
  <1>7. Nested(m)
    BY <1>1 DEF Nested, Mapped, Zero
  <1> QED BY <1>1, <1>2, <1>4, <1>5, <1>6, <1>7 DEF MemInv
=============================================================================
