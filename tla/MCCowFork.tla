------------------------------ MODULE MCCowFork ------------------------------
(* Instances of CowFork, with the page tables of JOS: one for the temporary *)
(* mappings, one for the program and one for its two stacks.               *)
EXTENDS CowFork, TLC

MCPDX == [va \in Va |-> CASE va \in {UTEMP, PFTEMP} -> 1
                           [] va = DATA -> 2
                           [] va \in {STACK, EXSTACK} -> 3]
Symmetry == Permutations(Env)
=============================================================================
