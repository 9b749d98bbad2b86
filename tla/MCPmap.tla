------------------------------- MODULE MCPmap -------------------------------
(* Instances of Pmap: the addresses share a page table, or have one each.  *)
EXTENDS Pmap, TLC

MCPDX == [va \in Va |-> 0]
MCPDXApart == [va \in Va |-> va]
MCPermsW == {{"W"}}
MCLoad == {1}
Symmetry == Permutations(Env) \cup Permutations(Cpu)
=============================================================================
