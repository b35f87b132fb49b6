------------------------------ MODULE MCMemory ------------------------------
(* An instance of Memory: programs of one and of two pages, with the stack *)
(* and the first page of the mmap area in the same page table.             *)
EXTENDS Memory

CONSTANTS sh, a, b

MCProcs == {sh, a, b}
MCImages == {{4}, {4, 5}}

(* Pages are interchangeable: as long as each is in one hand, states that  *)
(* differ only in which page is where are one state for TLC.               *)
MCView ==
  IF OneOwner /\ kernel \cap Reserved = {} /\ Reserved \subseteq used
  THEN <<[p \in Procs |-> DOMAIN space[p]], Cardinality(kernel),
         Cardinality(used), mmap_next, parent, state, panicked, failed>>
  ELSE vars

=============================================================================
