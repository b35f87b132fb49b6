------------------------------- MODULE MCPmm -------------------------------
(* A memory map for the runs of Pmm: low memory and a reserved range that  *)
(* must stay used; ranges of RAM, one that ends in the middle of a page,   *)
(* one that begins in the middle of one, one longer than a word and        *)
(* beyond the identity-mapped limit, and one past the 32-bit addresses.    *)
EXTENDS Pmm

MCRegions ==
  {[type |-> 1, addr |-> 0,  len |-> 4],
   [type |-> 1, addr |-> 4,  len |-> 14],
   [type |-> 2, addr |-> 24, len |-> 4],
   [type |-> 1, addr |-> 29, len |-> 9],
   [type |-> 1, addr |-> 36, len |-> 68],
   [type |-> 1, addr |-> 84, len |-> 4]}

=============================================================================
