------------------------------ MODULE PagePool ------------------------------
(***************************************************************************)
(* What the physical page allocator promises its callers                   *)
(* (kernel/mm/pmm.c, the comments of pmm_alloc and pmm_alloc_contig): a    *)
(* page that is free and is nobody else's from then on; a panic only when  *)
(* there is none; a run of adjacent pages, or 0 only when there is none.   *)
(***************************************************************************)
EXTENDS Integers

CONSTANTS Limit, RunLengths

VARIABLES free, held, answer

poolVars == <<free, held, answer>>

Run(s, n) == s..(s + n - 1)

PANIC == -1  \* the call did not come back

PoolInit == held = {} /\ answer = 0 /\ free \subseteq 1..(Limit - 1)

PoolAlloc ==
  \/ \E p \in free :
       /\ free' = free \ {p}
       /\ held' = held \cup {p}
       /\ answer' = p
  \/ /\ free = {}
     /\ answer' = PANIC
     /\ UNCHANGED <<free, held>>

PoolAllocContig(n) ==
  \/ \E s \in free :
       /\ n > 0 /\ Run(s, n) \subseteq free
       /\ free' = free \ Run(s, n)
       /\ held' = held \cup Run(s, n)
       /\ answer' = s
  \/ /\ n = 0 \/ \A s \in free : ~(Run(s, n) \subseteq free)
     /\ answer' = 0
     /\ UNCHANGED <<free, held>>

(* The holder gives a page back. *)
PoolFree(p) ==
  /\ free' = free \cup {p}
  /\ held' = held \ {p}
  /\ UNCHANGED answer

PoolNext ==
  \/ PoolAlloc
  \/ \E n \in RunLengths : PoolAllocContig(n)
  \/ \E p \in held : PoolFree(p)

PoolSpec == PoolInit /\ [][PoolNext]_poolVars

=============================================================================
