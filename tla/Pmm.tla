-------------------------------- MODULE Pmm --------------------------------
(***************************************************************************)
(* The page bitmap of kernel/mm/pmm.c: pmm_init from the memory map of the *)
(* boot loader, the next-fit search of pmm_alloc, the run search of        *)
(* pmm_alloc_contig, and pmm_free by whoever holds the page.  The two      *)
(* searches are modelled round by round, so that what their loops keep can *)
(* be stated; nothing else touches the bitmap during one.                  *)
(*                                                                         *)
(* A page is named by its number, and the answer 0 is the null address.    *)
(***************************************************************************)
EXTENDS Integers

CONSTANTS
  PAGE_SIZE,
  MAX_PAGES,   \* bits of the bitmap
  Word,        \* 2^32: an address is a uint32_t
  Total,       \* PMM_IDENTITY_MAPPED_LIMIT / PAGE_SIZE
  LOW,         \* 0x100000, where the kernel image begins
  KernelEnd,   \* _kernel_end
  Regions,     \* the memory map: records of type, addr, len
  RunLengths   \* bound: the sizes pmm_alloc_contig is called with

ASSUME PmmAssumption ==
  /\ PAGE_SIZE \in Nat \ {0} /\ Word \in Nat \ {0}
  /\ LOW \in Nat /\ LOW >= PAGE_SIZE /\ LOW % PAGE_SIZE = 0
  /\ KernelEnd \in Nat /\ KernelEnd >= LOW
  /\ MAX_PAGES \in Nat /\ Total \in 1..MAX_PAGES
  /\ RunLengths \subseteq Nat
  /\ \A g \in Regions : g.addr \in Nat /\ g.len \in Nat

VARIABLES
  bitmap,      \* TRUE = used
  pmm_hint,
  pc,          \* the loop that is running
  i,           \* its counter (n in pmm_alloc)
  run, start, pages,  \* the other locals of pmm_alloc_contig
  held,        \* history: pages handed out and not given back
  answer       \* what the last call returned

vars == <<bitmap, pmm_hint, pc, i, run, start, pages, held, answer>>

Page == 0..(MAX_PAGES - 1)
Usable == 0..(Total - 1)
Run(s, n) == s..(s + n - 1)

PANIC == -1  \* the call did not come back

(* The boot loader's addresses and lengths have 64 bits; pmm_init casts    *)
(* them to uint32_t.                                                       *)
Start32(g) == g.addr % Word
Length32(g) == g.len % Word

FreedMut_RoundUp(g) ==
  {p \in Page : /\ g.type = 1 /\ Start32(g) >= LOW
                /\ p >= Start32(g) \div PAGE_SIZE
                /\ p < Start32(g) \div PAGE_SIZE
                       + (Length32(g) + PAGE_SIZE - 1) \div PAGE_SIZE}

(* pmm_mark_free rounds the start and the length down: a first page that   *)
(* is not whole is freed, a last one is not.  (Bits past the end of the    *)
(* bitmap, which a region that runs past 4 GiB would clear too, are not    *)
(* modelled.)                                                              *)
Freed(g) ==
  {p \in Page : /\ g.type = 1 /\ Start32(g) >= LOW
                /\ p >= Start32(g) \div PAGE_SIZE
                /\ p < Start32(g) \div PAGE_SIZE + Length32(g) \div PAGE_SIZE}

KernelPagesMut_RoundDown ==
  {p \in Page : /\ p >= LOW \div PAGE_SIZE
                /\ p < LOW \div PAGE_SIZE + (KernelEnd - LOW) \div PAGE_SIZE}

(* pmm_mark_used rounds the length up. *)
KernelPages ==
  {p \in Page : /\ p >= LOW \div PAGE_SIZE
                /\ p < LOW \div PAGE_SIZE
                       + (KernelEnd - LOW + PAGE_SIZE - 1) \div PAGE_SIZE}

(* pmm_init *)
Init ==
  /\ bitmap = [p \in Page |->
       p \in KernelPages \/ \A g \in Regions : p \notin Freed(g)]
  /\ pmm_hint = 0
  /\ pc = "idle" /\ i = 0 /\ run = 0 /\ start = 0 /\ pages = 0
  /\ held = {} /\ answer = 0

(***************************************************************************)
(* pmm_alloc                                                               *)
(***************************************************************************)
Alloc ==
  /\ pc = "idle"
  /\ pc' = "alloc" /\ i' = 0
  /\ UNCHANGED <<bitmap, pmm_hint, run, start, pages, held, answer>>

AdvanceHintMut_SkipLast == IF pmm_hint + 1 >= Total - 1 THEN 0 ELSE pmm_hint + 1

AdvanceHint == IF pmm_hint + 1 >= Total THEN 0 ELSE pmm_hint + 1

AllocRoundMut_NotMarked ==
  /\ pc = "alloc" /\ i < Total
  /\ pmm_hint' = AdvanceHint
  /\ IF bitmap[pmm_hint]
     THEN /\ i' = i + 1
          /\ UNCHANGED <<bitmap, held, answer, pc>>
     ELSE /\ held' = held \cup {pmm_hint}
          /\ answer' = pmm_hint
          /\ pc' = "idle"
          /\ UNCHANGED <<bitmap, i>>
  /\ UNCHANGED <<run, start, pages>>

(* The page under the hint, and the hint moves on whatever it is. *)
AllocRound ==
  /\ pc = "alloc" /\ i < Total
  /\ pmm_hint' = AdvanceHint
  /\ IF bitmap[pmm_hint]
     THEN /\ i' = i + 1
          /\ UNCHANGED <<bitmap, held, answer, pc>>
     ELSE /\ bitmap' = [bitmap EXCEPT ![pmm_hint] = TRUE]
          /\ held' = held \cup {pmm_hint}
          /\ answer' = pmm_hint
          /\ pc' = "idle"
          /\ UNCHANGED i
  /\ UNCHANGED <<run, start, pages>>

(* PANIC stops the machine. *)
AllocPanic ==
  /\ pc = "alloc" /\ i >= Total
  /\ pc' = "panic" /\ answer' = PANIC
  /\ UNCHANGED <<bitmap, pmm_hint, i, run, start, pages, held>>

(***************************************************************************)
(* pmm_alloc_contig                                                        *)
(***************************************************************************)
AllocContig(n) ==
  /\ pc = "idle"
  /\ IF n = 0 \/ n > Total
     THEN /\ answer' = 0
          /\ UNCHANGED <<pc, i, run, start, pages>>
     ELSE /\ pc' = "contig" /\ i' = 0 /\ run' = 0 /\ start' = 0 /\ pages' = n
          /\ UNCHANGED answer
  /\ UNCHANGED <<bitmap, pmm_hint, held>>

(* A run begins here, or goes on. *)
StartNow == IF run = 0 THEN i ELSE start

ContigRoundMut_Stuck ==
  /\ pc = "contig" /\ i < Total
  /\ i' = IF bitmap[i] THEN i ELSE i + 1
  /\ UNCHANGED <<bitmap, held, answer, pc, run, start, pmm_hint, pages>>

ContigRound ==
  /\ pc = "contig" /\ i < Total
  /\ IF bitmap[i]
     THEN /\ run' = 0 /\ i' = i + 1
          /\ UNCHANGED <<bitmap, held, answer, pc, start>>
     ELSE /\ start' = StartNow
          /\ run' = run + 1
          /\ IF run + 1 = pages
             THEN /\ bitmap' = [p \in Page |->
                                  bitmap[p] \/ p \in Run(StartNow, pages)]
                  /\ held' = held \cup Run(StartNow, pages)
                  /\ answer' = StartNow
                  /\ pc' = "idle"
                  /\ UNCHANGED i
             ELSE /\ i' = i + 1
                  /\ UNCHANGED <<bitmap, held, answer, pc>>
  /\ UNCHANGED <<pmm_hint, pages>>

ContigFails ==
  /\ pc = "contig" /\ i >= Total
  /\ pc' = "idle" /\ answer' = 0
  /\ UNCHANGED <<bitmap, pmm_hint, i, run, start, pages, held>>

(* pmm_free: callers free what they hold. *)
Free(p) ==
  /\ pc = "idle"
  /\ bitmap' = [bitmap EXCEPT ![p] = FALSE]
  /\ held' = held \ {p}
  /\ UNCHANGED <<pmm_hint, pc, i, run, start, pages, answer>>

Next ==
  \/ Alloc \/ AllocRound \/ AllocPanic
  \/ \E n \in RunLengths : AllocContig(n)
  \/ ContigRound \/ ContigFails
  \/ \E p \in held : Free(p)

Spec == Init /\ [][Next]_vars

(* A search runs to its end. *)
FairSpec ==
  Spec /\ WF_vars(AllocRound \/ AllocPanic \/ ContigRound \/ ContigFails)

(***************************************************************************)
(* Properties                                                              *)
(***************************************************************************)
TypeOK ==
  /\ bitmap \in [Page -> BOOLEAN]
  /\ pmm_hint \in Usable
  /\ pc \in {"idle", "alloc", "contig", "panic"}
  /\ i \in 0..Total /\ run \in 0..Total /\ start \in Usable
  /\ pages \in 0..Total
  /\ held \subseteq Usable
  /\ answer \in {PANIC} \cup Usable

(* A page that is held is marked, so no search hands it out again. *)
HeldIsMarked == \A p \in held : bitmap[p]

(* What is ever free or handed out is no part of the kernel image, and is  *)
(* a whole page of memory the boot loader called available, with the two   *)
(* exceptions pmm_init makes: the page an unaligned region begins in the   *)
(* middle of, and a region from 4 GiB up, which is taken for the memory    *)
(* its low 32 bits name.                                                   *)
RamOnly ==
  \A p \in Page : p \in held \/ ~bitmap[p] =>
    /\ \E g \in Regions :
         /\ g.type = 1
         /\ \/ Start32(g) <= p * PAGE_SIZE
            \/ Start32(g) % PAGE_SIZE # 0 /\ p = Start32(g) \div PAGE_SIZE
         /\ (p + 1) * PAGE_SIZE <= Start32(g) + g.len
    /\ (p + 1) * PAGE_SIZE <= LOW \/ p * PAGE_SIZE >= KernelEnd

Pool ==
  INSTANCE PagePool WITH
    Limit <- Total, free <- {p \in Usable : ~bitmap[p]}

(* The two searches are the abstract pool: pmm_alloc panics only when no   *)
(* page it may use is free, wherever the hint was, and pmm_alloc_contig    *)
(* answers 0 only when there is no run of that length.                     *)
ImplementsPool == Pool!PoolSpec

(* Every call comes back, or panics. *)
CallsEnd == pc \in {"alloc", "contig"} ~> pc \in {"idle", "panic"}

=============================================================================
