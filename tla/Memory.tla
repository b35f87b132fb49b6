------------------------------ MODULE Memory ------------------------------
(***************************************************************************)
(* Who has which physical page: the address spaces of kernel/mm/vmm.c as   *)
(* process creation, fork, execve, mmap, exit and wait make, copy and      *)
(* destroy them (kernel/task/process.c, kernel/task/syscall.c,             *)
(* kernel/elf.c), next to the pages the file systems and pipes take for    *)
(* themselves.  Pages come from pmm_alloc, which panics when there is      *)
(* none and otherwise gives any free one (PmmProofs, Refinement); which    *)
(* one makes no difference to who owns what, and here it is the lowest.    *)
(*                                                                         *)
(* An address space is a function from slots to pages.  The slots of a     *)
(* process are its page directory, its kernel stack, and for every user    *)
(* directory entry i the page table and the pages it maps, numbered in the *)
(* order in which vmm_copy_pdir visits them.  The first directory entries, *)
(* which map the kernel, are shared and never freed: they have no slots.   *)
(*                                                                         *)
(* A process a signal ended on its way out of a call may make one more     *)
(* call; until then it is "doomed" (see Process, ZombieNeverInUserMode).   *)
(***************************************************************************)
EXTENDS Integers, FiniteSets

CONSTANTS
  Procs, Shell,   \* the pids, each used once; the one without a parent
  NPages,         \* physical pages
  Reserved,       \* pages in use before the first process: kernel, low memory
  TableSize,      \* pages a page table maps
  Images,         \* the sets of virtual pages programs are linked to
  STACK,          \* the virtual page of the user stack
  MMAP_BASE,      \* USER_MMAP_BASE, as a page number
  TRAMPOLINE,     \* SIGRETURN_TRAMPOLINE, as a page number
  Lengths,        \* bound: the page counts mmap is called with
  MaxKernel,      \* bound: the pages of files and pipes
  None

ASSUME MemoryAssumption ==
  /\ Shell \in Procs
  /\ NPages \in Nat /\ TableSize \in Nat \ {0}
  /\ Reserved \subseteq 0..(NPages - 1)
  /\ MMAP_BASE \in Nat /\ TRAMPOLINE \in Nat /\ Lengths \subseteq Nat
  /\ STACK \in TableSize..(MMAP_BASE - 1)
  /\ \A I \in Images : \A v \in I : v \in TableSize..(MMAP_BASE - 1)
  \* 0x40000000 - 0x30000000 is all the memory pmm_alloc can hand out
  /\ TRAMPOLINE - MMAP_BASE >= NPages

VARIABLES
  used,       \* bitmap
  space,      \* address space of each process
  mmap_next,
  parent,
  state,
  kernel,     \* pages held by memfs and pipes
  panicked,
  failed      \* the shell could not be loaded

vars == <<used, space, mmap_next, parent, state, kernel, panicked,
          failed>>

Page == 0..(NPages - 1)

PDIR == 0
Table(v) == (v \div TableSize) * (TableSize + 1)
Mapped(v) == Table(v) + 1 + (v % TableSize)
KSTACK == Table(TRAMPOLINE) + TableSize + 1

(* The slots that vmm_alloc_at needs for a set of virtual pages. *)
SlotsOf(V) == {Table(v) : v \in V} \cup {Mapped(v) : v \in V}

Empty == [s \in {} |-> 0]

(***************************************************************************)
(* Allocation                                                              *)
(***************************************************************************)
Free == Page \ used

NthMut_Advanced(k) ==
  1 + CHOOSE p \in Free : Cardinality({q \in Free : q <= p}) = k

(* The page the k-th call of pmm_alloc from now finds. *)
Nth(k) == CHOOSE p \in Free : Cardinality({q \in Free : q <= p}) = k

(* One page for each slot of S, in the order of the slots. *)
Fresh(S) == [s \in S |-> Nth(Cardinality({t \in S : t <= s}))]

Pages(A) == {A[s] : s \in DOMAIN A}

Join(A, B) ==
  [s \in DOMAIN A \cup DOMAIN B |-> IF s \in DOMAIN A THEN A[s] ELSE B[s]]

Drop(A, S) == [s \in DOMAIN A \ S |-> A[s]]

Enough(S) == Cardinality(S) <= Cardinality(Free)

(* One of the calls of pmm_alloc for the slots S finds no page: PANIC      *)
(* stops the machine.                                                      *)
Panics(S) ==
  /\ ~Enough(S)
  /\ panicked' = TRUE
  /\ UNCHANGED <<used, space, mmap_next, parent, state, kernel, failed>>

(***************************************************************************)
(* Address spaces                                                          *)
(***************************************************************************)

VmmCopyMut_Shared(A, B) == Join(Drop(A, {PDIR, KSTACK}), B)

(* vmm_create_pdir, vmm_copy_pdir and the kernel stack of the child: B is  *)
(* fresh.                                                                  *)
VmmCopy(A, B) == B

VmmDestroyMut_KeepTables(A) ==
  {A[s] : s \in {t \in DOMAIN A : t \in {PDIR, KSTACK}
                                  \/ t % (TableSize + 1) # 0}}

(* vmm_destroy_pdir and pmm_free of the kernel stack: the pages freed. *)
VmmDestroy(A) == Pages(A)

MmapSlots(next) == {Mapped(v) : v \in MMAP_BASE..(next - 1)}

(* mmap_reset: the pages go, their tables stay. *)
MmapReset(A, next) == Drop(A, MmapSlots(next))

(* The caller of a call that is over. *)
After(p) == [state EXCEPT ![p] = IF @ = "doomed" THEN "zombie" ELSE @]

Runs(p) == ~panicked /\ state[p] \in {"live", "doomed"}

(***************************************************************************)
(* Operations                                                              *)
(***************************************************************************)

(* process_create_user, by the kernel task. *)
CreateUser(I) ==
  /\ ~panicked /\ ~failed /\ state[Shell] = "absent"
  /\ LET S == {PDIR, KSTACK} \cup SlotsOf(I \cup {STACK, TRAMPOLINE})
         A == Fresh(S)
     IN  \/ Panics(S)
         \/ /\ Enough(S)
            /\ space' = [space EXCEPT ![Shell] = A]
            /\ used' = used \cup Pages(A)
            /\ state' = [state EXCEPT ![Shell] = "live"]
            /\ UNCHANGED <<mmap_next, parent, kernel, panicked, failed>>

(* /bin/sh does not load; what was mapped of it is not given back. *)
CreateUserFails(V) ==
  /\ ~panicked /\ ~failed /\ state[Shell] = "absent"
  /\ LET S == {PDIR} \cup SlotsOf(V)
         A == Fresh(S)
     IN  \/ Panics(S)
         \/ /\ Enough(S)
            /\ used' = used \cup Pages(A)
            /\ failed' = TRUE
            /\ UNCHANGED <<space, mmap_next, parent, state, kernel, panicked>>

ForkMmapNextMut_Base(p) == MMAP_BASE

ForkMmapNext(p) == mmap_next[p]

SysFork(p, c) ==
  /\ Runs(p) /\ state[c] = "absent" /\ c # Shell
  /\ LET S == DOMAIN space[p]
         B == Fresh(S)
     IN  \/ Panics(S)
         \/ /\ Enough(S)
            /\ space' = [space EXCEPT ![c] = VmmCopy(space[p], B)]
            /\ used' = used \cup Pages(B)
            /\ mmap_next' = [mmap_next EXCEPT ![c] = ForkMmapNext(p)]
            /\ parent' = [parent EXCEPT ![c] = p]
            /\ state' = [After(p) EXCEPT ![c] = "live"]
            /\ UNCHANGED <<kernel, panicked, failed>>

(* The new program is loaded over the old one: pages already mapped are    *)
(* used again, and of the old ones only the mmap area is unmapped.         *)
SysExecve(p, I) ==
  /\ Runs(p)
  /\ LET S == SlotsOf(I \cup {TRAMPOLINE}) \ DOMAIN space[p]
         B == Fresh(S)
         A == Join(space[p], B)
         R == MmapReset(A, mmap_next[p])
     IN  \/ Panics(S)
         \/ /\ Enough(S)
            /\ space' = [space EXCEPT ![p] = R]
            /\ used' = (used \cup Pages(B)) \ (Pages(A) \ Pages(R))
            /\ mmap_next' = [mmap_next EXCEPT ![p] = MMAP_BASE]
            /\ state' = After(p)
            /\ UNCHANGED <<parent, kernel, panicked, failed>>

(* The file turns out to be bad after the pages of V were mapped. *)
SysExecveFails(p, V) ==
  /\ Runs(p)
  /\ LET S == SlotsOf(V) \ DOMAIN space[p]
         B == Fresh(S)
     IN  \/ Panics(S)
         \/ /\ Enough(S)
            /\ space' = [space EXCEPT ![p] = Join(space[p], B)]
            /\ used' = used \cup Pages(B)
            /\ state' = After(p)
            /\ UNCHANGED <<mmap_next, parent, kernel, panicked, failed>>

(* Where the loop of mmap ends: behind the n-th page from base on, or at   *)
(* one that is mapped already, which vmm_alloc_at refuses, as it would the *)
(* trampoline.                                                             *)
MmapStop(p, base, n) ==
  LET Taken(v) == v = TRAMPOLINE \/ Mapped(v) \in DOMAIN space[p]
  IN  CHOOSE e \in base..(base + n) :
        /\ e = base + n \/ Taken(e)
        /\ \A v \in base..(e - 1) : ~Taken(v)

(* n = 0 is what a length of nearly 2^32 is rounded to.  A call that fails *)
(* keeps what it has mapped.                                               *)
SysMmap(p, n) ==
  LET base == mmap_next[p]
      stop == MmapStop(p, base, n)
  IN  /\ Runs(p)
      /\ LET S == SlotsOf(base..(stop - 1)) \ DOMAIN space[p]
             B == Fresh(S)
         IN  \/ Panics(S)
             \/ /\ Enough(S)
                /\ space' = [space EXCEPT ![p] = Join(space[p], B)]
                /\ used' = used \cup Pages(B)
                /\ mmap_next' = [mmap_next EXCEPT
                                   ![p] = IF stop < base + n THEN base ELSE stop]
                /\ state' = After(p)
                /\ UNCHANGED <<parent, kernel, panicked, failed>>

Gone(p) ==
  /\ space' = [space EXCEPT ![p] = Empty]
  /\ used' = used \ VmmDestroy(space[p])
  /\ mmap_next' = [mmap_next EXCEPT ![p] = MMAP_BASE]

(* process_exit: by the process itself, a fault, or a fatal signal, after  *)
(* which it is doomed. *)
SysExit(p, by_signal) ==
  /\ Runs(p)
  /\ IF p = Shell
     THEN /\ Gone(p)
          /\ state' = [state EXCEPT ![p] = "gone"]
     ELSE /\ state' = [state EXCEPT ![p] = IF by_signal THEN "doomed"
                                                        ELSE "zombie"]
          /\ UNCHANGED <<used, space, mmap_next>>
  /\ UNCHANGED <<parent, kernel, panicked, failed>>

(* reap_child *)
SysWaitpid(p, c) ==
  /\ Runs(p) /\ state[c] = "zombie" /\ parent[c] = p
  /\ Gone(c)
  /\ parent' = [parent EXCEPT ![c] = None]
  /\ state' = [After(p) EXCEPT ![c] = "gone"]
  /\ UNCHANGED <<kernel, panicked, failed>>

(* A block of a file or a pipe, by some process; and its release. *)
KernelAlloc ==
  /\ ~panicked /\ Cardinality(kernel) < MaxKernel
  /\ \E p \in Procs : Runs(p)
  /\ LET S == {KSTACK}
         A == Fresh(S)
     IN  \/ Panics(S)
         \/ /\ Enough(S)
            /\ kernel' = kernel \cup Pages(A)
            /\ used' = used \cup Pages(A)
            /\ UNCHANGED <<space, mmap_next, parent, state, panicked, failed>>

KernelFree(pg) ==
  /\ ~panicked /\ \E p \in Procs : Runs(p)
  /\ kernel' = kernel \ {pg}
  /\ used' = used \ {pg}
  /\ UNCHANGED <<space, mmap_next, parent, state, panicked, failed>>

Init ==
  /\ used = Reserved
  /\ space = [p \in Procs |-> Empty]
  /\ mmap_next = [p \in Procs |-> MMAP_BASE]
  /\ parent = [p \in Procs |-> None]
  /\ state = [p \in Procs |-> "absent"]
  /\ kernel = {}
  /\ panicked = FALSE /\ failed = FALSE

Next ==
  \/ \E I \in Images : CreateUser(I) \/ \E V \in SUBSET I : CreateUserFails(V)
  \/ KernelAlloc
  \/ \E pg \in kernel : KernelFree(pg)
  \/ \E p \in Procs :
       \/ \E c \in Procs : SysFork(p, c) \/ SysWaitpid(p, c)
       \/ \E I \in Images :
            SysExecve(p, I) \/ \E V \in SUBSET I : SysExecveFails(p, V)
       \/ \E n \in Lengths : SysMmap(p, n)
       \/ \E b \in BOOLEAN : SysExit(p, b)

Spec == Init /\ [][Next]_vars

(***************************************************************************)
(* Properties                                                              *)
(***************************************************************************)
TypeOK ==
  /\ used \subseteq Page /\ kernel \subseteq Page
  /\ \A p \in Procs :
       /\ DOMAIN space[p] \subseteq 0..KSTACK
       /\ Pages(space[p]) \subseteq Page
       /\ mmap_next[p] \in MMAP_BASE..TRAMPOLINE
  /\ parent \in [Procs -> Procs \cup {None}]
  /\ state \in [Procs -> {"absent", "live", "doomed", "zombie", "gone"}]
  /\ panicked \in BOOLEAN /\ failed \in BOOLEAN

(* No page is in two hands: not in two address spaces, not twice in one,   *)
(* not in a file or a pipe as well, and none of them is free to be handed  *)
(* out again.                                                              *)
OneOwner ==
  /\ \A p \in Procs :
       /\ \A s, t \in DOMAIN space[p] : space[p][s] = space[p][t] => s = t
       /\ Pages(space[p]) \subseteq used \ (kernel \cup Reserved)
       /\ \A q \in Procs \ {p} : Pages(space[p]) \cap Pages(space[q]) = {}
  /\ kernel \subseteq used

(* No page is lost: whatever is marked used is in somebody's hand, through *)
(* every fork, failed or successful execve, exit and wait.  The one leak   *)
(* is a shell that does not load.                                          *)
NothingLost ==
  failed \/ used = Reserved \cup kernel \cup UNION {Pages(space[p]) : p \in Procs}

(* The mmap area of a process is mapped up to mmap_next and not beyond, so *)
(* the next mmap cannot run into a page that is there already, and memory  *)
(* runs out before the trampoline is reached: mmap never fails half way.   *)
MmapAreaExact ==
  \A p \in Procs : state[p] \in {"live", "doomed", "zombie"} =>
    \A v \in MMAP_BASE..(TRAMPOLINE - 1) :
      Mapped(v) \in DOMAIN space[p] <=> v < mmap_next[p]

=============================================================================
