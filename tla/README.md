# muxOS in TLA+

A verification project for muxOS, a 32-bit x86 teaching kernel that runs mlibc
programs (a shell, coreutils) in ring 3.  It models the parts of the kernel
whose correctness depends on the order of steps, of one actor or of several:
the process table and the two ways of switching processes, signals, pipes, the
descriptor tables processes share, the ownership of physical memory, the
in-memory file system, the 9P client with its wire format, and the console from
the keyboard's interrupt to the terminal's escape sequences.

Paths below are relative to `src/`.  `tlc -config X.cfg M` in this directory
repeats a run, `tlapm M.tla` repeats a proof.  `PROJECT.json` gives for every
definition the lines it models, and for every property a mutation of the code
that breaks it.

## Inventory of the system

One CPU, no threads in the kernel.  Every IDT gate is an interrupt gate, so a
trap runs with interrupts off until it irets.  Interleaving comes from the
timer (1000 Hz) taking the CPU from ring 3, and from the few places where
kernel code runs with interrupts on: the kernel task (pid 1), `console_read`
(which does `sti` to wait for keys) and the halt loop after a user fault.

| component | state | operations | hard behaviour | what makes it correct |
|---|---|---|---|---|
| process table and scheduler (`kernel/task/process.c`, `arch/x86/switch.s`) | `processes[]`, `process_count`, `current`, `next_pid`; in hardware the loaded context and `TSS.esp0` | timer tick, sleep, fork, execve, exit, wait, waitpid, creation of the shell | the table is an array that is compacted when a slot goes, under a running process and under recorded indices; two hand-written switching paths | `current` names the loaded process; pids keep naming one process; only processes that can run are run; every process traps onto its own stack; no starvation; zombies are collected |
| signals and groups (`process.c`) | `sig_pending`, `sig_handler`, `in_signal`, `sig_saved`, `pgid`, `foreground_pgid` | kill, sigaction, sigreturn, delivery on the way out of a call, setpgid, setsid, tcsetpgrp | delivery rewrites the trap frame and interacts with sleep, exit and fork | no signal lost or taken twice; a handler returns to what it interrupted; a dead process does not run |
| system-call dispatch (`kernel/task/syscall.c`) | none of its own | one case per call, with its error paths | partial failure of calls that take several resources | whatever fails is undone |
| traps and faults (`arch/x86/isr.c`) | none | user page fault: exit, then halt until the timer switches away | exit and reaping race with the halt loop | as for exit |
| pipes (`kernel/fs/fs.c`) | a ring of one page, `r`, `w`, `count`, `readers`, `writers` | read, write, close of an end | split transfers, full and empty told apart by `count`, polling readers | a byte stream: in order, nothing lost, EOF and EPIPE at the right time |
| open files and descriptors (`fs.c`, `syscall.c`) | `ftable[]` with reference counts, `fds[]` per process | open, close, dup, dup2, pipe, fork, exit | files shared between processes; full tables; errors half way | a descriptor never outlives its file; a pipe never outlives its ends, nor its ends the pipe |
| in-memory file system and paths (`memfs.c`, `fs.c`) | inode table with blocks and directories, one working directory for everybody | open, create, mkdir, link, unlink, rmdir, rename, chdir, read, write, truncate, getdents, lookup | unlink of an open inode, whose number is then reused; rename unlinks its target first; offsets into directories that change | a tree; link counts never fall short; no old bytes; an open inode is not recycled |
| physical and virtual memory (`mm/pmm.c`, `mm/vmm.c`, `elf.c`) | page bitmap, page directories | alloc, free, contiguous alloc, map, copy on fork, destroy, mmap | running out half way; sharing of kernel tables | no page in two hands; what an address space had goes back |
| console and keyboard (`fs/devfs.c`, `drivers/input/keyboard.c`, `kernel/console.c`) | key ring, line being edited, modifier state | key interrupt, read of a line or of raw bytes, echo, `^C`, `^D`, `^L`, backspace | the ring is filled by the interrupt; two sources; `process_kill` with interrupts on | no key lost or doubled; the echo is the line; a line that was ended is returned |
| 9P client (`fs/9p_client.c`) | fids, inodes of the mounted tree, which directories are loaded | mount, load a directory, open, create, mkdir, remove, close | fids on every error path; the host changes its files between two requests | a fid that is kept is one the server knows, in the right state; none is lost |
| 9P wire format and virtio transport (`fs/9p_conv.c`, `drivers/virtio/virtio_9p.c`) | one message buffer | encode, decode, one request at a time | three hand-written switches over 27 message types; lengths the other side chose | decoding inverts encoding, and a short or long message is refused |
| terminal (`tty/*`) | cursor, scroll region, saved cursor, pending wrap, parser state and stack | put a character, control characters, CSI and ESC sequences | any order of sequences with missing, zero, reversed or huge parameters | the cursor and the region stay on the screen as long as parameters fit an int; rows shift as they should |
| load average (`process.c`) | three fixed-point numbers | tick | 32-bit overflow | stays between 0 and the number of processes |
| procfs, devfs, boot, GDT/IDT/PIC, VGA, serial, PCI, reboot, C library, build files | little or none | formatting and register writes | - | - |

Interactions: the assembly stubs call `process_tick` and `signal_deliver` and
then load the slot `current` names; `process_exit` closes descriptors, which
closes pipe ends, which frees pages; `process_fork` shares files through
`fd_fork`; `console_read` takes from the ring the keyboard's interrupt fills,
echoes to the terminal and calls `process_kill`; `dirlookup` of a directory of
the host first loads it over 9P; mlibc
(`ports/mlibc/sysdeps/muxos/sysdeps.cpp`) turns calls that answer EAGAIN into
blocking ones by a loop with one tick of sleep.

## The modules

| module | models |
|---|---|
| `Process` | the process table, both switching paths, signals, process groups, the console's wait |
| `MCProcess` | its instances for TLC |
| `ProcessProofs` | the theorems about it |
| `ByteStream` | what a pipe promises, as an abstract specification |
| `Pipe` | the ring buffer that implements it |
| `MCPipe`, `StreamProofs` | its instance; its theorems and those about `Tty` |
| `FileTable` | the open-file table, the descriptor tables and the pipes' end counts |
| `MCFileTable`, `FileTableProofs` | its instance and its theorems |
| `PagePool` | what the physical page allocator promises, as an abstract specification |
| `Pmm` | the page bitmap and its two searches, which implement it |
| `MCPmm`, `PmmProofs` | its instance and its theorems |
| `Memory` | the address spaces of all processes, over the page pool |
| `MCMemory`, `MemoryProofs` | its instance and its theorems |
| `Memfs` | inodes, directories, paths, and the calls on them |
| `MCMemfs`, `MemfsProofs` | its instances and its theorems |
| `Ninep` | the 9P wire format: encoders, decoders and the checks on an answer, as functions |
| `V9p` | the client on top of it, the server's fids and the host's tree |
| `MCV9p`, `V9pProofs` | its instance and its theorems |
| `Terminal` | the terminal and its parser, as functions from a terminal and a character to a terminal |
| `Tty` | the console: keyboard handler, ring, reader, and that terminal |
| `MCTty`, `StreamProofs` | its instance; its theorems, with one lemma for each operation of `Terminal` |
| `SetFacts` | least members, induction and counting over finite sets, for the proofs |

`V9p` extends `Ninep` and takes an answer for a success only if the decoder's
list of fields is the encoder's (`Understood`), which by `WireExact` means that
the reply comes out as it went in; `Tty` composes the keyboard, the reader
and `Terminal`.  `FileTable`, `Memfs` and `V9p` each keep the part of an open
file that their code reads: the reference count, the offset, and the fid.

### Process

A step is one stretch of kernel code that no interrupt can split.  A system
call is therefore one step, from the trap to the iret: the body of the call,
then `ReturnPath`, which is `signal_deliver` followed by the sleep and zombie
check of `syscall_stub` and, if need be, the switch (`NeedSwitch`, `SwitchTo`).
`Tick` is `irq0_stub`.  A read of the console is several steps (`SysRead`,
`ReadReturns`, `ReadCtrlC`, and `KillTest`/`KillPost`/`KillEnds` for each round
of `process_kill`), because it runs with interrupts on; so are the three steps
of the kernel task that creates the shell (`CreateUser`, `BuildFrame`,
`Publish`).  A user page fault is `PageFault`, after which the process is at
`"halt"` and only the timer moves it.

The state is the C state with data abstracted: an address space and a kernel
stack are named by the pid that owns them, so `cpu` (the context that is
loaded), `tss` (the stack in `TSS.esp0`) and `frame` (the stack that holds a
trap frame) can be compared with `pid`.  `user` says what the user context in
the frame is (`main`, `handler`, or `zero` for the all-zero frame of a slot
that never saved one), `sig_saved` what `sigreturn` would restore; as in the
code a process may call `sigreturn` whether or not it is in a handler.  `halted`
is the end of the world: the CPU popped a frame that is none.  Exit codes,
session ids and names are left out, and `sig_blocked`, which no call sets.
`SIGPROCMASK`, `getpid` and every call that fails without touching this state
are `SysOther`.

### Pipe and ByteStream

`PipeRead` and `PipeWrite` are the `FD_PIPE` branches of `fileread` and `filewrite`
with the arithmetic kept: how much one call moves (`ReadTake`, `WriteTake`),
where the indices go (`Advance`), and which answer an empty or a full ring
gives.  Bytes are represented by their number in the stream, `sent` and
`received` are history.  `ByteStream` has a queue instead of a ring and leaves
open how many bytes a call moves, as long as it moves some; `Contents` is the
refinement mapping.

### FileTable

The tables are passed through the C functions as one record (`FileAlloc`,
`FileDup`, `FileClose`, `FdAlloc`, `FdClose`, `FdFork`, `CloseAll`), and each
system call is one step.  The loops of `process_exit` and `fd_fork` are recursive
functions of the number of turns (`closed[n]`, `copied[n]`), one descriptor a
turn, so that a pipe whose two ends one process has is closed end by end.  A
process that a signal ended on its way out of a
call may still make one more call with an empty descriptor table (finding 1),
which is the life-cycle state `doomed`; what it opens then is forgotten by
`reap_child`, so such files leak, which the properties allow
(`Cardinality(Holders(f)) <= ref`) and the bounds make happen.  Inodes and
devices are one kind of file.

### Pmm and PagePool

`Init` is `pmm_init`: everything used, available regions from `LOW` up freed, the
kernel image taken back with its last page rounded up.  As in the code the 64
bits of a region's address and length are cut to the 32 of a `uint32_t`
(`Start32`, `Length32`, modulo `Word`), and a start inside a page is rounded
down, a length too.  So a region from 4 GiB up is taken for the memory its low
bits name, and the first page of an unaligned region is freed although part of
it is not available; `RamOnly` names both, and says that there is nothing else.
`pmm_alloc` and `pmm_alloc_contig` are modelled one round of their loop at a
time (`AllocRound`, `ContigRound`), although nothing interrupts them, so that
the loops have an invariant that can be stated and proved.  `pmm_hint` moves in
every round, also in those of a call that panics, as in the code.  `held` is
history: the pages that were handed out and not given back; a page is freed
only by its holder, which is what `Memory` shows of the callers.  `answer` is
the last result, with 0 for the null address and `PANIC` for a call that does
not come back.  `PagePool` does an allocation in one step and leaves open which
page it is.

### Memory

An address space is a function from slots to physical pages.  The slots are the
page directory, the page tables, the mapped pages and the kernel stack, so that
`vmm_copy_pdir` is a fresh page for every slot of the parent but shares no
page, and `vmm_destroy_pdir` frees the image of the function.  Directory
entries of the kernel are shared and never freed; they have no slots.  `execve`
loads over the old program: pages already mapped are used again, and only the
mmap area is released, by `mmap_reset`, which keeps the page tables.  When the
file turns out to be bad half way, what was mapped so far stays with the
process (`SysExecveFails`).  Every operation first asks for all the pages it
needs (`Enough`, `Panics`): `PANIC` stops the machine for good, so the
half-done states before a panic are never seen.  The page chosen is the lowest
free one; the code's choice depends on the hint, but by the theorem
`Refinement` of `PmmProofs` all a caller learns is that the page was free, and
the operations of this module never compare page numbers.  `mmap` stops and fails
at the first page that is mapped already (`MmapStop`) and keeps what it has
mapped; `MmapAreaExact` is why that never happens.  A pid is used once,
as in the code, and `doomed` is the state of `FileTable` again.

### Memfs

A system call is one step, and one that fails before it changes anything is
none.  Calls that fail after they changed something are steps: `open` that
creates or truncates and then finds the file table full, and `rename` that
removes its target and the old name and then finds no room in the new
directory.  A file is a size and blocks of the bytes 0 and 1, so that zeroed
and old bytes can be told apart; a directory is its sequence of entries with
the holes that removals leave.  `Walk` is `namexat`, `Normalized` is
`path_normalize`, and the working directory is, as in the code, one string for
all processes, walked again at every use, so that it may name something that is
gone.  Inode 3, the console, is in the tree from the start.

A `.` or `..` at the end of a path is an ordinary name to `rmdir`, `rename`,
`unlink` and `link`, as in the code: `rmdir("d/.")` frees a directory that still
has a name, and a rename of `..` gives a directory two names.  From there on the
tree is none, and the properties about it say nothing.  `dotted` is history: 0
until a call links or unlinks a `.` or `..`, and then the number of calls from
that one on, which `MaxDotted` bounds.  `TreeShape`, `LinkCounts` and
`CursorsStable` are about `dotted = 0`, that is, about any paths until such a
call; `TypeOK`, `BlocksMatchSize` and `NoStaleBytes` hold after it as well.

Not followed: what `write(2)` and `ftruncate(2)` do to a directory, which
nothing stops; a creating `open` of a name whose inode was freed, which takes
the null pointer of `iget` for an inode; and permission bits, which are stored
and never looked at.  A
rename of a directory into its own subtree, which the code allows, is in the
model, and makes a cycle no path leads to; the properties are about what paths
lead to or hold there as well.  The mount point of the host's tree is left out
of `Boot`.

### Ninep and V9p

`Ninep` has for every message type three lists of fields, one for each switch of
`9p_conv.c`: what `sizeS2M` counts, what `convS2M` writes and what `convM2S`
reads.  Bytes are bytes: integers are little-endian of their width (those of 32
and 64 bits are sequences of 16-bit digits, as TLC's integers end at 2^31),
strings and lists have their counts, and reading past the end of the message is an error.
`RpcReply` is what `v9p_rpc` makes of an answer (its length, type, and `Rerror`).

In `V9p` a step is one request with its answer and the code up to the next
request.  Calls do not overlap, since the client polls with interrupts off; but
between any two requests the host may create or remove a file, and the server
may refuse any request.  `Start` is a call on a directory and a name; lookups of
the components before it are calls of their own.  `v9p_loaddir` (`LoadWalk` to
`LoadClunk`) runs inside another call, which goes on where it was.  The fids at
the server (`srv`) stand for paths, are open or not, and remember what of a
directory was read.  A mount whose mount point is missing fails after the
server has attached fid 0, which is then left over.

Left out: the contents and sizes of files, `.` and `..`, names longer than
`DIRSIZ` (which `dirlink` cuts), the 256 bytes `v9p_loaddir` has for the strings
of an entry, which `convM2D` does not check, and inodes and files of other file systems, which share the tables.
A server that lists a name twice in one load is not modelled.  `msize` is taken
to be above 24, as QEMU's is.  Every call takes fids and none gives a number
back, so `MaxFid` ends the run: behind it each walk fails, and all error paths
are taken once more.

### Terminal and Tty

`TerminalWrite` feeds characters to the parser, which collects the parameters of
a sequence (`stack`) and calls the operation.  Parameters are unsigned ints that
wrap, `arg` casts them to int, and sums of ints wrap too (`AsInt`; the build has
no optimisation that would make another choice): a parameter of 2^31 or more is
negative, and moves the cursor off the screen.  `far` is history: a sequence that
moves the cursor had such a parameter, or one so close to it that the sum with
a position overflows, and there has been no reset since.  The cells are not
modelled, so neither is what a character written there overwrites; the
loops that move rows (`scroll_up`, `scroll_down`, `insert_lines`,
`delete_lines`) are, on rows that carry their old position, and are compared
with a definition of what the operation should do (`RowsExact`).  `hung` says
that a write does not come back.

`Tty` puts `console_read` on top: `Wait`, `KbTake`, `KbAdvance`, `SerialTake` and
`Got` are the points between which the keyboard's interrupt may come, and
another process's `console_write`, a character at a time.  The echo of a
character, its effect on the line and the test for the end of the read are one
step (`Got`).  They share nothing with the handler but the last test for more
input; what another process might write between two characters of one echo is
not modelled.  `mode` is a choice at the start of a read, since any process may
set it and the code looks at it once.  A read begins wherever the cursor is and
whatever the terminal was left in, in the middle of a sequence too.  `^L` writes
the prompt again, whatever the cells before the cursor showed (`Glyphs`).  The
sending of SIGINT by `^C` is in `Process` (`ReadCtrlC`); here the read either
ends or, if the reader ignores the signal, goes on.

`EchoColumn` is about a line that is typed (`typed`, history): the read began
outside a sequence, with no wrap pending and the cursor on the screen, nobody
else has written since, and every character came from the keyboard and takes up
a column - one from the serial line is not echoed, and a tab, an escape or
another character below 32 does not take up one.  In the other cases the code
does not keep the echo and the line together, and the property does not say so.

What the model does not have: a second reader; more than one waiting character
on the serial line; in raw mode the values of the bytes read; and all but three
letters of the keyboard's tables, so that a sequence such as `ESC [` cannot be
typed, only written by a process.  The escape key and the shift keys are in the
handler and in the proofs but not in the instance.

## Runs

| run | shows | bounds, and why they are enough |
|---|---|---|
| `process_lifecycle` | Three user processes fork, sleep, exit, fault, are signalled and reaped in every order.  `CurrentIsLoaded`, `PidsNameProcesses`, `IdleAlwaysRunnable`, `OwnKernelStack`; the action property `HandsOverToRunnable` | 5 slots, pids up to 5, so fork meets a full table, the table is compacted at and above the running slot, and there are grandchildren, orphans and pids of reaped processes.  Sleeps of up to 2 ticks and a fatal signal distinguish the cases of the two switching paths.  Groups other than the shell's are made while a pid is left (`FewGroups`, a constraint of the run): scheduling does not look at them |
| `process_signals` | Handlers: `SleepHonoured`, `SignalsNotLost` | The shell and one child, two signals, 2 (fatal by default) and 17 (ignored by default), each caught or not; both may be pending at once, before and during a handler; fork and sleep inside and outside handlers, `sigreturn` anywhere, and `^C` from the console.  Two are enough for the signal loop: one it takes and one it must leave or drop |
| `process_fair` | Liveness: `EveryProcessRuns`, `ZombiesAreReaped` | 5 slots, pids up to 5, sleeps of up to 2 ticks: three user processes and the two kernel tasks, so that a process sleeps through a tick in which others run, and slots below and above it go between two of its turns |
| `pipe` | `InOrder`, the refinement `ImplementsStream`, and the liveness properties `AllDelivered` and `EofReached` | A ring of 4 bytes, transfers of -1, 0, 1, 3 and 6, 12 bytes in all: the ring goes round three times, and a call asks for less, as much and more than there is |
| `files` | `NoDanglingDescriptor`, `PipeEndsCounted` | Two processes with two descriptors each over four files and two pages: pipe meets one free file, one free descriptor and none; dup meets a full table |
| `pmm` | `HeldIsMarked`, `RamOnly`, the refinement `ImplementsPool`, and `CallsEnd` | Pages of 4 bytes, a kernel that ends inside page 1, a region that ends inside a page, one that begins inside one, one past the 6-bit addresses that is taken for page 5, one longer than a word, a reserved one, low memory that must stay used and a free page beyond the limit.  Five pages in three clusters can be handed out, and runs of 0, 1, 2, 3 and 10 are asked for: a run that is too long, does not fit into the gaps, or fits exactly; the hint goes round and passes the whole bitmap |
| `memory` | `OneOwner`, `NothingLost`, `MmapAreaExact` | Three processes over 23 pages.  A process takes seven to nine pages, so three fit without an mmap area and two with one, and all operations meet a full memory.  The stack and the first page of the mmap area share a page table, which outlives `mmap_reset`.  An mmap of 30 panics, as in the code, where the mmap area is as large as all physical memory |
| `memfs` | `TreeShape` (directories form a tree with right `..`), `LinkCounts` (a link count is never below the names there are), `BlocksMatchSize` (pages and sizes agree), `NoStaleBytes` (a byte that becomes part of a file is what was written or 0), `CursorsStable` (removals and creations move no entry across a getdents cursor) | Three inodes, the root among them, one open file, blocks of two bytes, directories of four entries, so that with `.` and `..` two names fill one; paths of one and two components, absolute, relative, through `..` and ending in `.`, with two calls from the one that unlinks the `.` on; three ways of opening.  Directories, the file table and the inode table fill up, and a removed inode is used again under an open file |
| `v9p` | `FidDiscipline`, `WireExact`, `NothingLost`, and the liveness property `CallsEnd` | Three inodes, one open file, two names and a directory in the directory: a load needs two reads, finds too few inodes, and finds files that are gone or have become others.  Five fids are enough for a load, a create and an open one after the other.  `WireExact` is about all 27 message types, with numbers at both ends of every width, strings of several lengths, lists of no, one, `MAXWELEM` and one more items, and every message cut at every byte |
| `tty` | `TypeOK` (here the screen's bounds), `ScreenExact`, `EchoColumn`, `FifoRing`, and the liveness property `LineDelivered` | A screen of 3 rows and 4 columns with tab stops at 2 (as in the code the columns are a multiple), ints that end at 15 and two characters of parameters, so that 22 is a negative int, 72 wraps to 8, and 77 wraps to 13, whose sum with a column overflows; a ring for two characters, reads of two characters, the final character of every sequence that moves the cursor.  Regions of two and three rows, each row as cursor position, wraps at the end of each row and a full ring all occur.  A behaviour has one of six workloads: every character written, without input; a writer of blanks and a cursor move during reads; the serial line beside the keyboard; `^C` and `^L`; `^D`; the tab key.  Once the cursor is far, two more characters are written (`MaxLate`) |
| `zombie_runs`, `inode_reuse` | each a disagreement between the code and a comment, see below | as the runs above |

Bounds named in the modules (`MaxPid`, `MaxSleep`, `MaxSent`, `MaxRef`, `MaxKernel`,
`MaxUse`, `MaxLinks`, `MaxOff`, `MaxDotted`, `MaxLate`, `FewGroups`, `MaxFid`, and the sets `Signals`, `Dispositions`,
`Groups`, `Calls`, `Sizes`, `RunLengths`, `Lengths`, `Paths`, `Flags`, `Scancodes`,
`SerialChars`, `Output`, `Glyphs`, `ReadSizes`) cut off behaviour
only at the end of a counter: the code's pids, for one, are never reused, so a
run with `MaxPid` pids is a prefix of a longer one.  Deadlock checking is off:
a halted or panicked machine, an exhausted pid bound, a pipe with both ends
closed, and a terminal that hangs may really stop.

`memory` uses a `VIEW`: states that differ only in which page is in which slot
are one state.  The view keeps the slots of every process and the number of
pages that are used, which decide every guard; a state in which a page has two
owners is never merged with another, so a violation is not hidden.

### Fairness

* `WF(Tick)`: the PIT is programmed once and keeps firing; every stretch of
  kernel code with interrupts off is finite.  This is all `EveryProcessRuns`
  needs.
* `SF` of the shell's `waitpid(-1)`: mlibc's waitpid is a loop of the call
  and a sleep of one tick as long as it answers EAGAIN
  (`sysdeps.cpp`, `sys_waitpid`).  Strong fairness, because the call is enabled
  only while the shell has the CPU, which the timer takes away again and again.
  A shell that sits in a read of the console is excepted by the property, as
  nothing forces a user to type.
* `WF` of the reader's `Read` with a positive count: mlibc's read loops in the
  same way, and by `EveryProcessRuns` the reader keeps getting the CPU.  Nothing
  is assumed of the writer.
* `WF` of the rounds of the two searches of `Pmm`: they are loops without a wait,
  run with interrupts off or in a task that keeps getting the CPU.
* `WF` of `Continue` in `V9p`: the client polls for the answer to each request
  without a timeout, so this is the assumption that the server answers every
  request.  The code needs it; nothing in it covers a server that does not.
  Nothing is assumed of the host's other programs.
* `WF` of `Reader` in `Tty`: the reader spins with interrupts on and, by
  `EveryProcessRuns`, keeps getting time slices.  Nothing is assumed of the user,
  the serial line or other processes.

## Findings

Two have a run that exhibits them:

1. `zombie_runs` - `signal_deliver` calls `process_exit` for a fatal signal and
   then returns 1, "a handler was entered", which makes `syscall_stub` skip the
   zombie check: the dead process goes on in ring 3 until the timer fires.
   The comment at `process.c:732` says "Default actions may terminate the process (no return)."
2. `inode_reuse` - `vfs_unlink_at`, `vfs_rmdir_at` and `vfs_rename_at` free an
   inode when its link count reaches 0, although it may be open; the next file
   created gets the number, and the old descriptor reads and writes the new
   file.  The comment at `memfs.c:91` leaves the check to the caller of `ifree`.

What else the modelling brought up, without a run of its own:

* `process_exit` of a process without a parent (the shell) jumps into the next
  one without `tss_set_kernel_stack` (`process.c:420`;
  `docs/DEVELOPMENT.zh-CN.md:145`).  `OwnKernelStack` and `SleepHonoured` are
  stated for the time before that (`Live(2)`), and hold.
* `process_sigreturn` does not look whether a handler runs: a process that calls
  it otherwise goes on where its last handler was entered, or at zero.
* A child forked inside a handler has no saved context, and its `sigreturn`
  restores zeroes (`process.c:541`).
* `dup` with a full descriptor table keeps the reference it took
  (`syscall.c:416`), so the readers of a pipe may never see EOF.
* `pmm_init` takes a region from 4 GiB up for low memory, and frees the page an
  unaligned region begins in (`pmm.c:42`, `pmm.c:138`).
* `rmdir`, `rename`, `unlink` and `link` accept a last component `.` or `..`, and
  break the tree.
* A write through a handle to a freed inode gives it pages, and the next
  `ialloc` forgets them.
* `v9p_remove` frees an inode and never clunks its fid, so the number of fids at
  the server is not bounded by the inode table as `9p_client.c:21` has it.
* `v9p_mkdir` in a directory that was never listed loads the listing after the
  host has made the directory; the name is then there already, and the inode and
  fid of the call are left without one.  `NothingLost` excepts these two steps.
* `dir_loaded` is set before the listing is read and never reset: a directory
  whose load failed half way stays partly listed.  A create that finds no inode
  leaves the host's file outside the listing.
* A file that cannot be opened for writing is opened for reading, and the write
  mode and truncation are dropped without an error.
* `convM2S` refuses a `Tattach` and a `Tcreate` that `convS2M` has encoded.  The
  client never decodes one.
* Most sequences that move the cursor leave `pending_wrap` set, so that a
  character written after a move from the last column lands on another row
  (`terminal.c:29`).  `EchoColumn` is therefore about reads that begin without it.
* A tab in the last column with autowrap off never ends, with interrupts off.
  `TypeOK` of `Tty` says that with the cursor on the screen this is the only way to
  hang.
* A parameter of 2^31 or more becomes a negative number and takes the cursor off
  the screen, where the next character is written to other memory.  Only a reset
  brings it back in every case.
* The parser's `argv` has no slot left when all characters of a full stack are
  `;`; the model's list of parameters has no end.
* In raw mode with `ISIG`, a `^C` the reader ignores skips the test for more
  input (`devfs.c:47`), so bytes already read wait for the next key, which the
  comment at `devfs.c:38` rules out.
* `keyboard_handler` tests `scancode & 0x80` before 0xE0, so the branches for the
  cursor keys are never taken.
* Two processes that read the console at the same time may both take the same
  character and move the tail past the head.

## Proofs

TLAPS proves for every number of slots, pids, sleeps, signals, groups and calls
(`ProcessAssumption`), every size of ring and of transfers (`PipeAssumption`),
every memory map, every kernel size and every bitmap (`PmmAssumption`), any finite number of processes, files,
descriptors and pages (`FileTableAssumption`), any number of processes and pages
and any set of images that lie between the first page table and the mmap area,
as the linker script (`ports/mlibc/hello.ld`) puts them (`MemoryAssumption`),
any number of inodes, files, blocks and directory entries from what `fs_init`
needs upwards, any block size and any set of paths (`MemfsAssumption`), and any
set of paths and names and any number of inodes, files, fids and reads
(`V9pConstants`), and any size of the key ring, of reads and of the parser's
stack, any characters written and any scan codes (`TtyConstants`), on any screen
of at least two rows and columns with a tab stop behind the first column of each
row and ints that hold its sizes (`TerminalConstants`; with 80 columns and a stop every 8 there are nine, and
on a screen without one a tab would go round for ever even with autowrap):

* `ProcessProofs`: `TypeCorrect`, `CurrentLoaded`, `PidsAreNames` and
  `IdleRunnable`, all from one inductive invariant, `IInv`.  `CurrentIsLoaded`
  alone is not inductive: it is lost at a reap if the slot that goes is not
  where the code's arithmetic expects it.  What saves the code is that slots are
  appended with ever larger pids and removed without changing their order, so
  the table is sorted by pid; a parent is older than its child; hence a child
  that a caller reaps sits above the caller, and `current` does not move.  In
  the same way slots 0 and 1 are the boot task and the kernel task for ever:
  neither makes a system call, and neither has a parent that could reap it.
  `SlotOK` and `TableOK` say this of a table in the middle of a step, so there
  is one lemma for each stage of the way out (`Ticked`, `Zombified`, `Compact`,
  `SwitchTo`, `NeedSwitch`, `Deliver`, `ReturnPath`), and each system call
  is a table that is `TableOK` followed by `ReturnPath`.

  `OwnStacks`, `SleepsLast` and `HandsOver` need more (`KInv`): every frame in
  the table is sound (`FrameOK`: a process that may be switched to has one, and
  it is its own), `tss` is the stack of what runs, and the process that runs is
  awake or in a handler.  Each of these is lost when the shell, which has no
  parent, exits, so they are stated for the time before (`Gone` is the other
  disjunct), and each is restored by a switch; that the switch on the way out
  always finds somebody is `IdleAlwaysRunnable` together with the fact that a
  round robin from any slot comes to the kernel task.  Before the shell is
  published no user process runs (`Booting`).  `NoSignalLost` is an action
  property over `IInv`, proved stage by stage like the invariant: a slot is
  followed through `Compact` by its pid, every stage but delivery leaves the
  pending set alone or adds to it, and delivery stops at the first signal that
  is not dropped, so that it spends one at most, and that one is caught or ends
  the process.
* `StreamProofs`, for pipes: `ReadsInOrder` and `Refinement`.  The invariant is
  that the write index is the read index plus `count`, wrapped, and that the
  k-th byte of the ring is the k-th unread one; the refinement follows because
  `Contents` is then a run of consecutive numbers, of which a read takes a
  prefix and to which a write adds a suffix.

  For the console: `ConsoleTypes`, `RowsShift`, `EchoExact` and `KeysInOrder`, from
  `ConsoleInv`.  One lemma for each operation of `Terminal`, each final character
  and each state of the parser says that a terminal with its region on the screen
  and, unless it is `far`, its cursors too (`Terminals`) remains one: the casts
  and sums stay in the range of an int (`AsIntOK`), and are what they look like
  when no parameter is `Large`.  That only a tab without
  autowrap hangs is a measure: `Dist`, the blanks still to be written before the
  cursor comes to a tab stop, falls by one at each turn of the tab's loop while
  autowrap is on, also over the end of a row, and the loop's bound is above it.
  `RowsShift` gives what each loop over rows has copied after k turns in closed
  form; the order of the copies matters, as each reads a row that a later one
  overwrites.

  `EchoColumn` alone is not inductive.  A character takes one column only if no
  sequence is open, no wrap is pending and the cursor is on the screen, and a
  redraw by `^L` comes to the same column only if all of the line is printable
  and the prompt is the glyphs of a row; so `Shown` says this too, for as long
  as `typed` holds.  `FifoRing` needs that a reader that goes for a character finds
  one, and that what it took is still the slot at the tail when it moves the
  tail, although the handler ran in between (`RingHeld`): the handler writes at
  the head only, and never when that would meet the tail.
* `PmmProofs`: `OneHolder`, `OnlyRam` and `Refinement`.  That a held page is
  marked is inductive; that a panic means there is no free page is not.  The
  invariant (`AllocOK`) is that the pages the call has visited, counted
  backwards from the hint and round the end, are used: after `Total` rounds
  these are all of them, wherever the hint was.  For the contiguous search
  (`ContigOK`) the pages from `start` to the counter are free, the page before
  `start` is used, and no run of the length asked for ends before the counter,
  so a 0 at the end means that there is none.  `OnlyRam` follows because the
  set of pages that are free or held never grows after `pmm_init`, and for
  `pmm_init` from what the casts and rounding down a region and rounding up the
  kernel do.
* `MemoryProofs`: `TypeCorrect`, `NoPageShared`, `NoPageLost` and
  `MmapAreaIsExact`.  `OneOwner` and `NothingLost` are one invariant (`Owned`) of
  a bitmap and the address spaces, which two lemmas carry through every
  operation on a space: `Grow` (fresh pages go into empty slots) and `Shrink`
  (the pages of some slots are unmapped and freed); the kernel's own pages are
  in `KernelAllocOK` and `KernelFreeOK`.  That `vmm_copy_pdir` and the loading of an image
  hand a fresh page to each slot rests on the fact that the lowest free pages
  are as many as are asked for and are all different (`EveryRank`, `RanksDiffer`
  of `SetFacts`).  `MmapAreaExact` needs that the slots of pages and of page
  tables never coincide and that an image and the stack end below the mmap area,
  and for the calls that fail, that memory runs out before the area does: by
  `Owned` the pages of the area are different pages, and there are fewer than
  the area is long.
* `FileTableProofs`: `TypeCorrect`, `DescriptorsAreCovered`, `PipeEndsAreCounted`.
  The invariant (`Good`) is on the three tables as one value, so that it can be
  stated between two C functions of one call: a free entry is blank, a file's
  references are at least its descriptors, and a pipe has at most one file for
  each end and counts it.  Each function keeps it, under the condition that the
  caller has a reference to spare where it stores a descriptor; the loops of
  `process_exit` and `fd_fork` keep it turn by turn (`Loop` of `SetFacts`).  The
  full tables are where the spare references go: `dup`'s error path leaves one
  for ever, which is why the invariant is `<=`.
* `V9pProofs`: `FidsKept` and `KeepsAll`.  `FidDiscipline` needs (`IInv`) that the
  fid a call or a load carries is spare, in nobody else's hands, so that what
  happens to it disturbs no one; that an inode not yet linked is in no
  directory; and that no inode is in two directories, or freeing one would leave
  the other entry dangling.  Most requests are then `Quiet`: they touch the
  spare fid only.  `NothingLost` needs more (`JInv`): a fid number a call has
  dropped is dead at the server; a directory not loaded has no entries, and
  while one is loaded each entry to come is in no listing yet and occurs once,
  so that the inode made for it does get its name; a `creat` that got past the
  lookup finds the name free when it links, since nothing else ran; the mount
  point has fid 0 and no name.  That a walk the server did is always one the
  client sees succeed is `WalkUnderstood`, from the wire format's tables.
* `MemfsProofs`: `TypeCorrect`, `PagesMatch` and `NothingStale` for all paths.
  The type of an inode (`Inode`) has to say that its blocks are those its size
  needs: `itruncate` and `bmap` are right only for such an inode, and `ifree`
  and the stale handles of a reused number never leave another one.  What a
  write or a truncation does to byte k of a file is `FillBytes`, from the
  arithmetic of blocks (`Quotient`, `BlockOf`).

  `TreeKept`, `LinksCover` and `CursorsKept` are for all paths too, and hold until
  a call links or unlinks a `.` or `..`: a step that does not (`Ordinary`, by the
  history `dotted`) keeps the tree, and after one that does the properties claim
  nothing.  `TreeShape` and `LinkCounts` need each other and more
  (`Good`): a removal takes the one name of a directory away only because it has
  one; it leaves a link count that covers the other names only because the
  count covered all; an inode is free to be taken only because no entry names a
  free inode; the root has no name, so nothing removes it.  The calls go through
  states in which this is not so: a directory that has just been moved has a
  `..` that is out of date until it is unlinked and linked again, and the count
  of its new parent is one short until the `nlink++` that follows.  `Good(I, x, y)` is the
  invariant with those two exceptions named (the `..` of x, the count of y; 0 is
  none), and there is one lemma for each thing a call does to the tree (an
  entry added, one removed, a count raised or lowered, an inode taken or freed)
  that says which exceptions it makes or mends.  A rename that fails at its last
  `dirlink`, after target and old name are gone, leaves an inode with a link
  more than it has names and nothing worse (`Counted` is `<=`).  `CursorsStable` follows from the same facts: an entry is
  written into a hole or at the end, and no name is there twice.
* `SetFacts`: induction here is a least counterexample, which needs no theorem
  with an operator for a parameter.

Only model-checked: the liveness properties (fairness and `ENABLED` are out of
the prover's reach), and the findings, which are counterexamples.  The workloads
of `MCTty` are subsets of what `Tty`'s `Next` does, so its theorems cover them.  `WireExact` says what `Ninep`'s encoders and decoders
compute for messages put together from lists of bytes; it is an induction over
data and stays with TLC.

## Plan

Done, each with its runs: `Process`, `Pipe`/`ByteStream`, `FileTable`,
`Pmm`/`PagePool`, `Memory`, `Memfs`, `Tty`/`Terminal` for one reader, `Ninep` and
`V9p` without file contents; and the proofs above.  Left: a second reader of the
console, `^C` with more processes than `process_signals` has, writes between the
characters of one echo, and keys that spell a whole sequence.

## Not modelled, and why

Register programming (GDT, IDT, PIC, PIT, VGA, serial, PCI, reboot, the setting
up of the virtio queue) keeps no state that a later step reads.  The C library
and procfs copy and format.  The load average is a fixed-point decay with 11
fractional bits: with 64 processes its products stay below 2^29, and nothing
reads it but procfs.  Most of mlibc's system dependencies passes arguments on;
the loops that matter are the fairness above.  What is in the cells of the screen,
colours and erasure are drawn and never read back, but for the prompt that `^L`
repeats, of which the length is kept.  `process_schedule` and `context_switch`
have no caller.  The ports are other people's programs.
