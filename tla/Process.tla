------------------------------ MODULE Process ------------------------------
(***************************************************************************)
(* The process table of kernel/task/process.c, the two assembly paths that *)
(* switch between processes (irq0_stub and syscall_stub of                 *)
(* arch/x86/switch.s) and the system calls that change the table.          *)
(*                                                                         *)
(* Every gate of the IDT is an interrupt gate, so on the single CPU a      *)
(* system call runs with interrupts off and is one step, from the trap to  *)
(* the iret, signal delivery and the rescheduling on the way out included. *)
(* Three places run kernel code with interrupts on and are interleaved     *)
(* with the timer: the kernel task (pid 1), a read of the console, and the *)
(* halt loop a user page fault ends in.                                    *)
(*                                                                         *)
(* Abstractions.  An address space, a kernel stack and a user program are  *)
(* named by the pid that owns them.  "frame" is the kernel stack that      *)
(* holds a process's trap frame (ctx.esp and syscall_esp), "user" says     *)
(* what the user context in that frame is.  Exit codes, session ids and    *)
(* names are left out; sig_blocked is always 0 (SIGPROCMASK does not set   *)
(* it).                                                                    *)
(***************************************************************************)
EXTENDS Integers

CONSTANTS
  MAX_PROCESSES,  \* slots of the process table
  MaxPid,         \* bound: the last pid handed out
  MaxSleep,       \* bound: the longest sleep, in ticks
  WaitTicks,      \* the ticks process_wait sleeps for (10 in the code)
  Signals,        \* bound: the signal numbers used
  Dispositions,   \* bound: the dispositions sigaction is given
  Groups,         \* bound: the groups setpgid and tcsetpgrp are given
  Calls           \* the system calls the user programs make

SIGINT == 2

ASSUME ProcessAssumption ==
  /\ MAX_PROCESSES \in Nat /\ MAX_PROCESSES >= 3
  /\ MaxPid \in Nat /\ MaxPid >= 2
  /\ MaxSleep \in Nat
  /\ WaitTicks \in 1..MaxSleep
  /\ Signals \subseteq 1..31 /\ SIGINT \in Signals
  /\ Groups \subseteq 0..MaxPid
  /\ Dispositions \subseteq 0..2

VARIABLES
  processes,        \* processes[0..process_count-1]
  process_count,
  current,          \* index of the running process
  next_pid,
  foreground_pgid,
  init_pc,          \* where task_kernel_init is
  cpu,              \* hardware: the pid whose context is loaded
  tss,              \* hardware: the owner of the stack in TSS.esp0
  halted            \* hardware: a kernel fault stopped the machine

vars == <<processes, process_count, current, next_pid, foreground_pgid,
          init_pc, cpu, tss, halted>>

SIG_DFL == 0
SIG_IGN == 1
CATCH   == 2  \* the address of a user handler

(* SIGCHLD, SIGCONT, SIGSTOP, SIGTSTP, SIGTTIN, SIGTTOU, SIGURG, SIGWINCH *)
DefaultIgnored == {17, 18, 19, 20, 21, 22, 23, 28}

NoFrame == -1  \* ctx.esp still holds the entry point, no frame is built
Wild    == -2  \* ctx.esp was computed from another stack

(* Where the code of a process is when none of its steps is in progress:   *)
(* "boot" kernel_main, "task" the kernel task, "user" ring 3, "read"       *)
(* console_read, "kill" and "post" process_kill called from console_read   *)
(* (before the match test, and between the test and the write), "halt" the *)
(* loop after a user fault.                                                *)
Places == {"boot", "task", "user", "read", "kill", "post", "halt"}

Contexts == {"none", "zero", "main", "handler"}

Proc == [pid : 0..MaxPid, parent_pid : 0..MaxPid, pgid : 0..MaxPid,
         state : {"RUNNING", "ZOMBIE"}, started : BOOLEAN,
         kernel_stack : BOOLEAN, sleep_ticks : 0..MaxSleep,
         sig_handler : [Signals -> 0..2],
         sig_pending : SUBSET Signals, in_signal : BOOLEAN,
         sig_saved : Contexts, user : Contexts, where : Places,
         frame : {NoFrame, Wild} \cup (0..MaxPid),
         kill_to : (-MaxPid)..MaxPid, kill_i : 0..MAX_PROCESSES]

(* A zeroed slot, as kmemset leaves it, with its pid, in state PROC_RUNNING. *)
ZeroProc(pid) ==
  [pid |-> pid, parent_pid |-> 0, pgid |-> 0, state |-> "RUNNING",
   started |-> FALSE, kernel_stack |-> FALSE, sleep_ticks |-> 0,
   sig_handler |-> [s \in Signals |-> SIG_DFL], sig_pending |-> {},
   in_signal |-> FALSE, sig_saved |-> "zero", user |-> "none",
   where |-> "task", frame |-> pid, kill_to |-> 0, kill_i |-> 0]

Slots(n) == 0..(n - 1)

(* Append a slot; remove slot i, moving the ones above it down by one. *)
Extend(P, n, p) == [i \in Slots(n + 1) |-> IF i = n THEN p ELSE P[i]]
Compact(P, n, i) == [j \in Slots(n - 1) |-> IF j < i THEN P[j] ELSE P[j + 1]]

RunnableMut_NoStarted(p) ==
  p.pid # 0 /\ p.sleep_ticks = 0 /\ p.state = "RUNNING"

(***************************************************************************)
(* Scheduling                                                              *)
(***************************************************************************)
Runnable(p) ==
  /\ p.pid # 0
  /\ ~p.kernel_stack \/ p.started
  /\ p.sleep_ticks = 0
  /\ p.state = "RUNNING"

Ticked(P) ==
  [i \in DOMAIN P |->
     [P[i] EXCEPT !.sleep_ticks = IF @ > 0 THEN @ - 1 ELSE 0]]

ProcessTickMut_LowestFirst(P, n, cur, next) ==
  LET ready == {i \in Slots(n) : Runnable(P[i])}
      first == {i \in ready \ {cur} : \A j \in ready \ {cur} : i <= j}
  IN  IF first = {} THEN next = -1 ELSE next \in first

(* The slot process_tick picks (or -1): the first runnable one when going  *)
(* round from current + 1, if that is not current itself.                  *)
ProcessTick(P, n, cur, next) ==
  LET dist(i) == IF i > cur THEN i - cur ELSE i - cur + n
      ready   == {i \in Slots(n) : Runnable(P[i])}
      first   == {i \in ready : \A j \in ready : dist(i) <= dist(j)}
  IN  IF first \subseteq {cur} THEN next = -1 ELSE next \in first

(* What happens when the CPU pops this process's frame. *)
Broken(p) == p.frame \in {NoFrame, Wild} \/ p.user = "zero"

SwitchToMut_NoTss(P, n, next) ==
  /\ processes' = [P EXCEPT ![next].started = TRUE]
  /\ process_count' = n
  /\ current' = next
  /\ cpu' = P[next].pid
  /\ tss' = tss
  /\ halted' = Broken(P[next])

(* Load slot next: TSS.esp0, %gs, cr3, started and the saved stack. *)
SwitchTo(P, n, next) ==
  /\ processes' = [P EXCEPT ![next].started = TRUE]
  /\ process_count' = n
  /\ current' = next
  /\ cpu' = P[next].pid
  /\ tss' = IF P[next].kernel_stack THEN P[next].pid ELSE tss
  /\ halted' = Broken(P[next])

(* iret back to the code that was interrupted. *)
Resume(P, n, cur) ==
  /\ processes' = P
  /\ process_count' = n
  /\ current' = cur
  /\ halted' = Broken(P[cur])
  /\ UNCHANGED <<cpu, tss>>

(* The trap from ring 3: the frame goes where TSS.esp0 points. *)
Trapped(P, cur) ==
  IF P[cur].where = "user" THEN [P EXCEPT ![cur].frame = tss] ELSE P

(***************************************************************************)
(* Exit and reaping                                                        *)
(***************************************************************************)

(* process_exit of a process with a parent: a zombie, and the parent's     *)
(* sleep is cut short.                                                     *)
Zombified(P, cur) ==
  [i \in DOMAIN P |->
     IF i = cur THEN [P[i] EXCEPT !.state = "ZOMBIE"]
     ELSE IF P[i].pid = P[cur].parent_pid
          THEN [P[i] EXCEPT !.sleep_ticks = 0]
          ELSE P[i]]

(* process_exit of a process without one: the slot goes at once, and       *)
(* process_jump loads whatever slot current names afterwards.  TSS.esp0    *)
(* is left alone.                                                          *)
Vanish(P, n, cur) ==
  LET Q  == Compact(P, n, cur)
      c0 == IF cur >= n - 1 THEN 0 ELSE cur
      c1 == IF c0 = 0 /\ n - 1 > 1 THEN 1 ELSE c0
  IN  /\ processes' = [Q EXCEPT ![c1].started = TRUE]
      /\ process_count' = n - 1
      /\ current' = c1
      /\ cpu' = Q[c1].pid
      /\ halted' = Broken(Q[c1])
      /\ UNCHANGED tss

ReapedCurrentMut_Swapped(n, cur, i) ==
  LET c == IF cur < i THEN cur - 1 ELSE cur
  IN  IF c >= n - 1 THEN 0 ELSE c

(* reap_child: current follows its process when a lower slot goes. *)
ReapedCurrent(n, cur, i) ==
  LET c == IF cur > i THEN cur - 1 ELSE cur
  IN  IF c >= n - 1 THEN 0 ELSE c

(***************************************************************************)
(* The way out of a system call: signal_deliver, then the sleep and zombie *)
(* check, then a switch or the iret.                                       *)
(***************************************************************************)

Cleared(P) == [i \in DOMAIN P |-> [P[i] EXCEPT !.sleep_ticks = 0]]

(* .need_switch: process_tick, and if nothing else can run a zombie wakes  *)
(* every sleeper and tries once more.                                      *)
NeedSwitch(P, n, cur) ==
  LET T == Ticked(P)
      W == Cleared(T)
  IN  \E next \in (-1)..(n - 1) :
        /\ ProcessTick(T, n, cur, next)
        /\ IF next # -1 THEN SwitchTo(T, n, next)
           ELSE IF P[cur].state # "ZOMBIE" THEN Resume(T, n, cur)
           ELSE \E again \in (-1)..(n - 1) :
                  /\ ProcessTick(W, n, cur, again)
                  /\ IF again = -1 THEN Resume(W, n, cur)
                                   ELSE SwitchTo(W, n, again)

SleepCheckMut_Ignored(P, n, cur) ==
  IF P[cur].state = "ZOMBIE" THEN NeedSwitch(P, n, cur) ELSE Resume(P, n, cur)

SleepCheck(P, n, cur) ==
  IF P[cur].state = "ZOMBIE" \/ P[cur].sleep_ticks > 0
  THEN NeedSwitch(P, n, cur)
  ELSE Resume(P, n, cur)

(* A pending signal the loop of signal_deliver drops and goes past. *)
Dropped(p, s) ==
  \/ p.sig_handler[s] = SIG_IGN
  \/ p.sig_handler[s] = SIG_DFL /\ s \in DefaultIgnored

(* signal_deliver takes the lowest pending signal that is not dropped: the *)
(* default action is process_exit, after which it returns 1 like a handler *)
(* entry does, and 1 skips the sleep and zombie check.                     *)
Deliver(P, n, cur, s) ==
  LET p == P[cur]
      Q == [P EXCEPT ![cur].sig_pending = {t \in @ : t > s}]
  IN  CASE p.sig_handler[s] = CATCH ->
             /\ processes' = [Q EXCEPT ![cur].sig_saved = p.user,
                                       ![cur].user = "handler",
                                       ![cur].in_signal = TRUE]
             /\ process_count' = n
             /\ current' = cur
             /\ halted' = Broken(p)
             /\ UNCHANGED <<cpu, tss>>
        [] OTHER ->
             IF p.parent_pid > 0 THEN Resume(Zombified(Q, cur), n, cur)
                                 ELSE Vanish(Q, n, cur)

ReturnPathMut_ClearedInHandler(P, n, cur) ==
  LET Q    == [P EXCEPT ![cur].where = "user"]
      hits == {s \in Q[cur].sig_pending : ~Dropped(Q[cur], s)}
  IN  IF Q[cur].in_signal \/ hits = {}
      THEN SleepCheck([Q EXCEPT ![cur].sig_pending = {}], n, cur)
      ELSE \E s \in hits :
             /\ \A t \in hits : s <= t
             /\ Deliver(Q, n, cur, s)

ReturnPath(P, n, cur) ==
  LET Q    == [P EXCEPT ![cur].where = "user"]
      hits == {s \in Q[cur].sig_pending : ~Dropped(Q[cur], s)}
  IN  IF Q[cur].in_signal THEN SleepCheck(Q, n, cur)
      ELSE IF hits = {}
           THEN SleepCheck([Q EXCEPT ![cur].sig_pending = {}], n, cur)
           ELSE \E s \in hits :
                  /\ \A t \in hits : s <= t
                  /\ Deliver(Q, n, cur, s)

(***************************************************************************)
(* System calls.  Trap is the table on entry.                              *)
(***************************************************************************)

Me == processes[current]
Trap == Trapped(processes, current)

Call(c) == ~halted /\ Me.where = "user" /\ c \in Calls

Kept == UNCHANGED <<next_pid, foreground_pgid, init_pc>>

(* Any call that leaves this state alone (getpid, open, a failing call...). *)
SysOther ==
  Call("other") /\ ReturnPath(Trap, process_count, current) /\ Kept

SysExit ==
  /\ Call("exit")
  /\ IF Me.parent_pid > 0
     THEN ReturnPath(Zombified(Trap, current), process_count, current)
     ELSE Vanish(Trap, process_count, current)
  /\ Kept

SysSleep(ticks) ==
  /\ Call("sleep")
  /\ ReturnPath([Trap EXCEPT ![current].sleep_ticks = ticks],
                process_count, current)
  /\ Kept

ChildPidMut_SlotIndex == process_count

(* alloc_pid: pids are handed out in order and never used twice. *)
ChildPid == next_pid

(* The child starts on a copy of the parent's trap frame.  Its ctx.esp is  *)
(* the frame's offset in the parent's stack applied to its own, which only *)
(* makes sense when the frame is on the parent's own stack.                *)
ForkedChild ==
  [ZeroProc(ChildPid) EXCEPT
     !.parent_pid = Me.pid, !.pgid = Me.pgid, !.kernel_stack = TRUE,
     !.started = TRUE, !.where = "user", !.user = Me.user,
     !.frame = IF tss = Me.pid THEN ChildPid ELSE Wild]

SysForkMut_NoLimit ==
  /\ Call("fork")
  /\ next_pid <= MaxPid
  /\ ReturnPath(Extend(Trap, process_count, ForkedChild),
                process_count + 1, current)
  /\ next_pid' = next_pid + 1
  /\ UNCHANGED <<foreground_pgid, init_pc>>

(* The bound is on pids: a fork against a full table takes none. *)
SysFork ==
  /\ Call("fork")
  /\ IF process_count >= MAX_PROCESSES
     THEN ReturnPath(Trap, process_count, current) /\ UNCHANGED next_pid
     ELSE /\ next_pid <= MaxPid
          /\ ReturnPath(Extend(Trap, process_count, ForkedChild),
                        process_count + 1, current)
          /\ next_pid' = next_pid + 1
  /\ UNCHANGED <<foreground_pgid, init_pc>>

(* A new image: the trap frame points at its entry.  Dispositions,         *)
(* in_signal and sig_saved stay as they are.                               *)
SysExecve ==
  /\ Call("execve")
  /\ ReturnPath([Trap EXCEPT ![current].user = "main"],
                process_count, current)
  /\ Kept

ChildMut_NoAny(i, pid) ==
  processes[i].parent_pid = Me.pid /\ processes[i].pid = pid

(* The slots waitpid(pid) looks at. *)
Child(i, pid) ==
  /\ processes[i].parent_pid = Me.pid
  /\ pid <= 0 \/ processes[i].pid = pid

ZombieChild(i, pid) == Child(i, pid) /\ processes[i].state = "ZOMBIE"

(* reap_child(i), and the way out of the call. *)
ReapReturn(i) ==
  ReturnPath(Compact(Trap, process_count, i), process_count - 1,
             ReapedCurrent(process_count, current, i))

(* The first zombie that matches is reaped; otherwise ECHILD, 0 or EAGAIN, *)
(* none of which changes the table.                                        *)
SysWaitpid(pid) ==
  /\ Call("waitpid")
  /\ LET found == {i \in Slots(process_count) : ZombieChild(i, pid)}
     IN  IF found = {} THEN ReturnPath(Trap, process_count, current)
         ELSE \E i \in found :
                /\ \A j \in found : i <= j
                /\ ReapReturn(i)
  /\ Kept

(* The older wait: any child, and WaitTicks of sleep when none is ready. *)
SysWait ==
  /\ Call("wait")
  /\ LET found == {i \in Slots(process_count) : ZombieChild(i, 0)}
     IN  IF found = {}
         THEN ReturnPath([Trap EXCEPT ![current].sleep_ticks = WaitTicks],
                         process_count, current)
         ELSE \E i \in found :
                /\ \A j \in found : i <= j
                /\ ReapReturn(i)
  /\ Kept

(***************************************************************************)
(* Signals and groups                                                      *)
(***************************************************************************)

(* process_kill's match test: a pid, the caller's group (0) or a group.    *)
Matches(t, to, mygroup) ==
  /\ t.pid # 0
  /\ CASE to > 0 -> t.pid = to
       [] to = 0 -> t.pgid = mygroup
       [] OTHER  -> t.pgid = -to

SysKill(to, s) ==
  /\ Call("kill")
  /\ ReturnPath([i \in DOMAIN processes |->
                   IF Matches(processes[i], to, Me.pgid)
                   THEN [Trap[i] EXCEPT !.sig_pending = @ \cup {s}]
                   ELSE Trap[i]],
                process_count, current)
  /\ Kept

SysSigaction(s, h) ==
  /\ Call("sigaction")
  /\ ReturnPath([Trap EXCEPT ![current].sig_handler[s] = h],
                process_count, current)
  /\ Kept

(* A handler returns through the trampoline.  Nothing stops a program from *)
(* making the call outside of one: it gets what was saved last, or the     *)
(* zeros of a new slot.                                                    *)
SysSigreturn ==
  /\ Call("sigreturn")
  /\ ReturnPath([Trap EXCEPT ![current].user = Me.sig_saved,
                             ![current].in_signal = FALSE],
                process_count, current)
  /\ Kept

SysSetpgid(pid, pgid) ==
  /\ Call("setpgid")
  /\ LET who   == IF pid = 0 THEN Me.pid ELSE pid
         group == IF pgid = 0 THEN who ELSE pgid
     IN  ReturnPath([i \in DOMAIN processes |->
                       IF processes[i].pid = who
                       THEN [Trap[i] EXCEPT !.pgid = group]
                       ELSE Trap[i]],
                    process_count, current)
  /\ Kept

SysSetsid ==
  /\ Call("setsid")
  /\ ReturnPath([Trap EXCEPT ![current].pgid = Me.pid],
                process_count, current)
  /\ foreground_pgid' = Me.pid
  /\ UNCHANGED <<next_pid, init_pc>>

SysTcsetpgrp(pgid) ==
  /\ Call("tcsetpgrp")
  /\ ReturnPath(Trap, process_count, current)
  /\ foreground_pgid' = pgid
  /\ UNCHANGED <<next_pid, init_pc>>

(***************************************************************************)
(* Reading the console: sti, then a wait for input with interrupts on.     *)
(***************************************************************************)

(* A step inside the kernel that returns to no one. *)
Inside(P) ==
  /\ processes' = P
  /\ UNCHANGED <<process_count, current, cpu, tss, halted>>
  /\ Kept

At(place) == ~halted /\ Me.where = place

SysRead ==
  /\ Call("read")
  /\ Inside([Trap EXCEPT ![current].where = "read"])

(* A line, a character or end of file arrives. *)
ReadReturns ==
  At("read") /\ ReturnPath(processes, process_count, current) /\ Kept

(* ^C arrives: process_kill(-foreground_pgid, SIGINT), or the reader alone *)
(* when there is no foreground group, with interrupts on.                  *)
ReadCtrlC ==
  /\ At("read")
  /\ Inside([processes EXCEPT
               ![current].where = "kill",
               ![current].kill_to = IF foreground_pgid = 0 THEN Me.pid
                                    ELSE -foreground_pgid,
               ![current].kill_i = 0])

(* One round of process_kill's loop up to the match test ... *)
KillTest ==
  /\ At("kill")
  /\ Me.kill_i < process_count
  /\ IF Matches(processes[Me.kill_i], Me.kill_to, Me.pgid)
     THEN Inside([processes EXCEPT ![current].where = "post"])
     ELSE Inside([processes EXCEPT ![current].kill_i = @ + 1])

(* ... and the write, to whatever is in that slot by now. *)
KillPost ==
  /\ At("post")
  /\ Inside([i \in DOMAIN processes |->
       LET p == IF i = Me.kill_i
                THEN [processes[i] EXCEPT !.sig_pending = @ \cup {SIGINT}]
                ELSE processes[i]
       IN  IF i = current
           THEN [p EXCEPT !.where = "kill", !.kill_i = Me.kill_i + 1]
           ELSE p])

(* The loop ends; a reader that ignores SIGINT goes on reading, any other  *)
(* returns EINTR.                                                          *)
KillEnds ==
  /\ At("kill")
  /\ Me.kill_i >= process_count
  /\ LET P == [processes EXCEPT ![current].kill_to = 0,
                                ![current].kill_i = 0]
     IN  IF Me.sig_handler[SIGINT] = SIG_IGN
         THEN Inside([P EXCEPT ![current].where = "read"])
         ELSE ReturnPath(P, process_count, current) /\ Kept

(***************************************************************************)
(* Interrupts and faults                                                   *)
(***************************************************************************)

(* irq0_stub *)
Tick ==
  /\ ~halted
  /\ \E next \in (-1)..(process_count - 1) :
       /\ ProcessTick(Ticked(processes), process_count, current, next)
       /\ IF next = -1
          THEN /\ processes' = Ticked(processes)
               /\ UNCHANGED <<process_count, current, cpu, tss, halted>>
          ELSE SwitchTo(Ticked(Trap), process_count, next)
  /\ Kept

(* isr14_handler for a fault in ring 3: process_exit, then a halt loop     *)
(* with interrupts on until the timer switches away for good.              *)
PageFault ==
  /\ Call("fault")
  /\ IF Me.parent_pid > 0
     THEN Inside([Zombified(Trap, current) EXCEPT ![current].where = "halt"])
     ELSE Vanish(Trap, process_count, current) /\ Kept

(***************************************************************************)
(* The kernel task: task_kernel_init, process_create_user and              *)
(* start_user_process, interleaved with the timer.                         *)
(***************************************************************************)

InTask(pc) == At("task") /\ init_pc = pc

Shell ==
  [ZeroProc(next_pid) EXCEPT
     !.pgid = next_pid, !.kernel_stack = TRUE, !.where = "user",
     !.user = "main", !.frame = NoFrame]

CreateUser ==
  /\ InTask("create")
  /\ processes' = Extend(processes, process_count, Shell)
  /\ process_count' = process_count + 1
  /\ next_pid' = next_pid + 1
  /\ foreground_pgid' = next_pid
  /\ init_pc' = "frame"
  /\ UNCHANGED <<current, cpu, tss, halted>>

(* No /bin/sh, or it does not load: the kernel task spins. *)
CreateUserFails ==
  /\ InTask("create")
  /\ init_pc' = "spin"
  /\ UNCHANGED <<processes, process_count, current, next_pid,
                 foreground_pgid, cpu, tss, halted>>

Unstarted(p) == p.kernel_stack /\ ~p.started /\ p.state = "RUNNING"

(* start_user_process: build the ring-3 frame ... *)
BuildFrame ==
  /\ InTask("frame")
  /\ processes' = [i \in DOMAIN processes |->
                     IF Unstarted(processes[i])
                     THEN [processes[i] EXCEPT !.frame = processes[i].pid]
                     ELSE processes[i]]
  /\ init_pc' = "publish"
  /\ UNCHANGED <<process_count, current, next_pid, foreground_pgid, cpu,
                 tss, halted>>

(* ... and only then publish the task. *)
Publish ==
  /\ InTask("publish")
  /\ processes' = [i \in DOMAIN processes |->
                     IF Unstarted(processes[i])
                     THEN [processes[i] EXCEPT !.started = TRUE]
                     ELSE processes[i]]
  /\ init_pc' = "spin"
  /\ UNCHANGED <<process_count, current, next_pid, foreground_pgid, cpu,
                 tss, halted>>

(***************************************************************************)
(* The specification                                                       *)
(***************************************************************************)

(* kernel_main: process_register_current, then                             *)
(* process_create_kernel(task_kernel_init), whose slot starts with a       *)
(* hand-made interrupt frame.                                              *)
Init ==
  /\ processes = [i \in 0..1 |->
                    IF i = 0 THEN [ZeroProc(0) EXCEPT !.started = TRUE,
                                                      !.where = "boot"]
                    ELSE ZeroProc(1)]
  /\ process_count = 2
  /\ current = 0
  /\ next_pid = 2
  /\ foreground_pgid = 0
  /\ init_pc = "create"
  /\ cpu = 0
  /\ tss = 0
  /\ halted = FALSE

Pids == 1..MaxPid

(* A pid, 0 or a group; not the kernel task, which makes no system call    *)
(* and so never looks at its pending signals.                              *)
KillTargets == ((-MaxPid)..MaxPid) \ {1}

Next ==
  \/ Tick
  \/ CreateUser \/ CreateUserFails \/ BuildFrame \/ Publish
  \/ SysOther \/ SysExit \/ SysFork \/ SysExecve \/ SysWait
  \/ \E t \in 1..MaxSleep : SysSleep(t)
  \/ \E p \in {0} \cup Pids : SysWaitpid(p)
  \/ \E to \in KillTargets, s \in Signals : SysKill(to, s)
  \/ \E s \in Signals, h \in Dispositions : SysSigaction(s, h)
  \/ SysSigreturn
  \/ \E p \in 0..MaxPid, g \in Groups : SysSetpgid(p, g)
  \/ SysSetsid
  \/ \E g \in Groups : SysTcsetpgrp(g)
  \/ SysRead \/ ReadReturns \/ ReadCtrlC \/ KillTest \/ KillPost \/ KillEnds
  \/ PageFault

Spec == Init /\ [][Next]_vars

(***************************************************************************)
(* Properties                                                              *)
(***************************************************************************)

TypeOK ==
  /\ process_count \in 2..MAX_PROCESSES
  /\ processes \in [Slots(process_count) -> Proc]
  /\ current \in Slots(process_count)
  /\ next_pid \in 2..(MaxPid + 1)
  /\ foreground_pgid \in 0..MaxPid
  /\ init_pc \in {"create", "frame", "publish", "spin"}
  /\ cpu \in 0..MaxPid
  /\ tss \in 0..MaxPid
  /\ halted \in BOOLEAN

Live(pid) == \E i \in Slots(process_count) : processes[i].pid = pid

(* current always names the process whose context is loaded, across every  *)
(* switch and every compaction of the table: otherwise the next trap saves *)
(* its frame, and the next call acts, on another process's slot.           *)
CurrentIsLoaded == processes[current].pid = cpu

(* Pids name processes: the table stays in the order of its pids through   *)
(* every fork and every compaction, each pid is older than the next to be  *)
(* handed out, and a parent is older than its child.  So no two slots      *)
(* share a pid, and a recorded pid can never come to mean another process. *)
PidsNameProcesses ==
  /\ \A i, j \in Slots(process_count) :
       i < j => processes[i].pid < processes[j].pid
  /\ \A i \in Slots(process_count) :
       /\ processes[i].pid < next_pid
       /\ processes[i].pid > 0 => processes[i].parent_pid < processes[i].pid

(* The kernel task is always runnable.  It is what makes process_tick find *)
(* a process from the syscall path, so a sleeping or dead caller never     *)
(* irets back to ring 3 for want of another, and .wake_loop is never run.  *)
IdleAlwaysRunnable ==
  processes[1].pid = 1 /\ Runnable(processes[1])

(* While the shell lives, a process in ring 3 traps onto its own kernel    *)
(* stack, and the saved frame of every process that may be switched to is  *)
(* on its own stack: no two processes share one.                           *)
OwnKernelStack ==
  Live(2) =>
    /\ Me.where = "user" => tss = cpu
    /\ \A i \in Slots(process_count) :
         processes[i].started => processes[i].frame = processes[i].pid

(* While the shell lives, a process runs in ring 3 with sleep left only    *)
(* inside a handler (signal delivery skips the sleep check) or as a        *)
(* zombie; when the handler returns it goes back to sleep.                 *)
SleepHonoured ==
  Live(2) /\ ~halted /\ Me.where = "user" /\ Me.sleep_ticks > 0
    => Me.user = "handler" \/ Me.state = "ZOMBIE"

(* The signals p has pending and q, the same process after a step, has     *)
(* not, but for those its dispositions drop.                               *)
Spent(p, q) == {s \in p.sig_pending \ q.sig_pending : ~Dropped(q, s)}

EntersHandler(p, q) == q.in_signal /\ (~p.in_signal \/ (SysSigreturn /\ p.pid = cpu))

Raises(s) == (KillPost /\ s = SIGINT) \/ \E to \in KillTargets : SysKill(to, s)

(* No signal is lost or taken twice.  A pending signal goes away only when *)
(* its process is on its way back to ring 3; but for those the             *)
(* dispositions drop, a step takes one at most, to enter the handler or to *)
(* end the process; and a handler is entered only for a caught signal that *)
(* was pending, or is raised by this very step, and is pending no more.    *)
(* So what is raised during a handler stays until the handler returns, and *)
(* several signals at once are taken one by one.                           *)
SignalsNotLost ==
  [][\A i \in Slots(process_count), j \in Slots(process_count') :
       LET p == processes[i]
           q == processes'[j]
       IN  p.pid = q.pid =>
             /\ p.sig_pending \subseteq q.sig_pending \/ p.pid = cpu
             /\ \A s, t \in Spent(p, q) : s = t
             /\ Spent(p, q) # {} => EntersHandler(p, q) \/ q.state = "ZOMBIE"
             /\ EntersHandler(p, q) =>
                  \E s \in Signals :
                    /\ q.sig_handler[s] = CATCH
                    /\ s \notin q.sig_pending /\ Spent(p, q) \subseteq {s}
                    /\ s \in p.sig_pending \/ Raises(s)]_vars

(* The CPU is handed over only to a process that is RUNNING, is not asleep *)
(* and has had its frame built; the one exception is the jump out of the   *)
(* exit of a process without a parent, which looks at none of these.       *)
HandsOverToRunnable ==
  [][cpu' # cpu =>
       \/ ~\E i \in Slots(process_count') : processes'[i].pid = cpu
       \/ LET p == processes'[current']
          IN  /\ p.state = "RUNNING"
              /\ p.sleep_ticks = 0
              /\ p.frame # NoFrame]_vars

(* Liveness.  The timer keeps firing; the shell (pid 2), whenever it gets  *)
(* the CPU again and again, sooner or later waits for its children, as     *)
(* mlibc's waitpid loop does.                                              *)
FairSpec ==
  /\ Spec
  /\ WF_vars(Tick)
  /\ SF_vars(cpu = 2 /\ SysWaitpid(0))

Alive(p) ==
  \E i \in Slots(process_count) :
    /\ processes[i].pid = p
    /\ processes[i].state = "RUNNING"
    /\ processes[i].started \/ ~processes[i].kernel_stack

(* No live process starves: whatever the others do, and however long it    *)
(* sleeps, it gets the CPU again.                                          *)
EveryProcessRuns ==
  \A p \in Pids : Alive(p) ~> (cpu = p \/ ~Alive(p) \/ halted)

ZombieOf(c, p) ==
  \E i \in Slots(process_count) :
    /\ processes[i].pid = c
    /\ processes[i].parent_pid = p
    /\ processes[i].state = "ZOMBIE"

Reading(p) ==
  \E i \in Slots(process_count) :
    processes[i].pid = p /\ processes[i].where \in {"read", "kill", "post"}

(* A dead child of the shell is collected, unless the shell ends or sits   *)
(* in a read of the console.                                               *)
ZombiesAreReaped ==
  \A c \in Pids :
    ZombieOf(c, 2) ~> (~ZombieOf(c, 2) \/ ~Alive(2) \/ Reading(2) \/ halted)

(***************************************************************************)
(* What the comments of the code say and the code does not do              *)
(***************************************************************************)

(* "Default actions may terminate the process (no return)": a process that *)
(* has exited never runs in ring 3 again.                                  *)
ZombieNeverInUserMode ==
  ~halted /\ Me.where = "user" => Me.state = "RUNNING"

=============================================================================
