--------------------------- MODULE ProcessProofs ---------------------------
(***************************************************************************)
(* For every number of slots, pids, sleeps, signals and groups, and any    *)
(* set of system calls: the table stays well formed, current names the     *)
(* loaded process, pids name processes and the kernel task is runnable.    *)
(***************************************************************************)
EXTENDS Process, SetFacts, TLAPS

(* What slot i of a table holds, between steps and inside one. *)
SlotOK(p, i, np) ==
  /\ p \in Proc
  /\ i = 0 => p.pid = 0 /\ p.parent_pid = 0 /\ p.where = "boot"
  /\ i = 1 => /\ p.pid = 1 /\ p.where = "task" /\ p.state = "RUNNING"
              /\ p.sleep_ticks = 0 /\ p.kernel_stack = FALSE
  /\ p.pid < np
  /\ p.pid > 0 => p.parent_pid < p.pid
  /\ p.where = "post" => p.kill_i < MAX_PROCESSES

TableOK(P, n, np) ==
  /\ n \in 2..MAX_PROCESSES
  /\ np \in Nat
  /\ P \in [Slots(n) -> Proc]
  /\ \A i \in Slots(n) : SlotOK(P[i], i, np)
  /\ \A i, j \in Slots(n) : i < j => P[i].pid < P[j].pid

(* A well-formed table, and a machine that runs the process current names. *)
Good(P, n, cur, c, t, h, np) ==
  /\ TableOK(P, n, np)
  /\ cur \in Slots(n)
  /\ P[cur].pid = c
  /\ t \in 0..MaxPid
  /\ h \in BOOLEAN

(* A table with the same pids whose slots are all well formed. *)
LEMMA SamePids ==
  ASSUME NEW P, NEW n, NEW np, TableOK(P, n, np), NEW Q,
         Q = [i \in Slots(n) |-> Q[i]],
         \A i \in Slots(n) : SlotOK(Q[i], i, np) /\ Q[i].pid = P[i].pid
  PROVE  TableOK(Q, n, np)
<1>1. \A i \in Slots(n) : Q[i] \in Proc
  BY DEF SlotOK
<1>2. Q \in [Slots(n) -> Proc]
  BY <1>1
<1> QED
  BY <1>2 DEF TableOK

(* process_tick's count-down of the sleeps. *)
LEMMA TickedOK ==
  ASSUME NEW P, NEW n, NEW np, TableOK(P, n, np)
  PROVE  TableOK(Ticked(P), n, np)
<1>1. DOMAIN P = Slots(n)
  BY DEF TableOK
<1>2. ASSUME NEW i \in Slots(n), NEW q,
             q = [P[i] EXCEPT !.sleep_ticks =
                    IF P[i].sleep_ticks > 0 THEN P[i].sleep_ticks - 1 ELSE 0]
      PROVE  SlotOK(q, i, np) /\ q.pid = P[i].pid
  <2>1. SlotOK(P[i], i, np) /\ P[i] \in Proc
    BY DEF TableOK
  <2> DEFINE x == IF P[i].sleep_ticks > 0 THEN P[i].sleep_ticks - 1 ELSE 0
  <2>2. /\ x \in 0..MaxSleep
        /\ i = 1 => x = 0
    BY <2>1, ProcessAssumption DEF SlotOK, Proc
  <2> HIDE DEF x
  <2>3. q = [P[i] EXCEPT !.sleep_ticks = x]
    BY <1>2 DEF x
  <2>4. /\ q \in Proc /\ q.sleep_ticks = x
        /\ q.pid = P[i].pid /\ q.parent_pid = P[i].parent_pid
        /\ q.where = P[i].where /\ q.state = P[i].state
        /\ q.kernel_stack = P[i].kernel_stack /\ q.kill_i = P[i].kill_i
    BY <2>1, <2>2, <2>3 DEF Proc
  <2> QED
    BY <2>1, <2>2, <2>4 DEF SlotOK
<1>3. \A i \in Slots(n) : SlotOK(Ticked(P)[i], i, np)
                          /\ Ticked(P)[i].pid = P[i].pid
  BY <1>1, <1>2 DEF Ticked
<1>4. Ticked(P) = [i \in Slots(n) |-> Ticked(P)[i]]
  BY <1>1 DEF Ticked
<1> QED
  BY <1>3, <1>4, SamePids

(* One slot of a user process changes, its pid and its parent do not. *)
LEMMA UpdateOK ==
  ASSUME NEW P, NEW n, NEW np, TableOK(P, n, np), NEW cur \in Slots(n),
         NEW q \in Proc, cur >= 2,
         q.pid = P[cur].pid, q.parent_pid = P[cur].parent_pid,
         q.where = "post" => q.kill_i < MAX_PROCESSES
  PROVE  /\ TableOK([P EXCEPT ![cur] = q], n, np)
         /\ [P EXCEPT ![cur] = q][cur] = q
<1>1. P \in [Slots(n) -> Proc] /\ \A i \in Slots(n) : SlotOK(P[i], i, np)
  BY DEF TableOK
<1>2. SlotOK(q, cur, np)
  BY <1>1 DEF SlotOK, Slots
<1> DEFINE Q == [P EXCEPT ![cur] = q]
<1>3. /\ Q = [i \in Slots(n) |-> Q[i]]
      /\ \A i \in Slots(n) : SlotOK(Q[i], i, np) /\ Q[i].pid = P[i].pid
  BY <1>1, <1>2
<1>4. Q[cur] = q
  BY <1>1
<1> HIDE DEF Q
<1>5. TableOK(Q, n, np)
  BY <1>3, SamePids
<1> QED
  BY <1>4, <1>5 DEF Q

(* started may be set in any slot. *)
LEMMA StartedOK ==
  ASSUME NEW P, NEW n, NEW np, TableOK(P, n, np), NEW next \in Slots(n)
  PROVE  /\ TableOK([P EXCEPT ![next].started = TRUE], n, np)
         /\ [P EXCEPT ![next].started = TRUE][next].pid = P[next].pid
         /\ P[next].pid \in 0..MaxPid
<1>1. P \in [Slots(n) -> Proc]
  BY DEF TableOK
<1>2. ASSUME NEW i \in Slots(n), NEW q, q = [P[i] EXCEPT !.started = TRUE]
      PROVE  SlotOK(q, i, np) /\ q.pid = P[i].pid
  <2>1. SlotOK(P[i], i, np) /\ P[i] \in Proc
    BY DEF TableOK
  <2>2. /\ q \in Proc /\ q.sleep_ticks = P[i].sleep_ticks
        /\ q.pid = P[i].pid /\ q.parent_pid = P[i].parent_pid
        /\ q.where = P[i].where /\ q.state = P[i].state
        /\ q.kernel_stack = P[i].kernel_stack /\ q.kill_i = P[i].kill_i
    BY <1>2, <2>1 DEF Proc
  <2> QED
    BY <2>1, <2>2 DEF SlotOK
<1> DEFINE Q == [P EXCEPT ![next].started = TRUE]
<1>3. /\ Q = [i \in Slots(n) |-> Q[i]]
      /\ \A i \in Slots(n) : SlotOK(Q[i], i, np) /\ Q[i].pid = P[i].pid
  BY <1>1, <1>2 DEF TableOK
<1> HIDE DEF Q
<1>4. TableOK(Q, n, np)
  BY <1>3, SamePids
<1>5. P[next].pid \in 0..MaxPid
  BY <1>1 DEF Proc
<1> QED
  BY <1>3, <1>4, <1>5 DEF Q

(* The switch of irq0_stub and do_switch. *)
LEMMA SwitchToOK ==
  ASSUME NEW P, NEW n, NEW np, TableOK(P, n, np), NEW next \in Slots(n),
         SwitchTo(P, n, next), tss \in 0..MaxPid
  PROVE  Good(processes', process_count', current', cpu', tss', halted', np)
BY StartedOK DEF SwitchTo, Good, Broken

(* The iret back to the caller. *)
LEMMA ResumeOK ==
  ASSUME NEW P, NEW n, NEW np, TableOK(P, n, np), NEW cur \in Slots(n),
         Resume(P, n, cur), P[cur].pid = cpu, tss \in 0..MaxPid
  PROVE  Good(processes', process_count', current', cpu', tss', halted', np)
BY DEF Resume, Good, Broken

(* The exit of a process with a parent. *)
LEMMA ZombifiedOK ==
  ASSUME NEW P, NEW n, NEW np, TableOK(P, n, np), NEW cur \in Slots(n),
         cur >= 2
  PROVE  /\ TableOK(Zombified(P, cur), n, np)
         /\ Zombified(P, cur)[cur].pid = P[cur].pid
         /\ Zombified(P, cur)[cur].where = P[cur].where
<1>1. P \in [Slots(n) -> Proc] /\ DOMAIN P = Slots(n)
  BY DEF TableOK
<1>2. ASSUME NEW i \in Slots(n), NEW q,
             \/ q = [P[i] EXCEPT !.state = "ZOMBIE"] /\ i = cur
             \/ q = [P[i] EXCEPT !.sleep_ticks = 0]
             \/ q = P[i]
      PROVE  SlotOK(q, i, np) /\ q.pid = P[i].pid /\ q.where = P[i].where
  <2>1. SlotOK(P[i], i, np) /\ P[i] \in Proc
    BY DEF TableOK
  <2>2. 0 \in 0..MaxSleep
    BY ProcessAssumption
  <2> DEFINE Alike ==
        /\ q \in Proc
        /\ q.pid = P[i].pid /\ q.parent_pid = P[i].parent_pid
        /\ q.where = P[i].where
        /\ q.state = P[i].state \/ i = cur
        /\ q.kernel_stack = P[i].kernel_stack /\ q.kill_i = P[i].kill_i
        /\ q.sleep_ticks = P[i].sleep_ticks \/ q.sleep_ticks = 0
  <2>3. Alike
    <3>1. CASE q = [P[i] EXCEPT !.state = "ZOMBIE"] /\ i = cur
      BY <2>1, <3>1 DEF Proc
    <3>2. CASE q = [P[i] EXCEPT !.sleep_ticks = 0]
      BY <2>1, <2>2, <3>2 DEF Proc
    <3>3. CASE q = P[i]
      BY <2>1, <3>3
    <3> QED
      BY <1>2, <3>1, <3>2, <3>3
  <2> QED
    BY <2>1, <2>3 DEF SlotOK
<1> DEFINE Q == Zombified(P, cur)
<1>3. /\ Q = [i \in Slots(n) |-> Q[i]]
      /\ \A i \in Slots(n) : SlotOK(Q[i], i, np) /\ Q[i].pid = P[i].pid
                             /\ Q[i].where = P[i].where
  BY <1>1, <1>2 DEF Zombified
<1> HIDE DEF Q
<1>4. TableOK(Q, n, np)
  BY <1>3, SamePids
<1> QED
  BY <1>3, <1>4 DEF Q

(* Removing a slot above the kernel task's. *)
LEMMA CompactOK ==
  ASSUME NEW P, NEW n, NEW np, TableOK(P, n, np), NEW k \in Slots(n), k >= 2
  PROVE  /\ TableOK(Compact(P, n, k), n - 1, np)
         /\ \A i \in Slots(n - 1) : i < k => Compact(P, n, k)[i] = P[i]
<1>1. /\ n \in Nat /\ n - 1 \in 2..MAX_PROCESSES
      /\ \A i \in Slots(n - 1) : i \in Slots(n) /\ i + 1 \in Slots(n)
  BY ProcessAssumption DEF TableOK, Slots
<1>2. P \in [Slots(n) -> Proc]
  BY DEF TableOK
<1> DEFINE Q == Compact(P, n, k)
<1>3. /\ Q = [i \in Slots(n - 1) |-> Q[i]]
      /\ \A i \in Slots(n - 1) : Q[i] = IF i < k THEN P[i] ELSE P[i + 1]
  BY DEF Compact
<1> HIDE DEF Q
<1>4. \A i \in Slots(n - 1) : Q[i] \in Proc
  BY <1>1, <1>2, <1>3
<1>5. Q \in [Slots(n - 1) -> Proc]
  BY <1>3, <1>4
<1>6. ASSUME NEW i \in Slots(n - 1)
      PROVE  SlotOK(Q[i], i, np)
  <2>1. CASE i < k
    BY <1>1, <1>3, <2>1 DEF TableOK
  <2>2. CASE ~(i < k)
    <3>1. SlotOK(P[i + 1], i + 1, np) /\ i >= 2
      BY <1>1, <2>2 DEF TableOK, Slots
    <3> QED
      BY <1>3, <2>2, <3>1 DEF SlotOK, Slots
  <2> QED
    BY <2>1, <2>2
<1>7. ASSUME NEW i \in Slots(n - 1), NEW j \in Slots(n - 1), i < j
      PROVE  Q[i].pid < Q[j].pid
  <2>1. \A a, b \in Slots(n) : a < b => P[a].pid < P[b].pid
    BY DEF TableOK
  <2>2. i \in Int /\ j \in Int /\ k \in Int
    BY DEF Slots
  <2> QED
    BY <1>1, <1>3, <1>7, <2>1, <2>2
<1>8. \A i \in Slots(n - 1) : i < k => Q[i] = P[i]
  BY <1>3
<1>9. TableOK(Q, n - 1, np)
  BY <1>1, <1>5, <1>6, <1>7 DEF TableOK
<1> QED
  BY <1>8, <1>9 DEF Q

(* Appending the process the next pid is given to. *)
LEMMA ExtendOK ==
  ASSUME NEW P, NEW n, NEW np, TableOK(P, n, np), n < MAX_PROCESSES,
         NEW p \in Proc, p.pid = np, np > 0, p.parent_pid < p.pid,
         p.where = "user"
  PROVE  /\ TableOK(Extend(P, n, p), n + 1, np + 1)
         /\ \A i \in Slots(n) : Extend(P, n, p)[i] = P[i]
<1>1. /\ n \in Nat /\ n + 1 \in 2..MAX_PROCESSES /\ n >= 2
      /\ \A i \in Slots(n + 1) : i = n \/ i \in Slots(n)
      /\ \A i \in Slots(n) : i \in Slots(n + 1) /\ i # n /\ i < n
      /\ np \in Nat
  BY ProcessAssumption DEF TableOK, Slots
<1>2. P \in [Slots(n) -> Proc]
  BY DEF TableOK
<1> DEFINE Q == Extend(P, n, p)
<1>3. /\ Q = [i \in Slots(n + 1) |-> Q[i]]
      /\ \A i \in Slots(n + 1) : Q[i] = IF i = n THEN p ELSE P[i]
  BY DEF Extend
<1> HIDE DEF Q
<1>4. \A i \in Slots(n + 1) : Q[i] \in Proc
  BY <1>1, <1>2, <1>3
<1>5. Q \in [Slots(n + 1) -> Proc]
  BY <1>3, <1>4
<1>6. ASSUME NEW i \in Slots(n + 1)
      PROVE  SlotOK(Q[i], i, np + 1)
  <2>1. CASE i = n
    BY <1>1, <1>3, <2>1 DEF SlotOK
  <2>2. CASE i # n
    <3>1. SlotOK(P[i], i, np) /\ P[i] \in Proc /\ Q[i] = P[i]
      BY <1>1, <1>2, <1>3, <2>2 DEF TableOK
    <3>2. P[i].pid \in Int
      BY <3>1 DEF Proc
    <3> QED
      BY <1>1, <3>1, <3>2 DEF SlotOK
  <2> QED
    BY <2>1, <2>2
<1>7. ASSUME NEW i \in Slots(n + 1), NEW j \in Slots(n + 1), i < j
      PROVE  Q[i].pid < Q[j].pid
  <2>1. \A a, b \in Slots(n) : a < b => P[a].pid < P[b].pid
    BY DEF TableOK
  <2>2. \A a \in Slots(n) : P[a].pid < np
    BY DEF TableOK, SlotOK
  <2>3. i \in Slots(n) /\ Q[i] = P[i]
    BY <1>1, <1>3, <1>7 DEF Slots
  <2> QED
    BY <1>1, <1>3, <1>7, <2>1, <2>2, <2>3
<1>8. TableOK(Q, n + 1, np + 1)
  BY <1>1, <1>5, <1>6, <1>7 DEF TableOK
<1>9. \A i \in Slots(n) : Q[i] = P[i]
  BY <1>1, <1>3
<1> QED
  BY <1>8, <1>9 DEF Q

(* The exit of a process without a parent. *)
LEMMA VanishOK ==
  ASSUME NEW P, NEW n, NEW np, TableOK(P, n, np), NEW cur \in Slots(n),
         cur >= 2, Vanish(P, n, cur), tss \in 0..MaxPid
  PROVE  Good(processes', process_count', current', cpu', tss', halted', np)
<1> DEFINE Q  == Compact(P, n, cur)
           c0 == IF cur >= n - 1 THEN 0 ELSE cur
           c1 == IF c0 = 0 /\ n - 1 > 1 THEN 1 ELSE c0
<1>1. TableOK(Q, n - 1, np)
  BY CompactOK
<1>2. c1 \in Slots(n - 1)
  BY DEF TableOK, Slots
<1>3. /\ processes' = [Q EXCEPT ![c1].started = TRUE]
      /\ process_count' = n - 1 /\ current' = c1 /\ cpu' = Q[c1].pid
      /\ halted' = Broken(Q[c1]) /\ tss' = tss
  BY DEF Vanish
<1> HIDE DEF Q, c1
<1> QED
  BY <1>1, <1>2, <1>3, StartedOK DEF Good, Broken

(* A wake-up of every sleeper. *)
LEMMA ClearedOK ==
  ASSUME NEW P, NEW n, NEW np, TableOK(P, n, np)
  PROVE  TableOK(Cleared(P), n, np)
<1>1. P \in [Slots(n) -> Proc] /\ DOMAIN P = Slots(n)
  BY DEF TableOK
<1>2. ASSUME NEW i \in Slots(n), NEW q, q = [P[i] EXCEPT !.sleep_ticks = 0]
      PROVE  SlotOK(q, i, np) /\ q.pid = P[i].pid
  <2>1. SlotOK(P[i], i, np) /\ P[i] \in Proc
    BY DEF TableOK
  <2>2. 0 \in 0..MaxSleep
    BY ProcessAssumption
  <2>3. /\ q \in Proc /\ q.sleep_ticks = 0
        /\ q.pid = P[i].pid /\ q.parent_pid = P[i].parent_pid
        /\ q.where = P[i].where /\ q.state = P[i].state
        /\ q.kernel_stack = P[i].kernel_stack /\ q.kill_i = P[i].kill_i
    BY <1>2, <2>1, <2>2 DEF Proc
  <2> QED
    BY <2>1, <2>3 DEF SlotOK
<1> DEFINE Q == Cleared(P)
<1>3. /\ Q = [i \in Slots(n) |-> Q[i]]
      /\ \A i \in Slots(n) : SlotOK(Q[i], i, np) /\ Q[i].pid = P[i].pid
  BY <1>1, <1>2 DEF Cleared
<1> HIDE DEF Q
<1>4. TableOK(Q, n, np)
  BY <1>3, SamePids
<1> QED
  BY <1>4 DEF Q

(* Neither the tick nor the wake-up moves a pid. *)
LEMMA TickedPids ==
  ASSUME NEW P, NEW n, NEW np, TableOK(P, n, np), NEW cur \in Slots(n)
  PROVE  /\ Ticked(P)[cur].pid = P[cur].pid
         /\ Cleared(Ticked(P))[cur].pid = P[cur].pid
<1>1. DOMAIN P = Slots(n) /\ P[cur] \in Proc
  BY DEF TableOK
<1>2. DOMAIN Ticked(P) = Slots(n) /\ Ticked(P)[cur] \in Proc
  <2>1. TableOK(Ticked(P), n, np)
    BY TickedOK
  <2> QED
    BY <2>1 DEF TableOK
<1>3. Ticked(P)[cur].pid = P[cur].pid
  BY <1>1 DEF Ticked, Proc
<1>4. \A T : DOMAIN T = Slots(n) /\ T[cur] \in Proc
             => Cleared(T)[cur].pid = T[cur].pid
  BY DEF Cleared, Proc
<1> QED
  BY <1>2, <1>3, <1>4

(* process_tick picks a slot of the table, or none. *)
LEMMA ProcessTickRange ==
  ASSUME NEW P, NEW n, NEW cur, NEW next, ProcessTick(P, n, cur, next),
         next # -1
  PROVE  next \in Slots(n) /\ Runnable(P[next])
BY DEF ProcessTick

(* The rescheduling of a sleeping or dead caller. *)
LEMMA NeedSwitchOK ==
  ASSUME NEW P, NEW n, NEW np, TableOK(P, n, np), NEW cur \in Slots(n),
         NeedSwitch(P, n, cur), P[cur].pid = cpu, tss \in 0..MaxPid
  PROVE  Good(processes', process_count', current', cpu', tss', halted', np)
<1> DEFINE T == Ticked(P)
           W == Cleared(T)
<1>1. /\ TableOK(T, n, np) /\ T[cur].pid = cpu
      /\ TableOK(W, n, np) /\ W[cur].pid = cpu
  BY TickedOK, ClearedOK, TickedPids
<1>2. PICK next \in (-1)..(n - 1) :
        /\ ProcessTick(T, n, cur, next)
        /\ IF next # -1 THEN SwitchTo(T, n, next)
           ELSE IF P[cur].state # "ZOMBIE" THEN Resume(T, n, cur)
           ELSE \E again \in (-1)..(n - 1) :
                  /\ ProcessTick(W, n, cur, again)
                  /\ IF again = -1 THEN Resume(W, n, cur)
                                   ELSE SwitchTo(W, n, again)
  BY DEF NeedSwitch
<1> HIDE DEF T, W
<1>3. CASE next # -1
  BY <1>1, <1>2, <1>3, ProcessTickRange, SwitchToOK
<1>4. CASE next = -1 /\ P[cur].state # "ZOMBIE"
  BY <1>1, <1>2, <1>4, ResumeOK
<1>5. CASE next = -1 /\ P[cur].state = "ZOMBIE"
  <2>1. PICK again \in (-1)..(n - 1) :
          /\ ProcessTick(W, n, cur, again)
          /\ IF again = -1 THEN Resume(W, n, cur) ELSE SwitchTo(W, n, again)
    BY <1>2, <1>5
  <2>2. CASE again = -1
    BY <1>1, <2>1, <2>2, ResumeOK
  <2>3. CASE again # -1
    BY <1>1, <2>1, <2>3, ProcessTickRange, SwitchToOK
  <2> QED
    BY <2>2, <2>3
<1> QED
  BY <1>3, <1>4, <1>5

(* The sleep and zombie check on the way out of a call. *)
LEMMA SleepCheckOK ==
  ASSUME NEW P, NEW n, NEW np, TableOK(P, n, np), NEW cur \in Slots(n),
         SleepCheck(P, n, cur), P[cur].pid = cpu, tss \in 0..MaxPid
  PROVE  Good(processes', process_count', current', cpu', tss', halted', np)
BY NeedSwitchOK, ResumeOK DEF SleepCheck

(* signal_deliver: a handler is entered, or the process ends. *)
LEMMA DeliverOK ==
  ASSUME NEW P, NEW n, NEW np, TableOK(P, n, np), NEW cur \in Slots(n),
         cur >= 2, P[cur].pid = cpu, P[cur].where = "user",
         NEW s \in Signals, Deliver(P, n, cur, s), tss \in 0..MaxPid
  PROVE  Good(processes', process_count', current', cpu', tss', halted', np)
<1> DEFINE p == P[cur]
           q == [p EXCEPT !.sig_pending = {t \in p.sig_pending : t > s}]
           Q == [P EXCEPT ![cur] = q]
           h == [[[q EXCEPT !.sig_saved = p.user] EXCEPT !.user = "handler"]
                   EXCEPT !.in_signal = TRUE]
<1>1. p \in Proc /\ P \in [Slots(n) -> Proc]
  BY DEF TableOK
<1>2. q \in Proc /\ q.pid = p.pid /\ q.parent_pid = p.parent_pid
      /\ q.where = "user"
  BY <1>1 DEF Proc
<1>3. TableOK(Q, n, np) /\ Q[cur] = q
  <2> HIDE DEF q
  <2>1. q.where # "post"
    BY <1>2
  <2> QED
    BY <1>2, <2>1, UpdateOK
<1>4. h \in Proc /\ h.pid = p.pid /\ h.parent_pid = p.parent_pid
      /\ h.where = "user"
  BY <1>1, <1>2 DEF Proc, Contexts
<1>5. CASE p.sig_handler[s] = CATCH
  <2>1. processes' = [Q EXCEPT ![cur] = h]
    BY <1>1, <1>5 DEF Deliver
  <2>2. TableOK(processes', n, np) /\ processes'[cur].pid = cpu
    <3> HIDE DEF Q, h, q
    <3>1. Q[cur].pid = p.pid /\ Q[cur].parent_pid = p.parent_pid
          /\ h.where # "post"
      BY <1>2, <1>3, <1>4
    <3>2. /\ TableOK([Q EXCEPT ![cur] = h], n, np)
          /\ [Q EXCEPT ![cur] = h][cur] = h
      BY <1>3, <1>4, <3>1, UpdateOK
    <3> QED
      BY <1>4, <2>1, <3>2
  <2>3. process_count' = n /\ current' = cur /\ tss' = tss /\ cpu' = cpu
        /\ halted' \in BOOLEAN
    BY <1>5 DEF Deliver, Broken
  <2> QED
    BY <2>2, <2>3 DEF Good
<1>6. CASE p.sig_handler[s] # CATCH
  <2>1. \/ Resume(Zombified(Q, cur), n, cur)
        \/ Vanish(Q, n, cur)
    BY <1>6 DEF Deliver
  <2>2. Q[cur].pid = cpu
    BY <1>2, <1>3
  <2> HIDE DEF Q, q, p
  <2>3. TableOK(Zombified(Q, cur), n, np) /\ Zombified(Q, cur)[cur].pid = cpu
    BY <1>3, <2>2, ZombifiedOK
  <2> QED
    BY <1>3, <2>1, <2>3, ResumeOK, VanishOK
<1> QED
  BY <1>5, <1>6

(* The way out of every system call. *)
LEMMA ReturnPathOK ==
  ASSUME NEW P, NEW n, NEW np, TableOK(P, n, np), NEW cur \in Slots(n),
         cur >= 2, P[cur].pid = cpu, ReturnPath(P, n, cur),
         tss \in 0..MaxPid
  PROVE  Good(processes', process_count', current', cpu', tss', halted', np)
<1> DEFINE p == P[cur]
           q == [p EXCEPT !.where = "user"]
           Q == [P EXCEPT ![cur] = q]
           e == [q EXCEPT !.sig_pending = {}]
           E == [Q EXCEPT ![cur] = e]
           hits == {s \in Q[cur].sig_pending : ~Dropped(Q[cur], s)}
<1>1. p \in Proc
  BY DEF TableOK
<1>2. q \in Proc /\ q.pid = p.pid /\ q.parent_pid = p.parent_pid
      /\ q.where = "user"
  BY <1>1 DEF Proc, Places
<1>3. TableOK(Q, n, np) /\ Q[cur] = q
  <2> HIDE DEF q
  <2>1. q.where # "post"
    BY <1>2
  <2> QED
    BY <1>2, <2>1, UpdateOK
<1>4. e \in Proc /\ e.pid = p.pid /\ e.parent_pid = p.parent_pid
      /\ e.where = "user"
  BY <1>2 DEF Proc
<1>5. TableOK(E, n, np) /\ E[cur] = e
  <2> HIDE DEF Q, q, e
  <2>1. e.where # "post"
    BY <1>4
  <2> QED
    BY <1>2, <1>3, <1>4, <2>1, UpdateOK
<1>6. IF Q[cur].in_signal THEN SleepCheck(Q, n, cur)
      ELSE IF hits = {} THEN SleepCheck(E, n, cur)
      ELSE \E s \in hits : Deliver(Q, n, cur, s)
  <2>1. E = [Q EXCEPT ![cur].sig_pending = {}]
    BY <1>3
  <2> QED
    BY <2>1 DEF ReturnPath
<1>7. hits \subseteq Signals
  BY <1>2, <1>3 DEF Proc
<1> HIDE DEF Q, E, q, e, hits
<1>8. \/ SleepCheck(Q, n, cur)
      \/ SleepCheck(E, n, cur)
      \/ \E s \in Signals : Deliver(Q, n, cur, s)
  BY <1>6, <1>7
<1>9. Q[cur].pid = cpu /\ E[cur].pid = cpu /\ Q[cur].where = "user"
  BY <1>2, <1>3, <1>4, <1>5
<1> QED
  BY <1>3, <1>5, <1>8, <1>9, SleepCheckOK, DeliverOK

(***************************************************************************)
(* The inductive invariant                                                 *)
(***************************************************************************)

IInv ==
  /\ Good(processes, process_count, current, cpu, tss, halted, next_pid)
  /\ next_pid \in 2..(MaxPid + 1)
  /\ foreground_pgid \in 0..MaxPid
  /\ init_pc \in {"create", "frame", "publish", "spin"}
  /\ init_pc = "create" => process_count = 2 /\ next_pid = 2

(* The fields of slot i that SlotOK speaks of, unchanged. *)
Alike(p, q) ==
  /\ q.pid = p.pid /\ q.parent_pid = p.parent_pid
  /\ q.where = p.where /\ q.state = p.state
  /\ q.sleep_ticks = p.sleep_ticks
  /\ q.kernel_stack = p.kernel_stack /\ q.kill_i = p.kill_i

(* A table that differs only in fields SlotOK does not speak of. *)
LEMMA AlikeOK ==
  ASSUME NEW P, NEW n, NEW np, TableOK(P, n, np), NEW Q,
         Q = [i \in Slots(n) |-> Q[i]],
         \A i \in Slots(n) : Q[i] \in Proc /\ Alike(P[i], Q[i])
  PROVE  TableOK(Q, n, np)
<1>1. ASSUME NEW i \in Slots(n)
      PROVE  SlotOK(Q[i], i, np) /\ Q[i].pid = P[i].pid
  <2>1. SlotOK(P[i], i, np) /\ P[i] \in Proc
    BY DEF TableOK
  <2> QED
    BY <2>1 DEF SlotOK, Alike
<1> QED
  BY <1>1, SamePids

(* What a call, or a step inside one, leaves of a slot: the process, its   *)
(* stack, and its pending signals, to which it may add one it raises; only *)
(* sigreturn ends a handler, its caller's.                                 *)
Keeps(p, q) ==
  /\ q.pid = p.pid /\ q.parent_pid = p.parent_pid
  /\ q.kernel_stack = p.kernel_stack /\ q.started = p.started
  /\ q.frame = p.frame
  /\ p.sig_pending \subseteq q.sig_pending
  /\ \A s \in q.sig_pending : s \in p.sig_pending \/ Raises(s)
  /\ q.in_signal = p.in_signal \/ (SysSigreturn /\ p.pid = cpu)

(* The same when the caller has trapped. *)
From(p, q) ==
  /\ q.pid = p.pid /\ q.parent_pid = p.parent_pid
  /\ q.kernel_stack = p.kernel_stack /\ q.started = p.started
  /\ q.frame = p.frame \/ (p.pid = cpu /\ q.frame = tss)
  /\ p.sig_pending \subseteq q.sig_pending
  /\ \A s \in q.sig_pending : s \in p.sig_pending \/ Raises(s)
  /\ q.in_signal = p.in_signal \/ (SysSigreturn /\ p.pid = cpu)

Origin(q) ==
  \/ \E k \in Slots(process_count) : From(processes[k], q)
  \/ q = ForkedChild /\ next_pid <= MaxPid

(* A table that a user process's step may pass on: every slot in it is a   *)
(* process there was, or the child of a fork.                              *)
Passed(P, n) ==
  /\ Me.where \notin {"boot", "task"}
  /\ TableOK(P, n, next_pid')
  /\ current \in Slots(n) /\ current >= 2 /\ P[current].pid = cpu
  /\ \A i \in Slots(n) : Origin(P[i])

Counters ==
  /\ next_pid' \in 2..(MaxPid + 1)
  /\ foreground_pgid' \in 0..MaxPid
  /\ init_pc' = init_pc

(* The three shapes of a step of a user process: the way out of a call, a  *)
(* step inside one, and the exit without a parent.                         *)
Returns ==
  \E P, n : Passed(P, n) /\ ReturnPath(P, n, current) /\ Counters

Stays ==
  \E P : /\ Passed(P, process_count) /\ P[current].where # "user"
         /\ Inside(P) /\ Counters

Vanishes ==
  /\ Me.where = "user" /\ ~(Me.parent_pid > 0)
  /\ Vanish(Trap, process_count, current)
  /\ next_pid' = next_pid /\ Counters

LEMMA FromKeeps ==
  ASSUME NEW p, NEW q, NEW r, From(p, q), Keeps(q, r)
  PROVE  From(p, r)
<1>1. p.sig_pending \subseteq r.sig_pending
  BY DEF From, Keeps
<1>2. r.in_signal = p.in_signal \/ (SysSigreturn /\ p.pid = cpu)
  BY DEF From, Keeps
<1>3. \A s \in r.sig_pending : s \in p.sig_pending \/ Raises(s)
  BY DEF From, Keeps
<1> QED
  BY <1>1, <1>2, <1>3 DEF From, Keeps

(* Every step from a place other than "boot" and "task" is a user          *)
(* process's, and the table it traps with is well formed.                  *)
LEMMA Trapping ==
  ASSUME IInv, Me.where \notin {"boot", "task"}
  PROVE  /\ current \in Slots(process_count) /\ current >= 2
         /\ tss \in 0..MaxPid /\ Me.pid = cpu /\ Me \in Proc
         /\ processes[current] = Me
         /\ TableOK(processes, process_count, next_pid)
         /\ TableOK(Trap, process_count, next_pid)
         /\ Trap[current] \in Proc
         /\ Trap[current].pid = cpu
         /\ Trap[current].parent_pid = Me.parent_pid
         /\ Trap[current].where = Me.where
         /\ Trap[current].kill_i = Me.kill_i
         /\ \A i \in Slots(process_count) : Alike(processes[i], Trap[i])
         /\ \A i \in Slots(process_count) : From(processes[i], Trap[i])
         /\ init_pc # "create"
<1>1. /\ TableOK(processes, process_count, next_pid)
      /\ current \in Slots(process_count) /\ tss \in 0..MaxPid
      /\ Me.pid = cpu /\ processes[current] = Me
  BY DEF IInv, Good, Me
<1>2. SlotOK(Me, current, next_pid) /\ Me \in Proc
      /\ processes \in [Slots(process_count) -> Proc]
  BY <1>1 DEF TableOK, Me
<1>3. current >= 2 /\ init_pc # "create"
  BY <1>1, <1>2 DEF SlotOK, Slots, IInv
<1> DEFINE q == [Me EXCEPT !.frame = tss]
<1>4. q \in Proc /\ Alike(Me, q)
  BY <1>1, <1>2 DEF Proc, Alike
<1>5. From(Me, q)
  BY <1>1, <1>2 DEF Proc, From
<1>6. \/ Trap = processes
      \/ Trap = [processes EXCEPT ![current] = q]
  BY DEF Trap, Trapped, Me
<1> HIDE DEF q
<1>7. /\ Trap = [i \in Slots(process_count) |-> Trap[i]]
      /\ \A i \in Slots(process_count) :
           Trap[i] \in Proc /\ Alike(processes[i], Trap[i])
  BY <1>1, <1>2, <1>4, <1>6 DEF Alike, Me
<1>8. TableOK(Trap, process_count, next_pid)
  BY <1>1, <1>7, AlikeOK
<1>9. \A p : From(p, p)
  BY DEF From
<1>10. \A i \in Slots(process_count) : From(processes[i], Trap[i])
  BY <1>1, <1>2, <1>5, <1>6, <1>9
<1> QED
  BY <1>1, <1>2, <1>3, <1>7, <1>8, <1>10 DEF Alike, Me

(* The table as the trap leaves it may be passed on. *)
LEMMA TrapPassed ==
  ASSUME IInv, Me.where \notin {"boot", "task"}, next_pid' = next_pid
  PROVE  Passed(Trap, process_count)
<1>1. \A i \in Slots(process_count) : Origin(Trap[i])
  BY Trapping DEF Origin
<1> QED
  BY <1>1, Trapping DEF Passed

(* So may one in which a call has changed slots without harm. *)
LEMMA KeepsPassed ==
  ASSUME IInv, Me.where \notin {"boot", "task"}, next_pid' = next_pid,
         NEW P, TableOK(P, process_count, next_pid),
         \A i \in Slots(process_count) : Keeps(Trap[i], P[i])
  PROVE  Passed(P, process_count)
<1>1. ASSUME NEW i \in Slots(process_count)
      PROVE  From(processes[i], P[i])
  <2>1. From(processes[i], Trap[i])
    BY Trapping
  <2> QED
    BY <2>1, FromKeeps
<1>2. \A i \in Slots(process_count) : Origin(P[i])
  BY <1>1 DEF Origin
<1>3. P[current].pid = cpu
  BY Trapping DEF Keeps
<1> QED
  BY <1>2, <1>3, Trapping DEF Passed

(* A table with one slot of the caller's changed. *)
LEMMA UpdatedPassed ==
  ASSUME IInv, Me.where \notin {"boot", "task"}, next_pid' = next_pid,
         NEW q \in Proc, Keeps(Trap[current], q),
         q.where = "post" => q.kill_i < MAX_PROCESSES
  PROVE  /\ Passed([Trap EXCEPT ![current] = q], process_count)
         /\ [Trap EXCEPT ![current] = q][current] = q
<1> DEFINE P == [Trap EXCEPT ![current] = q]
<1>1. /\ q.pid = Trap[current].pid
      /\ q.parent_pid = Trap[current].parent_pid
  BY DEF Keeps
<1>2. TableOK(P, process_count, next_pid) /\ P[current] = q
  BY <1>1, Trapping, UpdateOK
<1>3. \A p : Keeps(p, p)
  BY DEF Keeps
<1>4. \A i \in Slots(process_count) : P[i] = Trap[i] \/ i = current
  BY Trapping DEF TableOK
<1> HIDE DEF P
<1>5. \A i \in Slots(process_count) : Keeps(Trap[i], P[i])
  BY <1>2, <1>3, <1>4
<1>6. Passed(P, process_count)
  BY <1>2, <1>5, KeepsPassed
<1> QED
  BY <1>2, <1>6 DEF P

(* A call that changes only its caller's slot. *)
LEMMA ReturningUpdated ==
  ASSUME IInv, Me.where \notin {"boot", "task"}, NEW q \in Proc,
         Keeps(Trap[current], q), q.where # "post",
         ReturnPath([Trap EXCEPT ![current] = q], process_count, current),
         next_pid' = next_pid, Counters
  PROVE  Returns
<1>1. Passed([Trap EXCEPT ![current] = q], process_count)
  BY UpdatedPassed
<1> QED
  BY <1>1 DEF Returns

(* A step inside the kernel that changes only the slot it runs in. *)
LEMMA InsideUpdated ==
  ASSUME IInv, Me.where \notin {"boot", "task"}, NEW q \in Proc,
         Keeps(Trap[current], q),
         q.where = "post" => q.kill_i < MAX_PROCESSES, q.where # "user",
         Inside([Trap EXCEPT ![current] = q])
  PROVE  Stays
<1>1. next_pid' = next_pid /\ Counters
  BY DEF Inside, Kept, Counters, IInv
<1>2. /\ Passed([Trap EXCEPT ![current] = q], process_count)
      /\ [Trap EXCEPT ![current] = q][current] = q
  BY <1>1, UpdatedPassed
<1> QED
  BY <1>1, <1>2 DEF Stays

(* Outside ring 3 there is no trap. *)
LEMMA NoTrap ==
  ASSUME Me.where # "user" PROVE Trap = processes
BY DEF Trap, Trapped, Me

(* The table as the timer interrupt leaves it. *)
LEMMA TimerTrap ==
  ASSUME IInv
  PROVE  /\ TableOK(Trap, process_count, next_pid)
         /\ \A i \in Slots(process_count) : Alike(processes[i], Trap[i])
         /\ \A i \in Slots(process_count) : From(processes[i], Trap[i])
         /\ current < 2 => Trap = processes
<1>1. /\ TableOK(processes, process_count, next_pid)
      /\ current \in Slots(process_count)
  BY DEF IInv, Good
<1>2. CASE Me.where = "user"
  <2>1. current >= 2 /\ current \in Nat
    BY <1>1, <1>2, Trapping DEF Slots
  <2> QED
    BY <1>2, <2>1, Trapping
<1>3. CASE Me.where # "user"
  BY <1>1, <1>3, NoTrap DEF Alike, From
<1> QED
  BY <1>2, <1>3

(* The counters of the calls that leave them alone. *)
LEMMA KeptCounters ==
  ASSUME IInv, Kept PROVE next_pid' = next_pid /\ Counters
BY DEF IInv, Kept, Counters

(***************************************************************************)
(* One lemma per action                                                    *)
(***************************************************************************)

(* A call that changes none of this state. *)
LEMMA StepOther == ASSUME IInv, SysOther PROVE Returns
<1>1. Me.where = "user" /\ Kept /\ ReturnPath(Trap, process_count, current)
  BY DEF SysOther, Call
<1> QED
  BY <1>1, TrapPassed, KeptCounters DEF Returns

(* process_exit of a process with a parent keeps every slot. *)
LEMMA ZombifiedPassed ==
  ASSUME IInv, Me.where \notin {"boot", "task"}, next_pid' = next_pid
  PROVE  /\ Passed(Zombified(Trap, current), process_count)
         /\ TableOK(Zombified(Trap, current), process_count, next_pid)
         /\ \A i \in Slots(process_count) :
              Keeps(Trap[i], Zombified(Trap, current)[i])
<1> DEFINE Z == Zombified(Trap, current)
<1>1. TableOK(Z, process_count, next_pid)
  BY Trapping, ZombifiedOK
<1>2. ASSUME NEW p \in Proc, NEW q,
             \/ q = [p EXCEPT !.state = "ZOMBIE"]
             \/ q = [p EXCEPT !.sleep_ticks = 0]
             \/ q = p
      PROVE  Keeps(p, q)
  BY <1>2 DEF Proc, Keeps
<1>3. /\ DOMAIN Trap = Slots(process_count)
      /\ \A i \in Slots(process_count) : Trap[i] \in Proc
  BY Trapping DEF TableOK
<1>4. \A i \in Slots(process_count) :
        \/ Z[i] = [Trap[i] EXCEPT !.state = "ZOMBIE"]
        \/ Z[i] = [Trap[i] EXCEPT !.sleep_ticks = 0]
        \/ Z[i] = Trap[i]
  BY <1>3 DEF Zombified
<1> HIDE DEF Z
<1>5. \A i \in Slots(process_count) : Keeps(Trap[i], Z[i])
  BY <1>2, <1>3, <1>4
<1>6. Passed(Z, process_count)
  BY <1>1, <1>5, KeepsPassed
<1> QED
  BY <1>1, <1>5, <1>6 DEF Z

(* SYS_EXIT. *)
LEMMA StepExit == ASSUME IInv, SysExit PROVE Returns \/ Vanishes
<1>1. Me.where = "user" /\ Kept
  BY DEF SysExit, Call
<1>2. next_pid' = next_pid /\ Counters
  BY <1>1, KeptCounters
<1>3. CASE Me.parent_pid > 0
  <2>1. ReturnPath(Zombified(Trap, current), process_count, current)
    BY <1>3 DEF SysExit
  <2> QED
    BY <1>1, <1>2, <2>1, ZombifiedPassed DEF Returns
<1>4. CASE ~(Me.parent_pid > 0)
  BY <1>1, <1>2, <1>4 DEF SysExit, Vanishes
<1> QED
  BY <1>3, <1>4

(* SYS_SLEEP. *)
LEMMA StepSleep ==
  ASSUME IInv, NEW t \in 1..MaxSleep, SysSleep(t) PROVE Returns
<1> DEFINE q == [Trap[current] EXCEPT !.sleep_ticks = t]
<1>1. Me.where = "user" /\ Kept
  BY DEF SysSleep, Call
<1>2. q \in Proc /\ Keeps(Trap[current], q) /\ q.where # "post"
  BY <1>1, Trapping DEF Proc, Keeps
<1>3. ReturnPath([Trap EXCEPT ![current] = q], process_count, current)
  BY DEF SysSleep
<1> HIDE DEF q
<1> QED
  BY <1>1, <1>2, <1>3, KeptCounters, ReturningUpdated

(* SYS_EXECVE. *)
LEMMA StepExecve == ASSUME IInv, SysExecve PROVE Returns
<1> DEFINE q == [Trap[current] EXCEPT !.user = "main"]
<1>1. Me.where = "user" /\ Kept
  BY DEF SysExecve, Call
<1>2. q \in Proc /\ Keeps(Trap[current], q) /\ q.where # "post"
  BY <1>1, Trapping DEF Proc, Contexts, Keeps
<1>3. ReturnPath([Trap EXCEPT ![current] = q], process_count, current)
  BY DEF SysExecve
<1> HIDE DEF q
<1> QED
  BY <1>1, <1>2, <1>3, KeptCounters, ReturningUpdated

(* SYS_SIGACTION. *)
LEMMA StepSigaction ==
  ASSUME IInv, NEW s \in Signals, NEW h \in Dispositions, SysSigaction(s, h)
  PROVE  Returns
<1> DEFINE q == [Trap[current] EXCEPT !.sig_handler =
                   [Trap[current].sig_handler EXCEPT ![s] = h]]
<1>1. Me.where = "user" /\ Kept
  BY DEF SysSigaction, Call
<1>2. q \in Proc /\ Keeps(Trap[current], q) /\ q.where # "post"
  <2>1. h \in 0..2 /\ Trap[current] \in Proc
    BY <1>1, Trapping, ProcessAssumption
  <2>2. [Trap[current].sig_handler EXCEPT ![s] = h] \in [Signals -> 0..2]
    BY <2>1 DEF Proc
  <2> QED
    BY <1>1, <2>1, <2>2, Trapping DEF Proc, Keeps
<1>3. ReturnPath([Trap EXCEPT ![current] = q], process_count, current)
  BY DEF SysSigaction
<1> HIDE DEF q
<1> QED
  BY <1>1, <1>2, <1>3, KeptCounters, ReturningUpdated

(* SYS_SIGRETURN. *)
LEMMA SigreturnPassed ==
  ASSUME IInv, SysSigreturn
  PROVE  \E P : /\ Passed(P, process_count) /\ P[current].in_signal = FALSE
                /\ ReturnPath(P, process_count, current) /\ Counters
<1> DEFINE q == [[Trap[current] EXCEPT !.user = Me.sig_saved]
                   EXCEPT !.in_signal = FALSE]
<1>1. Me.where = "user" /\ Kept
  BY DEF SysSigreturn, Call
<1>2. q \in Proc /\ Keeps(Trap[current], q) /\ q.where # "post"
  BY <1>1, Trapping DEF Proc, Keeps
<1>3. ReturnPath([Trap EXCEPT ![current] = q], process_count, current)
  <2>1. Trap \in [Slots(process_count) -> Proc]
        /\ current \in Slots(process_count)
    BY <1>1, Trapping DEF TableOK
  <2> QED
    BY <2>1 DEF SysSigreturn
<1>4. q.in_signal = FALSE
  BY <1>1, Trapping DEF Proc
<1> HIDE DEF q
<1>5. next_pid' = next_pid /\ Counters
  BY <1>1, KeptCounters
<1>6. /\ Passed([Trap EXCEPT ![current] = q], process_count)
      /\ [Trap EXCEPT ![current] = q][current] = q
  BY <1>1, <1>2, <1>5, UpdatedPassed
<1> QED
  BY <1>3, <1>4, <1>5, <1>6

LEMMA StepSigreturn == ASSUME IInv, SysSigreturn PROVE Returns
BY SigreturnPassed DEF Returns

(* The record fork fills in. *)
LEMMA ForkedChildOK ==
  ASSUME IInv, Me.where \notin {"boot", "task"}, next_pid <= MaxPid
  PROVE  /\ ForkedChild \in Proc /\ ForkedChild.pid = next_pid
         /\ ForkedChild.parent_pid = Me.pid /\ ForkedChild.where = "user"
         /\ ForkedChild.kernel_stack = TRUE /\ ForkedChild.started = TRUE
         /\ ForkedChild.frame = IF tss = Me.pid THEN next_pid ELSE Wild
<1>1. /\ Me.pid \in 0..MaxPid /\ Me.pgid \in 0..MaxPid
      /\ Me.user \in Contexts
  BY Trapping DEF Proc
<1>2. next_pid \in 0..MaxPid /\ 0 \in 0..MaxPid /\ 0 \in 0..MaxSleep
      /\ 0 \in (-MaxPid)..MaxPid /\ 0 \in 0..MAX_PROCESSES
  BY ProcessAssumption DEF IInv
<1>3. [s \in Signals |-> SIG_DFL] \in [Signals -> 0..2]
  BY DEF SIG_DFL
<1>4. ZeroProc(next_pid) \in Proc /\ ZeroProc(next_pid).pid = next_pid
  BY <1>2, <1>3 DEF ZeroProc, Proc, Contexts, Places
<1> DEFINE f == IF tss = Me.pid THEN next_pid ELSE Wild
<1>5. f \in {NoFrame, Wild} \cup (0..MaxPid)
  BY <1>2
<1> HIDE DEF f
<1>6. ForkedChild =
        [[[[[[[ZeroProc(next_pid) EXCEPT !.parent_pid = Me.pid]
          EXCEPT !.pgid = Me.pgid] EXCEPT !.kernel_stack = TRUE]
          EXCEPT !.started = TRUE] EXCEPT !.where = "user"]
          EXCEPT !.user = Me.user] EXCEPT !.frame = f]
  BY DEF ForkedChild, ChildPid, f
<1>7. /\ ForkedChild \in Proc /\ ForkedChild.pid = next_pid
      /\ ForkedChild.parent_pid = Me.pid /\ ForkedChild.where = "user"
      /\ ForkedChild.kernel_stack = TRUE /\ ForkedChild.started = TRUE
      /\ ForkedChild.frame = f
  BY <1>1, <1>4, <1>5, <1>6 DEF Proc, Places
<1> QED
  BY <1>7 DEF f

(* SYS_FORK, with room in the table and without. *)
LEMMA StepFork == ASSUME IInv, SysFork PROVE Returns
<1>1. Me.where = "user" /\ init_pc' = init_pc
      /\ foreground_pgid' = foreground_pgid
  BY DEF SysFork, Call
<1>2. foreground_pgid' \in 0..MaxPid /\ next_pid \in 2..(MaxPid + 1)
  BY <1>1 DEF IInv
<1>3. CASE process_count >= MAX_PROCESSES
  <2>1. ReturnPath(Trap, process_count, current) /\ next_pid' = next_pid
    BY <1>3 DEF SysFork
  <2>2. Passed(Trap, process_count)
    BY <1>1, <2>1, TrapPassed
  <2> QED
    BY <1>1, <1>2, <2>1, <2>2 DEF Returns, Counters
<1>4. CASE ~(process_count >= MAX_PROCESSES)
  <2> DEFINE P == Extend(Trap, process_count, ForkedChild)
             n == process_count + 1
  <2>1. /\ ReturnPath(P, n, current) /\ next_pid' = next_pid + 1
        /\ next_pid <= MaxPid
    BY <1>4 DEF SysFork
  <2>2. process_count \in 2..MAX_PROCESSES
        /\ process_count < MAX_PROCESSES
    BY <1>1, <1>4, Trapping, ProcessAssumption DEF TableOK
  <2>3. /\ ForkedChild \in Proc /\ ForkedChild.pid = next_pid
        /\ ForkedChild.parent_pid = Me.pid /\ ForkedChild.where = "user"
    BY <1>1, <2>1, ForkedChildOK
  <2>4. Me.pid < next_pid
    BY <1>1, Trapping DEF TableOK, SlotOK, Me
  <2>5. /\ TableOK(P, n, next_pid + 1)
        /\ \A i \in Slots(process_count) : P[i] = Trap[i]
        /\ P[process_count] = ForkedChild
        /\ \A i \in Slots(n) : i \in Slots(process_count) \/ i = process_count
    <3>1. /\ TableOK(Extend(Trap, process_count, ForkedChild),
                     process_count + 1, next_pid + 1)
          /\ \A i \in Slots(process_count) :
               Extend(Trap, process_count, ForkedChild)[i] = Trap[i]
      BY <1>1, <1>2, <2>1, <2>2, <2>3, <2>4, Trapping, ExtendOK
    <3>2. process_count \in Slots(process_count + 1)
      BY <2>2 DEF Slots
    <3> QED
      BY <2>2, <3>1, <3>2 DEF Extend, Slots
  <2>6. current \in Slots(n) /\ current >= 2 /\ current \in Slots(process_count)
    BY <1>1, <2>2, Trapping DEF Slots
  <2> HIDE DEF P, n
  <2>7. ASSUME NEW i \in Slots(n)
        PROVE  Origin(P[i])
    <3>1. CASE i \in Slots(process_count)
      BY <1>1, <2>5, <3>1, Trapping DEF Origin
    <3>2. CASE i = process_count
      BY <1>1, <2>1, <2>5, <3>2 DEF Origin
    <3> QED
      BY <2>5, <3>1, <3>2
  <2>8. P[current].pid = cpu
    BY <1>1, <2>5, <2>6, Trapping
  <2>9. Passed(P, n)
    BY <1>1, <2>1, <2>5, <2>6, <2>7, <2>8 DEF Passed
  <2>10. next_pid' \in 2..(MaxPid + 1)
    BY <1>1, <1>2, <2>1, ProcessAssumption
  <2> QED
    BY <1>1, <1>2, <2>1, <2>9, <2>10 DEF Returns, Counters
<1> QED
  BY <1>3, <1>4

(* A zombie child sits above its parent in the table, so current does not  *)
(* move when it is reaped.                                                 *)
LEMMA Reaping ==
  ASSUME IInv, Me.where = "user", NEW pid, NEW i \in Slots(process_count),
         ZombieChild(i, pid), ReapReturn(i), Kept
  PROVE  Returns
<1> DEFINE P == Compact(Trap, process_count, i)
           n == process_count - 1
<1>1. /\ TableOK(processes, process_count, next_pid)
      /\ TableOK(Trap, process_count, next_pid)
      /\ current \in Slots(process_count) /\ current >= 2
      /\ Me.pid = cpu /\ Trap[current].pid = cpu
  BY Trapping
<1>2. processes[i].parent_pid = Me.pid /\ processes[i].state = "ZOMBIE"
  BY DEF ZombieChild, Child
<1>3. /\ \A a, b \in Slots(process_count) :
           a < b => processes[a].pid < processes[b].pid
      /\ SlotOK(processes[i], i, next_pid) /\ processes[i] \in Proc
      /\ SlotOK(processes[0], 0, next_pid)
      /\ processes[0].pid = 0 /\ 0 \in Slots(process_count)
  BY <1>1 DEF TableOK, SlotOK, Slots
<1>4. processes[i].pid \in Int /\ Me.pid \in Int
      /\ i \in Int /\ current \in Int
  <2>1. Me \in Proc
    BY Trapping
  <2> QED
    BY <1>1, <1>3, <2>1 DEF Proc, Slots
<1>5. processes[i].pid > Me.pid
  <2>1. processes[i].pid > 0
    <3>1. i # 0
      BY <1>1, <1>2, <1>3, <1>4 DEF SlotOK, Me
    <3> QED
      BY <1>3, <1>4, <3>1 DEF Slots
  <2> QED
    BY <1>2, <1>3, <1>4, <2>1 DEF SlotOK
<1>6. i > current
  BY <1>1, <1>3, <1>4, <1>5 DEF Me
<1>7. /\ ReapedCurrent(process_count, current, i) = current
      /\ current \in Slots(n)
  BY <1>1, <1>4, <1>6 DEF ReapedCurrent, Slots, TableOK
<1>8. /\ TableOK(P, n, next_pid)
      /\ P[current] = Trap[current]
  BY <1>1, <1>4, <1>6, <1>7, CompactOK
<1>9. ReturnPath(P, n, current)
  BY <1>7 DEF ReapReturn
<1>10. ASSUME NEW j \in Slots(n)
       PROVE  \E k \in Slots(process_count) : P[j] = Trap[k]
  <2>1. j \in Slots(process_count) /\ j + 1 \in Slots(process_count)
    BY <1>1 DEF Slots, TableOK
  <2>2. P[j] = IF j < i THEN Trap[j] ELSE Trap[j + 1]
    BY DEF Compact
  <2> QED
    BY <2>1, <2>2
<1> HIDE DEF P, n
<1>11. \A j \in Slots(n) : Origin(P[j])
  BY <1>10, Trapping DEF Origin
<1>12. next_pid' = next_pid /\ Counters
  BY KeptCounters
<1>13. Passed(P, n)
  BY <1>1, <1>7, <1>8, <1>11, <1>12 DEF Passed
<1> QED
  BY <1>9, <1>12, <1>13 DEF Returns

(* SYS_WAITPID. *)
LEMMA StepWaitpid ==
  ASSUME IInv, NEW pid, SysWaitpid(pid) PROVE Returns
<1>1. Me.where = "user" /\ Kept
  BY DEF SysWaitpid, Call
<1>2. \/ ReturnPath(Trap, process_count, current)
      \/ \E i \in Slots(process_count) : ZombieChild(i, pid) /\ ReapReturn(i)
  BY DEF SysWaitpid
<1>3. Passed(Trap, process_count) /\ Counters
  BY <1>1, KeptCounters, TrapPassed
<1>4. CASE ReturnPath(Trap, process_count, current)
  BY <1>3, <1>4 DEF Returns
<1> QED
  BY <1>1, <1>2, <1>4, Reaping

(* SYS_WAIT. *)
LEMMA StepWait == ASSUME IInv, SysWait PROVE Returns
<1> DEFINE q == [Trap[current] EXCEPT !.sleep_ticks = WaitTicks]
<1>1. Me.where = "user" /\ Kept
  BY DEF SysWait, Call
<1>2. q \in Proc /\ Keeps(Trap[current], q) /\ q.where # "post"
  <2>1. WaitTicks \in 0..MaxSleep
    BY ProcessAssumption
  <2> QED
    BY <1>1, <2>1, Trapping DEF Proc, Keeps
<1>3. \/ ReturnPath([Trap EXCEPT ![current] = q], process_count, current)
      \/ \E i \in Slots(process_count) : ZombieChild(i, 0) /\ ReapReturn(i)
  BY DEF SysWait
<1> HIDE DEF q
<1> QED
  BY <1>1, <1>2, <1>3, KeptCounters, ReturningUpdated, Reaping

(* SYS_KILL. *)
LEMMA StepKill ==
  ASSUME IInv, NEW to \in KillTargets, NEW s \in Signals, SysKill(to, s)
  PROVE  Returns
<1> DEFINE P == [i \in DOMAIN processes |->
                   IF Matches(processes[i], to, Me.pgid)
                   THEN [Trap[i] EXCEPT !.sig_pending =
                           Trap[i].sig_pending \cup {s}]
                   ELSE Trap[i]]
<1>1. Me.where = "user" /\ Kept /\ ReturnPath(P, process_count, current)
  BY DEF SysKill, Call
<1>2. /\ TableOK(Trap, process_count, next_pid)
      /\ DOMAIN processes = Slots(process_count)
  BY <1>1, Trapping DEF TableOK
<1>0. Raises(s)
  BY DEF Raises
<1>3. ASSUME NEW p \in Proc, NEW q,
             q = [p EXCEPT !.sig_pending = p.sig_pending \cup {s}]
      PROVE  q \in Proc /\ Alike(p, q) /\ Keeps(p, q)
  BY <1>0, <1>3 DEF Proc, Alike, Keeps
<1>4. /\ P = [i \in Slots(process_count) |-> P[i]]
      /\ \A i \in Slots(process_count) :
           P[i] \in Proc /\ Alike(Trap[i], P[i]) /\ Keeps(Trap[i], P[i])
  <2>1. \A i \in Slots(process_count) : Trap[i] \in Proc
    BY <1>2 DEF TableOK
  <2>2. \A p : Alike(p, p) /\ Keeps(p, p)
    BY DEF Alike, Keeps
  <2> QED
    BY <1>2, <1>3, <2>1, <2>2
<1> HIDE DEF P
<1>5. TableOK(P, process_count, next_pid)
  BY <1>2, <1>4, AlikeOK
<1>6. next_pid' = next_pid /\ Counters
  BY <1>1, KeptCounters
<1>7. Passed(P, process_count)
  BY <1>1, <1>4, <1>5, <1>6, KeepsPassed
<1> QED
  BY <1>1, <1>6, <1>7 DEF Returns

(* SYS_SETPGID. *)
LEMMA StepSetpgid ==
  ASSUME IInv, NEW pid \in 0..MaxPid, NEW pgid \in Groups,
         SysSetpgid(pid, pgid)
  PROVE  Returns
<1> DEFINE who   == IF pid = 0 THEN Me.pid ELSE pid
           group == IF pgid = 0 THEN who ELSE pgid
           P == [i \in DOMAIN processes |->
                   IF processes[i].pid = who
                   THEN [Trap[i] EXCEPT !.pgid = group] ELSE Trap[i]]
<1>1. Me.where = "user" /\ Kept /\ ReturnPath(P, process_count, current)
  BY DEF SysSetpgid, Call
<1>2. /\ TableOK(Trap, process_count, next_pid)
      /\ DOMAIN processes = Slots(process_count)
  BY <1>1, Trapping DEF TableOK
<1>3. group \in 0..MaxPid
  <2>1. Me.pid \in 0..MaxPid
    BY <1>1, Trapping DEF Proc
  <2> QED
    BY <2>1, ProcessAssumption
<1> HIDE DEF group
<1>4. ASSUME NEW p \in Proc, NEW q, q = [p EXCEPT !.pgid = group]
      PROVE  q \in Proc /\ Alike(p, q) /\ Keeps(p, q)
  BY <1>3, <1>4 DEF Proc, Alike, Keeps
<1>5. /\ P = [i \in Slots(process_count) |-> P[i]]
      /\ \A i \in Slots(process_count) :
           P[i] \in Proc /\ Alike(Trap[i], P[i]) /\ Keeps(Trap[i], P[i])
  <2>1. \A i \in Slots(process_count) : Trap[i] \in Proc
    BY <1>2 DEF TableOK
  <2>2. \A p : Alike(p, p) /\ Keeps(p, p)
    BY DEF Alike, Keeps
  <2> QED
    BY <1>2, <1>4, <2>1, <2>2
<1> HIDE DEF P
<1>6. TableOK(P, process_count, next_pid)
  BY <1>2, <1>5, AlikeOK
<1>7. next_pid' = next_pid /\ Counters
  BY <1>1, KeptCounters
<1>8. Passed(P, process_count)
  BY <1>1, <1>5, <1>6, <1>7, KeepsPassed
<1> QED
  BY <1>1, <1>7, <1>8 DEF Returns

(* SYS_SETSID. *)
LEMMA StepSetsid == ASSUME IInv, SysSetsid PROVE Returns
<1> DEFINE q == [Trap[current] EXCEPT !.pgid = Me.pid]
<1>1. Me.where = "user" /\ foreground_pgid' = Me.pid
      /\ next_pid' = next_pid /\ init_pc' = init_pc
  BY DEF SysSetsid, Call
<1>2. Me.pid \in 0..MaxPid
  BY <1>1, Trapping DEF Proc
<1>3. q \in Proc /\ Keeps(Trap[current], q) /\ q.where # "post"
  BY <1>1, <1>2, Trapping DEF Proc, Keeps
<1>4. ReturnPath([Trap EXCEPT ![current] = q], process_count, current)
  BY DEF SysSetsid
<1>5. Counters
  BY <1>1, <1>2 DEF IInv, Counters
<1> HIDE DEF q
<1> QED
  BY <1>1, <1>3, <1>4, <1>5, ReturningUpdated

(* The TIOCSPGRP ioctl. *)
LEMMA StepTcsetpgrp ==
  ASSUME IInv, NEW pgid \in Groups, SysTcsetpgrp(pgid) PROVE Returns
<1>1. Me.where = "user" /\ foreground_pgid' = pgid
      /\ next_pid' = next_pid /\ init_pc' = init_pc
      /\ ReturnPath(Trap, process_count, current)
  BY DEF SysTcsetpgrp, Call
<1>2. Counters
  BY <1>1, ProcessAssumption DEF IInv, Counters
<1>3. Passed(Trap, process_count)
  BY <1>1, TrapPassed
<1> QED
  BY <1>1, <1>2, <1>3 DEF Returns

(* SYS_READ of the console. *)
LEMMA StepRead == ASSUME IInv, SysRead PROVE Stays
<1> DEFINE q == [Trap[current] EXCEPT !.where = "read"]
<1>1. Me.where = "user"
  BY DEF SysRead, Call
<1>2. q \in Proc /\ Keeps(Trap[current], q) /\ q.where = "read"
  BY <1>1, Trapping DEF Proc, Places, Keeps
<1>3. Inside([Trap EXCEPT ![current] = q])
  BY DEF SysRead
<1> HIDE DEF q
<1> QED
  BY <1>1, <1>2, <1>3, InsideUpdated

(* console_read returns. *)
LEMMA StepReadReturns == ASSUME IInv, ReadReturns PROVE Returns
<1>1. Me.where = "read" /\ Kept
      /\ ReturnPath(processes, process_count, current)
  BY DEF ReadReturns, At
<1>2. ReturnPath(Trap, process_count, current)
  BY <1>1, NoTrap
<1> QED
  BY <1>1, <1>2, TrapPassed, KeptCounters DEF Returns

(* console_read meets ^C. *)
LEMMA StepCtrlC == ASSUME IInv, ReadCtrlC PROVE Stays
<1> DEFINE to == IF foreground_pgid = 0 THEN Me.pid ELSE -foreground_pgid
           q == [[[Me EXCEPT !.where = "kill"] EXCEPT !.kill_to = to]
                    EXCEPT !.kill_i = 0]
<1>1. Me.where = "read" /\ Trap = processes
  BY NoTrap DEF ReadCtrlC, At
<1>2. to \in (-MaxPid)..MaxPid /\ 0 \in 0..MAX_PROCESSES
  <2>1. Me.pid \in 0..MaxPid /\ foreground_pgid \in 0..MaxPid
    BY <1>1, Trapping DEF Proc, IInv
  <2> QED
    BY <2>1, ProcessAssumption
<1>3. Inside([Trap EXCEPT ![current] = q])
  <2>1. processes \in [Slots(process_count) -> Proc]
        /\ current \in Slots(process_count)
    BY <1>1, Trapping DEF TableOK
  <2> QED
    BY <1>1, <2>1 DEF ReadCtrlC, Me
<1> HIDE DEF to
<1>4. q \in Proc /\ Keeps(Me, q) /\ q.where = "kill"
  BY <1>1, <1>2, Trapping DEF Proc, Places, Keeps
<1>5. Keeps(Trap[current], q)
  BY <1>1, <1>4 DEF Me
<1> HIDE DEF q
<1> QED
  BY <1>1, <1>3, <1>4, <1>5, InsideUpdated

(* The match test of process_kill's loop. *)
LEMMA StepKillTest == ASSUME IInv, KillTest PROVE Stays
<1> DEFINE q == [Me EXCEPT !.where = "post"]
           r == [Me EXCEPT !.kill_i = Me.kill_i + 1]
<1>1. Me.where = "kill" /\ Me.kill_i < process_count /\ Trap = processes
  BY NoTrap DEF KillTest, At
<1>2. Me \in Proc /\ process_count \in 2..MAX_PROCESSES
      /\ Trap[current] = Me
  BY <1>1, Trapping DEF TableOK, Me
<1>3. Me.kill_i < MAX_PROCESSES /\ Me.kill_i + 1 \in 0..MAX_PROCESSES
  BY <1>1, <1>2, ProcessAssumption DEF Proc
<1>4. /\ q \in Proc /\ Keeps(Me, q) /\ q.where = "post"
      /\ q.kill_i < MAX_PROCESSES
  BY <1>2, <1>3 DEF Proc, Places, Keeps
<1>5. r \in Proc /\ Keeps(Me, r) /\ r.where = "kill"
  BY <1>1, <1>2, <1>3 DEF Proc, Keeps
<1>6. \/ Inside([Trap EXCEPT ![current] = q])
      \/ Inside([Trap EXCEPT ![current] = r])
  BY <1>1 DEF KillTest, Me
<1> HIDE DEF q, r
<1>7. CASE Inside([Trap EXCEPT ![current] = q])
  BY <1>1, <1>2, <1>4, <1>7, InsideUpdated
<1>8. CASE Inside([Trap EXCEPT ![current] = r])
  BY <1>1, <1>2, <1>5, <1>8, InsideUpdated
<1> QED
  BY <1>6, <1>7, <1>8

(* The write of process_kill's loop. *)
LEMMA StepKillPost == ASSUME IInv, KillPost PROVE Stays
<1> DEFINE p(i) == IF i = Me.kill_i
                   THEN [processes[i] EXCEPT !.sig_pending =
                           processes[i].sig_pending \cup {SIGINT}]
                   ELSE processes[i]
           P == [i \in DOMAIN processes |-> p(i)]
           q == [[p(current) EXCEPT !.where = "kill"]
                    EXCEPT !.kill_i = Me.kill_i + 1]
           Q == [P EXCEPT ![current] = q]
<1>1. Me.where = "post" /\ Trap = processes
  BY NoTrap DEF KillPost, At
<1>2. /\ TableOK(processes, process_count, next_pid)
      /\ processes \in [Slots(process_count) -> Proc]
      /\ DOMAIN processes = Slots(process_count)
      /\ current \in Slots(process_count) /\ current >= 2
      /\ Me.pid = cpu /\ Me \in Proc
      /\ SlotOK(Me, current, next_pid)
  BY <1>1, Trapping DEF TableOK, Me
<1>0. Raises(SIGINT)
  BY DEF Raises
<1>3. ASSUME NEW i \in Slots(process_count)
      PROVE  p(i) \in Proc /\ Alike(processes[i], p(i))
             /\ Keeps(processes[i], p(i))
  BY <1>0, <1>2, ProcessAssumption DEF Proc, Alike, Keeps
<1>4. Inside(Q)
  <2>1. Q = [i \in DOMAIN processes |->
               IF i = current
               THEN [p(i) EXCEPT !.where = "kill", !.kill_i = Me.kill_i + 1]
               ELSE p(i)]
    BY <1>2
  <2> QED
    BY <2>1 DEF KillPost
<1>5. P[current] = p(current)
  BY <1>2
<1>6. /\ P = [i \in Slots(process_count) |-> P[i]]
      /\ \A i \in Slots(process_count) :
           P[i] \in Proc /\ Alike(processes[i], P[i])
           /\ Keeps(processes[i], P[i])
  BY <1>2, <1>3
<1> HIDE DEF P, p
<1>7. TableOK(P, process_count, next_pid)
  BY <1>2, <1>6, AlikeOK
<1>8. Me.kill_i + 1 \in 0..MAX_PROCESSES
  BY <1>1, <1>2, ProcessAssumption DEF SlotOK, Proc
<1>9. q \in Proc /\ Keeps(Me, q) /\ q.where = "kill"
  <2>1. p(current) \in Proc /\ Keeps(Me, p(current))
    BY <1>2, <1>3 DEF Me
  <2> QED
    BY <1>8, <2>1 DEF Proc, Places, Keeps
<1> HIDE DEF q
<1>10. /\ q.pid = P[current].pid /\ q.parent_pid = P[current].parent_pid
       /\ q.where # "post"
  BY <1>2, <1>6, <1>9 DEF Alike, Keeps, Me
<1>11. TableOK(Q, process_count, next_pid) /\ Q[current] = q
  BY <1>2, <1>7, <1>9, <1>10, UpdateOK
<1>12. \A i \in Slots(process_count) : Q[i] = P[i] \/ i = current
  BY <1>7 DEF TableOK
<1> HIDE DEF Q
<1>13. \A i \in Slots(process_count) : Keeps(Trap[i], Q[i])
  BY <1>1, <1>6, <1>9, <1>11, <1>12 DEF Me
<1>14. next_pid' = next_pid /\ Counters
  BY <1>4, KeptCounters DEF Inside
<1>15. Passed(Q, process_count) /\ Q[current].where # "user"
  BY <1>1, <1>9, <1>11, <1>13, <1>14, KeepsPassed
<1> QED
  BY <1>4, <1>14, <1>15 DEF Stays

(* The end of process_kill's loop. *)
LEMMA StepKillEnds == ASSUME IInv, KillEnds PROVE Stays \/ Returns
<1> DEFINE q == [[Me EXCEPT !.kill_to = 0] EXCEPT !.kill_i = 0]
           r == [q EXCEPT !.where = "read"]
<1>1. Me.where = "kill" /\ Trap = processes
  BY NoTrap DEF KillEnds, At
<1>2. /\ processes \in [Slots(process_count) -> Proc]
      /\ current \in Slots(process_count) /\ Me \in Proc
      /\ Trap[current] = Me
  BY <1>1, Trapping DEF TableOK, Me
<1>3. q \in Proc /\ Keeps(Me, q) /\ q.where = "kill"
  <2>1. 0 \in (-MaxPid)..MaxPid /\ 0 \in 0..MAX_PROCESSES
    BY ProcessAssumption
  <2> QED
    BY <1>1, <1>2, <2>1 DEF Proc, Keeps
<1>4. r \in Proc /\ Keeps(Me, r) /\ r.where = "read"
  BY <1>3 DEF Proc, Places, Keeps
<1>5. \/ Inside([Trap EXCEPT ![current] = r])
      \/ ReturnPath([Trap EXCEPT ![current] = q], process_count, current)
         /\ Kept
  BY <1>1, <1>2 DEF KillEnds, Me
<1> HIDE DEF r, q
<1>6. CASE Inside([Trap EXCEPT ![current] = r])
  BY <1>1, <1>2, <1>4, <1>6, InsideUpdated
<1>7. CASE ReturnPath([Trap EXCEPT ![current] = q], process_count, current)
           /\ Kept
  BY <1>1, <1>2, <1>3, <1>7, KeptCounters, ReturningUpdated
<1> QED
  BY <1>5, <1>6, <1>7

(* isr14_handler for a fault in ring 3. *)
LEMMA StepPageFault == ASSUME IInv, PageFault PROVE Stays \/ Vanishes
<1> DEFINE Z == Zombified(Trap, current)
           q == [Z[current] EXCEPT !.where = "halt"]
           P == [Z EXCEPT ![current] = q]
<1>1. Me.where = "user" /\ current \in Slots(process_count) /\ current >= 2
  BY Trapping DEF PageFault, Call
<1>2. \/ Inside(P)
      \/ ~(Me.parent_pid > 0) /\ Vanish(Trap, process_count, current) /\ Kept
  BY DEF PageFault
<1>3. CASE Inside(P)
  <2>1. next_pid' = next_pid /\ Counters
    BY <1>3, KeptCounters DEF Inside
  <2>2. /\ TableOK(Z, process_count, next_pid)
        /\ \A i \in Slots(process_count) : Keeps(Trap[i], Z[i])
    BY <1>1, <2>1, ZombifiedPassed
  <2> HIDE DEF Z
  <2>3. q \in Proc /\ Keeps(Z[current], q) /\ q.where = "halt"
    <3>1. Z[current] \in Proc
      BY <1>1, <2>2 DEF TableOK
    <3> QED
      BY <3>1 DEF Proc, Places, Keeps
  <2> HIDE DEF q
  <2>4. q.pid = Z[current].pid /\ q.parent_pid = Z[current].parent_pid
        /\ q.where # "post"
    BY <2>3 DEF Keeps
  <2>5. TableOK(P, process_count, next_pid) /\ P[current] = q
    BY <1>1, <2>2, <2>3, <2>4, UpdateOK
  <2>6. \A i \in Slots(process_count) : P[i] = Z[i] \/ i = current
    BY <2>2 DEF TableOK
  <2> HIDE DEF P
  <2>7. Keeps(Trap[current], q)
    <3>1. Keeps(Trap[current], Z[current])
      BY <1>1, <2>2
    <3>2. ASSUME NEW a, NEW b, NEW c, Keeps(a, b), Keeps(b, c)
          PROVE  Keeps(a, c)
      BY <3>2 DEF Keeps
    <3> QED
      BY <2>3, <3>1, <3>2
  <2>8. \A i \in Slots(process_count) : Keeps(Trap[i], P[i])
    BY <2>2, <2>5, <2>6, <2>7
  <2>9. Passed(P, process_count) /\ P[current].where # "user"
    BY <1>1, <2>1, <2>3, <2>5, <2>8, KeepsPassed
  <2> QED
    BY <1>3, <2>1, <2>9 DEF Stays
<1>4. CASE ~(Me.parent_pid > 0) /\ Vanish(Trap, process_count, current) /\ Kept
  BY <1>1, <1>4, KeptCounters DEF Vanishes
<1> QED
  BY <1>2, <1>3, <1>4

(* The system calls, console_read and the page fault take no other shape.  *)
UserStep ==
  \/ SysOther \/ SysExit \/ SysFork \/ SysExecve \/ SysWait
  \/ \E t \in 1..MaxSleep : SysSleep(t)
  \/ \E p \in {0} \cup Pids : SysWaitpid(p)
  \/ \E to \in KillTargets, s \in Signals : SysKill(to, s)
  \/ \E s \in Signals, h \in Dispositions : SysSigaction(s, h)
  \/ SysSigreturn
  \/ \E p \in 0..MaxPid, g \in Groups : SysSetpgid(p, g)
  \/ SysSetsid
  \/ \E g \in Groups : SysTcsetpgrp(g)
  \/ SysRead \/ ReadReturns \/ ReadCtrlC \/ KillTest \/ KillPost \/ KillEnds
  \/ PageFault

LEMMA UserStepShape ==
  ASSUME IInv, UserStep PROVE Returns \/ Stays \/ Vanishes
<1>1. CASE SysOther \/ SysExit \/ SysFork \/ SysExecve \/ SysWait
  BY <1>1, StepOther, StepExit, StepFork, StepExecve, StepWait
<1>2. CASE \/ \E t \in 1..MaxSleep : SysSleep(t)
           \/ \E p \in {0} \cup Pids : SysWaitpid(p)
  BY <1>2, StepSleep, StepWaitpid
<1>3. CASE \/ \E to \in KillTargets, s \in Signals : SysKill(to, s)
           \/ \E s \in Signals, h \in Dispositions : SysSigaction(s, h)
           \/ SysSigreturn
  BY <1>3, StepKill, StepSigaction, StepSigreturn
<1>4. CASE \/ \E p \in 0..MaxPid, g \in Groups : SysSetpgid(p, g)
           \/ SysSetsid
           \/ \E g \in Groups : SysTcsetpgrp(g)
  BY <1>4, StepSetpgid, StepSetsid, StepTcsetpgrp
<1>5. CASE SysRead \/ ReadReturns \/ ReadCtrlC \/ KillTest \/ KillPost
           \/ KillEnds \/ PageFault
  BY <1>5, StepRead, StepReadReturns, StepCtrlC, StepKillTest, StepKillPost,
     StepKillEnds, StepPageFault
<1> QED
  BY <1>1, <1>2, <1>3, <1>4, <1>5 DEF UserStep

(* Each of the three shapes keeps the table well formed. *)
LEMMA UserStepOK == ASSUME IInv, UserStep PROVE IInv'
<1>1. Returns \/ Stays \/ Vanishes
  BY UserStepShape
<1>2. CASE Returns
  <2>1. PICK P, n : Passed(P, n) /\ ReturnPath(P, n, current) /\ Counters
    BY <1>2 DEF Returns
  <2>2. tss \in 0..MaxPid /\ init_pc # "create"
    BY <2>1, Trapping DEF Passed
  <2>3. Good(processes', process_count', current', cpu', tss', halted',
             next_pid')
    BY <2>1, <2>2, ReturnPathOK DEF Passed
  <2> QED
    BY <2>1, <2>2, <2>3 DEF IInv, Counters
<1>3. CASE Stays
  <2>1. PICK P : Passed(P, process_count) /\ Inside(P) /\ Counters
    BY <1>3 DEF Stays
  <2>2. tss \in 0..MaxPid /\ init_pc # "create" /\ halted \in BOOLEAN
    BY <2>1, Trapping DEF Passed, IInv, Good
  <2> QED
    BY <2>1, <2>2 DEF Passed, Inside, IInv, Good, Counters
<1>4. CASE Vanishes
  <2>1. Good(processes', process_count', current', cpu', tss', halted',
             next_pid)
    BY <1>4, Trapping, VanishOK DEF Vanishes
  <2>2. init_pc # "create"
    BY <1>4, Trapping DEF Vanishes
  <2> QED
    BY <1>4, <2>1, <2>2 DEF IInv, Counters, Vanishes
<1> QED
  BY <1>1, <1>2, <1>3, <1>4

(* irq0_stub. *)
LEMMA StepTick == ASSUME IInv, Tick PROVE IInv'
<1>1. /\ TableOK(processes, process_count, next_pid)
      /\ current \in Slots(process_count) /\ tss \in 0..MaxPid
      /\ processes[current].pid = cpu
      /\ processes \in [Slots(process_count) -> Proc]
  BY DEF IInv, Good, TableOK
<1>2. TableOK(Trap, process_count, next_pid)
  BY TimerTrap
<1>3. PICK next \in (-1)..(process_count - 1) :
        /\ ProcessTick(Ticked(processes), process_count, current, next)
        /\ IF next = -1
           THEN /\ processes' = Ticked(processes)
                /\ UNCHANGED <<process_count, current, cpu, tss, halted>>
           ELSE SwitchTo(Ticked(Trap), process_count, next)
  BY DEF Tick
<1>4. Kept
  BY DEF Tick
<1>5. CASE next = -1
  <2>1. TableOK(processes', process_count, next_pid)
        /\ processes'[current].pid = cpu
    BY <1>1, <1>3, <1>5, TickedOK, TickedPids
  <2>2. UNCHANGED <<process_count, current, cpu, tss, halted>>
    BY <1>3, <1>5
  <2> QED
    BY <1>4, <2>1, <2>2 DEF IInv, Good, Kept
<1>6. CASE next # -1
  <2>1. next \in Slots(process_count)
    BY <1>3, <1>6, ProcessTickRange
  <2>2. TableOK(Ticked(Trap), process_count, next_pid)
    BY <1>2, TickedOK
  <2>3. SwitchTo(Ticked(Trap), process_count, next)
    BY <1>3, <1>6
  <2>4. Good(processes', process_count', current', cpu', tss', halted',
             next_pid)
    BY <1>1, <2>1, <2>2, <2>3, SwitchToOK
  <2>5. process_count' = process_count
    BY <2>3 DEF SwitchTo
  <2> QED
    BY <1>4, <2>4, <2>5 DEF IInv, Kept
<1> QED
  BY <1>5, <1>6

(* The record process_create_user fills in. *)
LEMMA ShellOK ==
  ASSUME next_pid = 2
  PROVE  /\ Shell \in Proc /\ Shell.pid = 2 /\ Shell.parent_pid = 0
         /\ Shell.where = "user" /\ Shell.kernel_stack = TRUE
         /\ Shell.started = FALSE /\ Shell.state = "RUNNING"
<1>1. 2 \in 0..MaxPid /\ 0 \in 0..MaxPid /\ 0 \in 0..MaxSleep
      /\ 0 \in (-MaxPid)..MaxPid /\ 0 \in 0..MAX_PROCESSES
  BY ProcessAssumption
<1>2. [s \in Signals |-> SIG_DFL] \in [Signals -> 0..2]
  BY DEF SIG_DFL
<1> DEFINE z == ZeroProc(2)
<1>3. /\ z \in Proc /\ z.pid = 2 /\ z.parent_pid = 0
      /\ z.started = FALSE /\ z.state = "RUNNING"
  BY <1>1, <1>2 DEF ZeroProc, Proc, Contexts, Places
<1>4. Shell = [[[[[z EXCEPT !.pgid = 2] EXCEPT !.kernel_stack = TRUE]
                 EXCEPT !.where = "user"] EXCEPT !.user = "main"]
                 EXCEPT !.frame = NoFrame]
  BY DEF Shell
<1> HIDE DEF z
<1> QED
  BY <1>1, <1>3, <1>4 DEF Proc, Places, Contexts

(* process_create_user loads the shell. *)
LEMMA StepCreateUser == ASSUME IInv, CreateUser PROVE IInv'
<1> DEFINE P == Extend(processes, process_count, Shell)
<1>1. /\ init_pc = "create" /\ processes' = P
      /\ process_count' = process_count + 1 /\ next_pid' = next_pid + 1
      /\ foreground_pgid' = next_pid /\ init_pc' = "frame"
      /\ UNCHANGED <<current, cpu, tss, halted>>
  BY DEF CreateUser, InTask
<1>2. process_count = 2 /\ next_pid = 2
  BY <1>1 DEF IInv
<1>3. /\ TableOK(processes, process_count, next_pid)
      /\ current \in Slots(process_count) /\ processes[current].pid = cpu
      /\ tss \in 0..MaxPid /\ halted \in BOOLEAN
  BY DEF IInv, Good
<1>4. /\ Shell \in Proc /\ Shell.pid = next_pid /\ Shell.parent_pid = 0
      /\ Shell.where = "user"
  BY <1>2, ShellOK
<1>5. /\ TableOK(P, process_count + 1, next_pid + 1)
      /\ P[current] = processes[current]
  <2>1. process_count < MAX_PROCESSES /\ next_pid > 0
        /\ Shell.parent_pid < Shell.pid
    BY <1>2, <1>4, ProcessAssumption
  <2> QED
    BY <1>3, <1>4, <2>1, ExtendOK
<1> HIDE DEF P
<1>6. Good(processes', process_count', current', cpu', tss', halted', next_pid')
  BY <1>1, <1>2, <1>3, <1>5 DEF Good, Slots
<1>7. next_pid' \in 2..(MaxPid + 1) /\ foreground_pgid' \in 0..MaxPid
  BY <1>1, <1>2, ProcessAssumption
<1> QED
  BY <1>1, <1>6, <1>7 DEF IInv

(* process_create_user fails. *)
LEMMA StepCreateUserFails == ASSUME IInv, CreateUserFails PROVE IInv'
BY DEF IInv, Good, CreateUserFails

(* start_user_process changes only the frame and the started flag. *)
LEMMA Starting ==
  ASSUME IInv, NEW Q, processes' = Q, Q = [i \in Slots(process_count) |-> Q[i]],
         \A i \in Slots(process_count) : Q[i] \in Proc /\ Alike(processes[i], Q[i]),
         UNCHANGED <<process_count, current, next_pid, foreground_pgid, cpu,
                     tss, halted>>,
         init_pc' \in {"publish", "spin"}
  PROVE  IInv'
<1>1. TableOK(processes, process_count, next_pid)
      /\ current \in Slots(process_count)
  BY DEF IInv, Good
<1>2. TableOK(Q, process_count, next_pid)
  BY <1>1, AlikeOK
<1>3. Q[current].pid = processes[current].pid
  BY <1>1 DEF Alike
<1>4. Good(processes', process_count', current', cpu', tss', halted', next_pid')
  BY <1>1, <1>2, <1>3 DEF IInv, Good
<1> QED
  BY <1>4 DEF IInv

(* start_user_process builds the frame. *)
LEMMA StepBuildFrame == ASSUME IInv, BuildFrame PROVE IInv'
<1> DEFINE Q == [i \in DOMAIN processes |->
                   IF Unstarted(processes[i])
                   THEN [processes[i] EXCEPT !.frame = processes[i].pid]
                   ELSE processes[i]]
<1>1. /\ processes \in [Slots(process_count) -> Proc]
      /\ DOMAIN processes = Slots(process_count)
  BY DEF IInv, Good, TableOK
<1>2. ASSUME NEW p \in Proc, NEW q, q = [p EXCEPT !.frame = p.pid]
      PROVE  q \in Proc /\ Alike(p, q)
  BY <1>2 DEF Proc, Alike
<1>3. \A p : Alike(p, p)
  BY DEF Alike
<1>4. /\ Q = [i \in Slots(process_count) |-> Q[i]]
      /\ \A i \in Slots(process_count) :
           Q[i] \in Proc /\ Alike(processes[i], Q[i])
  BY <1>1, <1>2, <1>3
<1>5. /\ processes' = Q /\ init_pc' = "publish"
      /\ UNCHANGED <<process_count, current, next_pid, foreground_pgid, cpu,
                     tss, halted>>
  BY DEF BuildFrame
<1> HIDE DEF Q
<1> QED
  BY <1>4, <1>5, Starting

(* start_user_process publishes the task. *)
LEMMA StepPublish == ASSUME IInv, Publish PROVE IInv'
<1> DEFINE Q == [i \in DOMAIN processes |->
                   IF Unstarted(processes[i])
                   THEN [processes[i] EXCEPT !.started = TRUE]
                   ELSE processes[i]]
<1>1. /\ processes \in [Slots(process_count) -> Proc]
      /\ DOMAIN processes = Slots(process_count)
  BY DEF IInv, Good, TableOK
<1>2. ASSUME NEW p \in Proc, NEW q, q = [p EXCEPT !.started = TRUE]
      PROVE  q \in Proc /\ Alike(p, q)
  BY <1>2 DEF Proc, Alike
<1>3. \A p : Alike(p, p)
  BY DEF Alike
<1>4. /\ Q = [i \in Slots(process_count) |-> Q[i]]
      /\ \A i \in Slots(process_count) :
           Q[i] \in Proc /\ Alike(processes[i], Q[i])
  BY <1>1, <1>2, <1>3
<1>5. /\ processes' = Q /\ init_pc' = "spin"
      /\ UNCHANGED <<process_count, current, next_pid, foreground_pgid, cpu,
                     tss, halted>>
  BY DEF Publish
<1> HIDE DEF Q
<1> QED
  BY <1>4, <1>5, Starting

(***************************************************************************)
(* The theorems                                                            *)
(***************************************************************************)

(* kernel_main leaves a table of two slots that is well formed. *)
LEMMA InitOK == Init => IInv
<1> SUFFICES ASSUME Init PROVE IInv
  OBVIOUS
<1>1. 0 \in 0..MaxPid /\ 1 \in 0..MaxPid /\ 0 \in 0..MaxSleep
      /\ 0 \in (-MaxPid)..MaxPid /\ 0 \in 0..MAX_PROCESSES
      /\ 2 \in 2..MAX_PROCESSES /\ 2 \in 2..(MaxPid + 1)
  BY ProcessAssumption
<1>2. [s \in Signals |-> SIG_DFL] \in [Signals -> 0..2]
  BY DEF SIG_DFL
<1>3. ASSUME NEW pid \in {0, 1}
      PROVE  /\ ZeroProc(pid) \in Proc /\ ZeroProc(pid).pid = pid
             /\ ZeroProc(pid).parent_pid = 0 /\ ZeroProc(pid).where = "task"
             /\ ZeroProc(pid).state = "RUNNING"
             /\ ZeroProc(pid).sleep_ticks = 0
             /\ ZeroProc(pid).kernel_stack = FALSE
  BY <1>1, <1>2 DEF ZeroProc, Proc, Contexts, Places
<1> DEFINE a == [[ZeroProc(0) EXCEPT !.started = TRUE] EXCEPT !.where = "boot"]
<1>4. a \in Proc /\ a.pid = 0 /\ a.parent_pid = 0 /\ a.where = "boot"
  BY <1>3 DEF Proc, Places
<1>5. processes = [i \in 0..1 |-> IF i = 0 THEN a ELSE ZeroProc(1)]
  BY <1>3 DEF Init, Proc
<1>6. /\ process_count = 2 /\ Slots(process_count) = 0..1
      /\ processes[0] = a /\ processes[1] = ZeroProc(1)
      /\ current = 0 /\ cpu = 0 /\ tss = 0 /\ halted = FALSE
      /\ next_pid = 2 /\ foreground_pgid = 0 /\ init_pc = "create"
  BY <1>5 DEF Init, Slots
<1> HIDE DEF a
<1>7. SlotOK(a, 0, 2) /\ SlotOK(ZeroProc(1), 1, 2)
  <2>1. SlotOK(a, 0, 2)
    BY <1>4 DEF SlotOK
  <2> DEFINE b == ZeroProc(1)
  <2>2. /\ b \in Proc /\ b.pid = 1 /\ b.parent_pid = 0 /\ b.where = "task"
        /\ b.state = "RUNNING" /\ b.sleep_ticks = 0
        /\ b.kernel_stack = FALSE
    BY <1>3
  <2> HIDE DEF b
  <2>3. SlotOK(b, 1, 2)
    BY <2>2 DEF SlotOK
  <2> QED
    BY <2>1, <2>3 DEF b
<1>8. TableOK(processes, 2, 2)
  <2>1. processes \in [0..1 -> Proc]
    BY <1>3, <1>4, <1>5
  <2>2. \A i \in 0..1 : i = 0 \/ i = 1
    OBVIOUS
  <2>3. \A i, j \in 0..1 : i < j => i = 0 /\ j = 1
    OBVIOUS
  <2>4. processes[0].pid < processes[1].pid
    BY <1>3, <1>4, <1>6
  <2> QED
    BY <1>1, <1>6, <1>7, <2>1, <2>2, <2>3, <2>4 DEF TableOK
<1>9. Good(processes, process_count, current, cpu, tss, halted, next_pid)
  <2>1. TableOK(processes, process_count, next_pid)
    BY <1>6, <1>8
  <2>2. current \in Slots(process_count) /\ processes[current].pid = cpu
    BY <1>4, <1>6
  <2> QED
    BY <1>1, <1>6, <2>1, <2>2 DEF Good
<1> QED
  BY <1>1, <1>6, <1>9 DEF IInv

(* Every step of the timer, the kernel task and the user processes keeps   *)
(* the inductive invariant.                                                *)
LEMMA NextOK == IInv /\ [Next]_vars => IInv'
<1> SUFFICES ASSUME IInv, [Next]_vars PROVE IInv'
  OBVIOUS
<1>1. CASE UNCHANGED vars
  BY <1>1 DEF vars, IInv, Good
<1>2. CASE Tick \/ CreateUser \/ CreateUserFails \/ BuildFrame \/ Publish
  BY <1>2, StepTick, StepCreateUser, StepCreateUserFails, StepBuildFrame,
     StepPublish
<1>3. CASE UserStep
  BY <1>3, UserStepOK
<1>4. CASE Next
  BY <1>2, <1>3, <1>4 DEF Next, UserStep
<1> QED
  BY <1>1, <1>4

(* In every reachable state the table is well formed and ordered by pid,   *)
(* its two kernel slots are where boot put them, and the loaded context is *)
(* the one current names.                                                  *)
THEOREM Invariance == Spec => []IInv
BY InitOK, NextOK, PTL DEF Spec

(* Every field of the table, the counters and the hardware registers stay  *)
(* in range: no fork grows the table past MAX_PROCESSES and no reap shrinks *)
(* it below the two kernel slots or leaves current outside it.             *)
THEOREM TypeCorrect == Spec => []TypeOK
<1>1. IInv => TypeOK
  <2> SUFFICES ASSUME IInv PROVE TypeOK
    OBVIOUS
  <2>1. /\ TableOK(processes, process_count, next_pid)
        /\ current \in Slots(process_count) /\ processes[current].pid = cpu
    BY DEF IInv, Good
  <2>2. processes \in [Slots(process_count) -> Proc]
        /\ process_count \in 2..MAX_PROCESSES
    BY <2>1 DEF TableOK
  <2>3. cpu \in 0..MaxPid
    BY <2>1, <2>2 DEF Proc
  <2> QED
    BY <2>1, <2>2, <2>3 DEF IInv, Good, TypeOK
<1> QED
  BY <1>1, Invariance, PTL

(* current names the process whose context is loaded, through every switch *)
(* of irq0_stub and syscall_stub, reap_child and process_exit.             *)
THEOREM CurrentLoaded == Spec => []CurrentIsLoaded
<1>1. IInv => CurrentIsLoaded
  BY DEF IInv, Good, CurrentIsLoaded
<1> QED
  BY <1>1, Invariance, PTL

(* The table is ordered by pid, alloc_pid never hands out a pid that is in *)
(* the table, and a parent is older than its child.                        *)
THEOREM PidsAreNames == Spec => []PidsNameProcesses
<1>1. IInv => PidsNameProcesses
  BY DEF IInv, Good, TableOK, SlotOK, PidsNameProcesses
<1> QED
  BY <1>1, Invariance, PTL

(* Slot 1 is the kernel task and process_tick can always pick it.          *)
THEOREM IdleRunnable == Spec => []IdleAlwaysRunnable
<1>1. IInv => IdleAlwaysRunnable
  <2> SUFFICES ASSUME IInv PROVE IdleAlwaysRunnable
    OBVIOUS
  <2>1. SlotOK(processes[1], 1, next_pid)
    BY DEF IInv, Good, TableOK, Slots
  <2> QED
    BY <2>1 DEF SlotOK, IdleAlwaysRunnable, Runnable
<1> QED
  BY <1>1, Invariance, PTL

(***************************************************************************)
(* Kernel stacks, sleeps and the hand-over of the CPU                      *)
(***************************************************************************)

(* The shell has been there and is no more: it exited without a parent,    *)
(* and the jump out of its exit left TSS.esp0 alone.                       *)
Gone(P, n, np) == np > 2 /\ \A i \in Slots(n) : P[i].pid # 2

(* Only the shell may lack a frame or a parent. *)
FrameOK(p) ==
  /\ p.pid < 2 => p.frame = p.pid
  /\ p.pid >= 2 => p.kernel_stack = TRUE
  /\ p.pid > 2 => p.parent_pid > 0
  /\ p.pid # 2 \/ p.started = TRUE => p.frame # NoFrame

Frames(P, n) == \A i \in Slots(n) : FrameOK(P[i])

OwnFrames(P, n) ==
  \A i \in Slots(n) : P[i].started = TRUE => P[i].frame = P[i].pid

(* Inside a call, and between steps. *)
Stacks(P, n, np, c, t) ==
  Frames(P, n) /\ (Gone(P, n, np) \/ (OwnFrames(P, n) /\ t = c))

Awake(p) ==
  p.where = "user" /\ p.sleep_ticks > 0
    => p.user = "handler" \/ p.state = "ZOMBIE"

Kernel(P, n, np, cur, c, t) ==
  /\ Frames(P, n)
  /\ \/ Gone(P, n, np)
     \/ OwnFrames(P, n) /\ (cur >= 2 => t = c) /\ Awake(P[cur])

(* The process that gets the CPU can run. *)
Fit(p) == p.state = "RUNNING" /\ p.sleep_ticks = 0 /\ p.frame # NoFrame

HandedOver ==
  cpu' # cpu =>
    \/ ~\E i \in Slots(process_count') : processes'[i].pid = cpu
    \/ LET p == processes'[current']
       IN  /\ p.state = "RUNNING"
           /\ p.sleep_ticks = 0
           /\ p.frame # NoFrame

SameStack(p, q) ==
  /\ q.pid = p.pid /\ q.parent_pid = p.parent_pid
  /\ q.kernel_stack = p.kernel_stack /\ q.started = p.started
  /\ q.frame = p.frame

LEMMA SameStacks ==
  ASSUME NEW P, NEW Q, NEW n, NEW np,
         \A i \in Slots(n) : SameStack(P[i], Q[i])
  PROVE  /\ Frames(P, n) => Frames(Q, n)
         /\ Gone(P, n, np) => Gone(Q, n, np)
         /\ OwnFrames(P, n) => OwnFrames(Q, n)
<1>1. ASSUME NEW p, NEW q, SameStack(p, q), FrameOK(p) PROVE FrameOK(q)
  BY <1>1 DEF SameStack, FrameOK
<1>2. Frames(P, n) => Frames(Q, n)
  BY <1>1 DEF Frames
<1> QED
  BY <1>2 DEF Gone, OwnFrames, SameStack

(* Neither the tick nor the wake-up nor an exit touches a stack. *)
LEMMA TickedStacks ==
  ASSUME NEW P, NEW n, NEW np, TableOK(P, n, np)
  PROVE  \A i \in Slots(n) : SameStack(P[i], Ticked(P)[i])
<1>1. DOMAIN P = Slots(n) /\ \A i \in Slots(n) : P[i] \in Proc
  BY DEF TableOK
<1>2. ASSUME NEW p \in Proc, NEW x, NEW q, q = [p EXCEPT !.sleep_ticks = x]
      PROVE  SameStack(p, q)
  BY <1>2 DEF SameStack, Proc
<1> QED
  BY <1>1, <1>2 DEF Ticked

(* What the tick does to a slot. *)
Counted(p, q) ==
  /\ q.pid = p.pid /\ q.kernel_stack = p.kernel_stack
  /\ q.started = p.started /\ q.state = p.state
  /\ q.where = p.where /\ q.user = p.user
  /\ q.sleep_ticks = IF p.sleep_ticks > 0 THEN p.sleep_ticks - 1 ELSE 0

LEMMA TickedSlot ==
  ASSUME NEW P, NEW n, NEW np, TableOK(P, n, np), NEW i \in Slots(n)
  PROVE  Counted(P[i], Ticked(P)[i])
<1> DEFINE p == P[i]
           x == IF p.sleep_ticks > 0 THEN p.sleep_ticks - 1 ELSE 0
           q == [p EXCEPT !.sleep_ticks = x]
<1>1. DOMAIN P = Slots(n) /\ p \in Proc
  BY DEF TableOK
<1>2. Ticked(P)[i] = q
  BY <1>1 DEF Ticked
<1> HIDE DEF x, p
<1>3. /\ q.pid = p.pid /\ q.kernel_stack = p.kernel_stack
      /\ q.started = p.started /\ q.state = p.state
      /\ q.where = p.where /\ q.user = p.user
      /\ q.sleep_ticks = x
  BY <1>1 DEF Proc
<1> HIDE DEF q
<1>4. Counted(p, q)
  BY <1>3 DEF Counted, x
<1> QED
  BY <1>2, <1>4 DEF p

LEMMA ZombifiedStacks ==
  ASSUME NEW P, NEW n, NEW np, TableOK(P, n, np), NEW cur \in Slots(n)
  PROVE  /\ \A i \in Slots(n) : SameStack(P[i], Zombified(P, cur)[i])
         /\ Zombified(P, cur)[cur].state = "ZOMBIE"
<1>1. DOMAIN P = Slots(n) /\ \A i \in Slots(n) : P[i] \in Proc
  BY DEF TableOK
<1>2. ASSUME NEW p \in Proc, NEW q,
             \/ q = [p EXCEPT !.state = "ZOMBIE"]
             \/ q = [p EXCEPT !.sleep_ticks = 0]
             \/ q = p
      PROVE  SameStack(p, q)
  BY <1>2 DEF Proc, SameStack
<1> DEFINE Z == Zombified(P, cur)
<1>3. \A i \in Slots(n) :
        \/ Z[i] = [P[i] EXCEPT !.state = "ZOMBIE"]
        \/ Z[i] = [P[i] EXCEPT !.sleep_ticks = 0]
        \/ Z[i] = P[i]
  BY <1>1 DEF Zombified
<1>4. Z[cur] = [P[cur] EXCEPT !.state = "ZOMBIE"]
  BY <1>1 DEF Zombified
<1> HIDE DEF Z
<1>5. Z[cur].state = "ZOMBIE"
  BY <1>1, <1>4 DEF Proc
<1>6. \A i \in Slots(n) : SameStack(P[i], Z[i])
  BY <1>1, <1>2, <1>3
<1> QED
  BY <1>5, <1>6 DEF Z

(* Above the kernel's two slots every pid is at least 2. *)
LEMMA UserPids ==
  ASSUME NEW P, NEW n, NEW np, TableOK(P, n, np), NEW i \in Slots(n), i >= 2
  PROVE  P[i].pid >= 2 /\ P[i].pid \in Nat /\ P[i].pid < np /\ np > 2
<1>1. /\ 1 \in Slots(n) /\ SlotOK(P[1], 1, np) /\ P[i] \in Proc
      /\ P[1].pid < P[i].pid /\ SlotOK(P[i], i, np) /\ np \in Nat
  BY DEF TableOK, Slots
<1> QED
  BY <1>1, ProcessAssumption DEF SlotOK, Proc

(* The switch loads TSS.esp0 with the stack of the process it loads. *)
LEMMA SwitchToKernel ==
  ASSUME NEW P, NEW n, NEW np, TableOK(P, n, np), NEW next \in Slots(n),
         SwitchTo(P, n, next), Runnable(P[next]), Frames(P, n),
         Gone(P, n, np) \/ OwnFrames(P, n)
  PROVE  /\ Kernel(processes', process_count', np, current', cpu', tss')
         /\ Fit(processes'[current'])
<1> DEFINE Q == [P EXCEPT ![next].started = TRUE]
           p == P[next]
           q == [p EXCEPT !.started = TRUE]
<1>1. /\ processes' = Q /\ process_count' = n /\ current' = next
      /\ cpu' = p.pid
      /\ tss' = IF p.kernel_stack THEN p.pid ELSE tss
  BY DEF SwitchTo
<1>2. P \in [Slots(n) -> Proc] /\ p \in Proc
  BY DEF TableOK
<1>3. Q[next] = q /\ \A i \in Slots(n) : Q[i] = P[i] \/ i = next
  BY <1>2
<1>4. /\ q.pid = p.pid /\ q.parent_pid = p.parent_pid /\ q.started = TRUE
      /\ q.kernel_stack = p.kernel_stack /\ q.frame = p.frame
      /\ q.state = p.state /\ q.sleep_ticks = p.sleep_ticks
      /\ q.where = p.where /\ q.user = p.user
      /\ p.pid \in Nat
  BY <1>2, ProcessAssumption DEF Proc
<1>5. p.state = "RUNNING" /\ p.sleep_ticks = 0
      /\ (~p.kernel_stack \/ p.started)
  BY DEF Runnable
<1>6. FrameOK(p)
  BY DEF Frames
<1> HIDE DEF Q, q, p
<1>7. FrameOK(q) /\ q.frame # NoFrame
  <2>1. p.started \in BOOLEAN
    BY <1>2 DEF Proc
  <2>2. CASE p.pid >= 2
    BY <1>4, <1>5, <1>6, <2>1, <2>2 DEF FrameOK
  <2>3. CASE ~(p.pid >= 2)
    <3>1. p.pid < 2 /\ p.frame = p.pid
      BY <1>4, <1>6, <2>3 DEF FrameOK
    <3> QED
      BY <1>4, <3>1 DEF FrameOK, NoFrame
  <2> QED
    BY <2>2, <2>3
<1>8. Frames(Q, n)
  BY <1>3, <1>7 DEF Frames
<1>9. Gone(P, n, np) => Gone(Q, n, np)
  BY <1>3, <1>4 DEF Gone, p
<1>10. OwnFrames(P, n) => OwnFrames(Q, n)
  <2>1. SUFFICES ASSUME OwnFrames(P, n) PROVE q.frame = q.pid
    BY <1>3 DEF OwnFrames
  <2>2. p.started = TRUE => p.frame = p.pid
    BY <2>1 DEF OwnFrames, p
  <2>3. p.started \in BOOLEAN
    BY <1>2 DEF Proc
  <2>4. CASE p.pid >= 2
    BY <1>4, <1>5, <1>6, <2>2, <2>3, <2>4 DEF FrameOK
  <2>5. CASE ~(p.pid >= 2)
    BY <1>4, <1>6, <2>5 DEF FrameOK
  <2> QED
    BY <2>4, <2>5
<1>11. next >= 2 => tss' = cpu'
  <2> SUFFICES ASSUME next >= 2 PROVE tss' = cpu'
    OBVIOUS
  <2>1. p.pid >= 2
    BY UserPids DEF p
  <2> QED
    BY <1>1, <1>6, <2>1 DEF FrameOK
<1>12. Awake(q) /\ Fit(q)
  BY <1>4, <1>5, <1>7 DEF Awake, Fit
<1> QED
  BY <1>1, <1>3, <1>8, <1>9, <1>10, <1>11, <1>12 DEF Kernel

(* Only the shell leaves without a trace, and then it is gone. *)
LEMMA VanishKernel ==
  ASSUME NEW P, NEW n, NEW np, TableOK(P, n, np), NEW cur \in Slots(n),
         cur >= 2, Vanish(P, n, cur), Frames(P, n),
         ~(P[cur].parent_pid > 0)
  PROVE  /\ Kernel(processes', process_count', np, current', cpu', tss')
         /\ ~\E i \in Slots(process_count') : processes'[i].pid = P[cur].pid
<1> DEFINE Q  == Compact(P, n, cur)
           c0 == IF cur >= n - 1 THEN 0 ELSE cur
           c1 == IF c0 = 0 /\ n - 1 > 1 THEN 1 ELSE c0
           R  == [Q EXCEPT ![c1].started = TRUE]
<1>1. TableOK(Q, n - 1, np) /\ n \in Nat
  <2>1. n \in Nat
    BY DEF TableOK
  <2> QED
    BY <2>1, CompactOK
<1>2. c1 \in Slots(n - 1)
  BY DEF TableOK, Slots
<1>3. processes' = R /\ process_count' = n - 1
  BY DEF Vanish
<1>4. P[cur].pid = 2 /\ np > 2
  <2>1. P[cur].pid >= 2 /\ P[cur].pid \in Nat /\ np > 2
    BY UserPids
  <2>2. FrameOK(P[cur])
    BY DEF Frames
  <2> QED
    BY <2>1, <2>2 DEF FrameOK
<1>5. ASSUME NEW j \in Slots(n - 1)
      PROVE  FrameOK(Q[j]) /\ Q[j].pid # 2 /\ Q[j] \in Proc
  <2>1. /\ j \in Slots(n) /\ j + 1 \in Slots(n) /\ j \in Int /\ cur \in Int
    BY <1>1 DEF Slots
  <2>2. Q[j] = IF j < cur THEN P[j] ELSE P[j + 1]
    BY DEF Compact
  <2>3. \A a, b \in Slots(n) : a < b => P[a].pid < P[b].pid
    BY DEF TableOK
  <2>4. \A a \in Slots(n) : P[a] \in Proc
    BY DEF TableOK
  <2>5. \A a \in Slots(n) : P[a].pid \in Int
    BY <2>4, ProcessAssumption DEF Proc
  <2>6. CASE j < cur
    BY <1>4, <2>1, <2>2, <2>3, <2>4, <2>5, <2>6 DEF Frames
  <2>7. CASE ~(j < cur)
    BY <1>4, <2>1, <2>2, <2>3, <2>4, <2>5, <2>7 DEF Frames
  <2> QED
    BY <2>6, <2>7
<1>6. /\ Q \in [Slots(n - 1) -> Proc]
  BY <1>1 DEF TableOK
<1> HIDE DEF Q, c1
<1>7. ASSUME NEW j \in Slots(n - 1)
      PROVE  FrameOK(R[j]) /\ R[j].pid # 2
  <2>1. CASE j = c1
    <3>1. R[j] = [Q[j] EXCEPT !.started = TRUE]
      BY <1>6, <2>1
    <3>2. /\ R[j].pid = Q[j].pid /\ R[j].parent_pid = Q[j].parent_pid
          /\ R[j].kernel_stack = Q[j].kernel_stack /\ R[j].frame = Q[j].frame
      BY <1>5, <3>1 DEF Proc
    <3> QED
      BY <1>5, <3>2 DEF FrameOK
  <2>2. CASE j # c1
    BY <1>5, <1>6, <2>2
  <2> QED
    BY <2>1, <2>2
<1> HIDE DEF R
<1>8. Frames(R, n - 1) /\ Gone(R, n - 1, np)
  BY <1>4, <1>7 DEF Frames, Gone
<1> QED
  BY <1>3, <1>4, <1>7, <1>8 DEF Kernel

(* The kernel task can always be picked, so process_tick finds a process   *)
(* for a caller that cannot go on.                                         *)
LEMMA TickFinds ==
  ASSUME NEW P, NEW n, NEW np, TableOK(P, n, np), NEW cur \in Slots(n),
         cur >= 2, NEW next, ProcessTick(P, n, cur, next)
  PROVE  next # -1
<1> DEFINE dist(i) == IF i > cur THEN i - cur ELSE i - cur + n
           ready   == {i \in Slots(n) : Runnable(P[i])}
           first   == {i \in ready : \A j \in ready : dist(i) <= dist(j)}
           D       == {dist(i) : i \in ready}
<1>1. 1 \in ready
  <2>1. 1 \in Slots(n) /\ SlotOK(P[1], 1, np)
    BY DEF TableOK, Slots
  <2> QED
    BY <2>1 DEF SlotOK, Runnable
<1>2. /\ n \in Nat /\ cur \in Nat /\ n >= 2 /\ cur < n
      /\ \A i \in Slots(n) : i \in Nat /\ i < n
  BY DEF TableOK, Slots
<1>3. \A i \in Slots(n) : dist(i) \in Nat
  BY <1>2
<1>4. dist(1) < dist(cur)
  BY <1>2
<1>5. PICK d \in D : \A e \in D : d <= e
  <2>1. D \in SUBSET Nat /\ D # {}
    BY <1>1, <1>3
  <2> HIDE DEF D
  <2> QED
    BY <2>1, LeastMember
<1>6. PICK i \in ready : d = dist(i)
  BY <1>5
<1>7. \A j \in ready : dist(i) <= dist(j)
  BY <1>5, <1>6
<1>8. i # cur
  BY <1>1, <1>2, <1>3, <1>4, <1>7
<1>9. i \in first
  BY <1>6, <1>7
<1>10. next \in first
  <2>1. ~(first \subseteq {cur})
    BY <1>8, <1>9
  <2>2. IF first \subseteq {cur} THEN next = -1 ELSE next \in first
    BY DEF ProcessTick
  <2> HIDE DEF first
  <2> QED
    BY <2>1, <2>2
<1>11. next \in Slots(n)
  BY <1>10
<1> QED
  BY <1>2, <1>11

(* A caller that sleeps or is dead is always switched away from. *)
LEMMA NeedSwitchKernel ==
  ASSUME NEW P, NEW n, NEW np, TableOK(P, n, np), NEW cur \in Slots(n),
         cur >= 2, NeedSwitch(P, n, cur), Stacks(P, n, np, cpu, tss)
  PROVE  /\ Kernel(processes', process_count', np, current', cpu', tss')
         /\ Fit(processes'[current'])
<1> DEFINE T == Ticked(P)
<1>1. TableOK(T, n, np)
  BY TickedOK
<1>2. /\ Frames(P, n) => Frames(T, n)
      /\ Gone(P, n, np) => Gone(T, n, np)
      /\ OwnFrames(P, n) => OwnFrames(T, n)
  <2>1. \A i \in Slots(n) : SameStack(P[i], T[i])
    BY TickedStacks
  <2> HIDE DEF T
  <2> QED
    BY <2>1, SameStacks
<1>3. PICK next \in (-1)..(n - 1) :
        /\ ProcessTick(T, n, cur, next)
        /\ next # -1 => SwitchTo(T, n, next)
  BY DEF NeedSwitch
<1> HIDE DEF T
<1>4. next # -1
  BY <1>1, <1>3, TickFinds
<1>5. next \in Slots(n) /\ Runnable(T[next])
  BY <1>3, <1>4, ProcessTickRange
<1> QED
  BY <1>1, <1>2, <1>3, <1>4, <1>5, SwitchToKernel DEF Stacks

(* Back to the caller: the stack it trapped on stays in TSS.esp0. *)
LEMMA BackKernel ==
  ASSUME NEW P, NEW n, NEW np, NEW cur, Stacks(P, n, np, cpu, tss),
         Awake(P[cur]), processes' = P, process_count' = n, current' = cur,
         cpu' = cpu, tss' = tss
  PROVE  Kernel(processes', process_count', np, current', cpu', tss')
BY DEF Kernel, Stacks

LEMMA SleepCheckKernel ==
  ASSUME NEW P, NEW n, NEW np, TableOK(P, n, np), NEW cur \in Slots(n),
         cur >= 2, SleepCheck(P, n, cur), Stacks(P, n, np, cpu, tss)
  PROVE  /\ Kernel(processes', process_count', np, current', cpu', tss')
         /\ HandedOver
<1>1. CASE P[cur].state = "ZOMBIE" \/ P[cur].sleep_ticks > 0
  <2>1. NeedSwitch(P, n, cur)
    BY <1>1 DEF SleepCheck
  <2>2. /\ Kernel(processes', process_count', np, current', cpu', tss')
        /\ Fit(processes'[current'])
    BY <2>1, NeedSwitchKernel
  <2> QED
    BY <2>2 DEF Fit, HandedOver
<1>2. CASE ~(P[cur].state = "ZOMBIE" \/ P[cur].sleep_ticks > 0)
  <2>1. Resume(P, n, cur)
    BY <1>2 DEF SleepCheck
  <2>2. Awake(P[cur])
    BY <1>2 DEF Awake
  <2>3. /\ processes' = P /\ process_count' = n /\ current' = cur
        /\ cpu' = cpu /\ tss' = tss
    BY <2>1 DEF Resume
  <2> QED
    BY <2>2, <2>3, BackKernel DEF HandedOver
<1> QED
  BY <1>1, <1>2

(* A table in which only the caller's slot differs, not in its stack. *)
LEMMA UpdatedStacks ==
  ASSUME NEW P, NEW n, NEW np, NEW c, NEW t, Stacks(P, n, np, c, t),
         NEW cur \in Slots(n), P \in [Slots(n) -> Proc], NEW q,
         SameStack(P[cur], q)
  PROVE  Stacks([P EXCEPT ![cur] = q], n, np, c, t)
<1> DEFINE Q == [P EXCEPT ![cur] = q]
<1>1. Q[cur] = q /\ \A i \in Slots(n) : Q[i] = P[i] \/ i = cur
  OBVIOUS
<1>2. \A p : SameStack(p, p)
  BY DEF SameStack
<1> HIDE DEF Q
<1>3. \A i \in Slots(n) : SameStack(P[i], Q[i])
  BY <1>1, <1>2
<1>4. /\ Frames(P, n) => Frames(Q, n)
      /\ Gone(P, n, np) => Gone(Q, n, np)
      /\ OwnFrames(P, n) => OwnFrames(Q, n)
  BY <1>3, SameStacks
<1>5. Stacks(Q, n, np, c, t)
  BY <1>4 DEF Stacks
<1> QED
  BY <1>5 DEF Q

LEMMA DeliverKernel ==
  ASSUME NEW P, NEW n, NEW np, TableOK(P, n, np), NEW cur \in Slots(n),
         cur >= 2, P[cur].pid = cpu, P[cur].where = "user",
         NEW s \in Signals, Deliver(P, n, cur, s),
         Stacks(P, n, np, cpu, tss)
  PROVE  /\ Kernel(processes', process_count', np, current', cpu', tss')
         /\ HandedOver
<1> DEFINE p == P[cur]
           q == [p EXCEPT !.sig_pending = {t \in p.sig_pending : t > s}]
           Q == [P EXCEPT ![cur] = q]
           h == [[[q EXCEPT !.sig_saved = p.user] EXCEPT !.user = "handler"]
                   EXCEPT !.in_signal = TRUE]
<1>1. p \in Proc /\ P \in [Slots(n) -> Proc]
  BY DEF TableOK
<1>2. /\ q \in Proc /\ SameStack(p, q) /\ q.where = "user"
      /\ q.pid = p.pid /\ q.parent_pid = p.parent_pid
  BY <1>1 DEF Proc, SameStack
<1>3. SameStack(p, h) /\ h.user = "handler"
  BY <1>1, <1>2 DEF Proc, SameStack
<1>4. CASE p.sig_handler[s] = CATCH
  <2>1. /\ processes' = [P EXCEPT ![cur] = h]
        /\ process_count' = n /\ current' = cur /\ tss' = tss /\ cpu' = cpu
    <3>1. processes' = [Q EXCEPT ![cur].sig_saved = p.user,
                                 ![cur].user = "handler",
                                 ![cur].in_signal = TRUE]
      BY <1>4, Zenon DEF Deliver
    <3>2. processes' = [P EXCEPT ![cur] = h]
      <4> HIDE DEF q
      <4>1. Q[cur] = q /\ Q \in [Slots(n) -> Proc]
        BY <1>1, <1>2
      <4>2. Q = [P EXCEPT ![cur] = q]
        OBVIOUS
      <4> HIDE DEF Q
      <4>3. processes' = [Q EXCEPT ![cur] = h]
        BY <3>1, <4>1
      <4> HIDE DEF h
      <4> QED
        BY <1>1, <4>2, <4>3
    <3> HIDE DEF h, q
    <3> QED
      BY <1>4, <3>2, Zenon DEF Deliver
  <2> HIDE DEF h
  <2>2. Stacks(processes', n, np, cpu, tss) /\ processes'[cur] = h
    BY <1>1, <1>3, <2>1, UpdatedStacks
  <2>3. Awake(processes'[cur])
    BY <1>3, <2>2 DEF Awake
  <2> QED
    BY <2>1, <2>2, <2>3, BackKernel DEF HandedOver
<1>5. CASE p.sig_handler[s] # CATCH
  <2>1. IF p.parent_pid > 0 THEN Resume(Zombified(Q, cur), n, cur)
                            ELSE Vanish(Q, n, cur)
    BY <1>5 DEF Deliver
  <2> HIDE DEF q
  <2>2. TableOK(Q, n, np) /\ Q[cur] = q
    <3>1. q.where # "post"
      BY <1>2
    <3> QED
      BY <1>1, <1>2, <3>1, UpdateOK
  <2>3. Stacks(Q, n, np, cpu, tss)
    BY <1>1, <1>2, UpdatedStacks
  <2> HIDE DEF Q
  <2>4. CASE p.parent_pid > 0
    <3> DEFINE Z == Zombified(Q, cur)
    <3>1. /\ processes' = Z /\ process_count' = n /\ current' = cur
          /\ cpu' = cpu /\ tss' = tss
      BY <2>1, <2>4 DEF Resume
    <3>2. /\ \A i \in Slots(n) : SameStack(Q[i], Z[i])
          /\ Z[cur].state = "ZOMBIE"
      BY <2>2, ZombifiedStacks
    <3> HIDE DEF Z
    <3>3. Stacks(Z, n, np, cpu, tss) /\ Awake(Z[cur])
      BY <2>3, <3>2, SameStacks DEF Stacks, Awake
    <3> QED
      BY <3>1, <3>3, BackKernel DEF HandedOver
  <2>5. CASE ~(p.parent_pid > 0)
    <3>1. Vanish(Q, n, cur) /\ ~(Q[cur].parent_pid > 0)
          /\ Q[cur].pid = cpu /\ Frames(Q, n)
      BY <1>2, <2>1, <2>2, <2>3, <2>5 DEF Stacks
    <3>2. /\ Kernel(processes', process_count', np, current', cpu', tss')
          /\ ~\E i \in Slots(process_count') : processes'[i].pid = cpu
      BY <2>2, <3>1, VanishKernel
    <3> QED
      BY <3>2 DEF HandedOver
  <2> QED
    BY <2>4, <2>5
<1> QED
  BY <1>4, <1>5

(* The way out of every system call. *)
LEMMA ReturnPathKernel ==
  ASSUME NEW P, NEW n, NEW np, TableOK(P, n, np), NEW cur \in Slots(n),
         cur >= 2, P[cur].pid = cpu, ReturnPath(P, n, cur),
         Stacks(P, n, np, cpu, tss)
  PROVE  /\ Kernel(processes', process_count', np, current', cpu', tss')
         /\ HandedOver
<1> DEFINE p == P[cur]
           q == [p EXCEPT !.where = "user"]
           Q == [P EXCEPT ![cur] = q]
           e == [q EXCEPT !.sig_pending = {}]
           E == [Q EXCEPT ![cur] = e]
           hits == {s \in Q[cur].sig_pending : ~Dropped(Q[cur], s)}
<1>1. p \in Proc /\ P \in [Slots(n) -> Proc]
  BY DEF TableOK
<1>2. /\ q \in Proc /\ SameStack(p, q) /\ q.where = "user"
      /\ q.pid = p.pid /\ q.parent_pid = p.parent_pid
  BY <1>1 DEF Proc, Places, SameStack
<1>3. /\ e \in Proc /\ SameStack(q, e) /\ e.where = "user"
      /\ e.pid = q.pid /\ e.parent_pid = q.parent_pid
  BY <1>2 DEF Proc, SameStack
<1>4. Q[cur] = q /\ E = [Q EXCEPT ![cur].sig_pending = {}]
  BY <1>1
<1>5. IF Q[cur].in_signal THEN SleepCheck(Q, n, cur)
      ELSE IF hits = {} THEN SleepCheck(E, n, cur)
      ELSE \E s \in hits : Deliver(Q, n, cur, s)
  BY <1>4 DEF ReturnPath
<1>6. hits \subseteq Signals
  BY <1>2, <1>4 DEF Proc
<1> HIDE DEF q, e, hits
<1>7. TableOK(Q, n, np) /\ Stacks(Q, n, np, cpu, tss)
  <2>1. q.where # "post"
    BY <1>2
  <2> QED
    BY <1>1, <1>2, <2>1, UpdateOK, UpdatedStacks
<1> HIDE DEF Q
<1>8. TableOK(E, n, np) /\ Stacks(E, n, np, cpu, tss)
  <2>1. e.where # "post" /\ Q \in [Slots(n) -> Proc]
    BY <1>3, <1>7 DEF TableOK
  <2> QED
    BY <1>3, <1>4, <1>7, <2>1, UpdateOK, UpdatedStacks
<1> HIDE DEF E
<1>9. \/ SleepCheck(Q, n, cur)
      \/ SleepCheck(E, n, cur)
      \/ \E s \in Signals : Deliver(Q, n, cur, s)
  BY <1>5, <1>6
<1>10. Q[cur].pid = cpu /\ Q[cur].where = "user"
  BY <1>2, <1>4
<1>11. CASE SleepCheck(Q, n, cur)
  BY <1>7, <1>11, SleepCheckKernel
<1>12. CASE SleepCheck(E, n, cur)
  BY <1>8, <1>12, SleepCheckKernel
<1>13. CASE \E s \in Signals : Deliver(Q, n, cur, s)
  BY <1>7, <1>10, <1>13, DeliverKernel
<1> QED
  BY <1>9, <1>11, <1>12, <1>13

(* Until start_user_process has published the shell no user process runs,  *)
(* and what it publishes has its frame.                                    *)
Booting(P, n, cur, pc) ==
  /\ pc # "spin" =>
       /\ cur < 2
       /\ \A i \in Slots(n) :
            i >= 2 => P[i].started = FALSE /\ P[i].state = "RUNNING"
  /\ pc = "publish" => \A i \in Slots(n) : P[i].frame = P[i].pid

KInv ==
  /\ IInv
  /\ Kernel(processes, process_count, next_pid, current, cpu, tss)
  /\ Booting(processes, process_count, current, init_pc)

(* The slots a trap leaves are sound; so is what a fork adds. *)
LEMMA FromStack ==
  ASSUME KInv, Me.where \notin {"boot", "task"},
         NEW k \in Slots(process_count), NEW q, From(processes[k], q)
  PROVE  /\ FrameOK(q)
         /\ q.pid = processes[k].pid
         /\ OwnFrames(processes, process_count) /\ tss = cpu
              => (q.started = TRUE => q.frame = q.pid)
<1> DEFINE p == processes[k]
<1>1. IInv /\ Frames(processes, process_count)
  BY DEF KInv, Kernel
<1>2. /\ TableOK(processes, process_count, next_pid) /\ tss \in 0..MaxPid
      /\ current \in Slots(process_count) /\ current >= 2
      /\ processes[current].pid = cpu
  BY <1>1, Trapping
<1>3. cpu >= 2
  BY <1>2, UserPids
<1>4. FrameOK(p) /\ p.pid \in Nat
  <2>1. p \in Proc
    BY <1>2 DEF TableOK
  <2> QED
    BY <1>1, <2>1, ProcessAssumption DEF Frames, Proc
<1>5. OwnFrames(processes, process_count)
        => (p.started = TRUE => p.frame = p.pid)
  BY DEF OwnFrames
<1>6. tss # NoFrame
  BY <1>2, ProcessAssumption DEF NoFrame
<1> HIDE DEF p
<1>7. From(p, q)
  BY DEF p
<1>8. FrameOK(q) /\ q.pid = p.pid
  BY <1>3, <1>4, <1>6, <1>7 DEF From, FrameOK
<1>9. ASSUME OwnFrames(processes, process_count), tss = cpu,
             q.started = TRUE
      PROVE  q.frame = q.pid
  BY <1>5, <1>7, <1>9 DEF From
<1> QED
  BY <1>8, <1>9 DEF p

LEMMA PassedStacks ==
  ASSUME KInv, NEW P, NEW n, Passed(P, n)
  PROVE  Stacks(P, n, next_pid', cpu, tss)
<1>1. /\ IInv /\ Me.where \notin {"boot", "task"}
      /\ TableOK(P, n, next_pid') /\ current \in Slots(n) /\ current >= 2
      /\ P[current].pid = cpu
  BY DEF KInv, Passed
<1>2. /\ current \in Slots(process_count) /\ tss \in 0..MaxPid
      /\ Me.pid = cpu /\ next_pid > 2 /\ cpu >= 2 /\ cpu \in Nat
  BY <1>1, Trapping, UserPids
<1>3. next_pid' > 2
  BY <1>1, UserPids
<1>4. \/ Gone(processes, process_count, next_pid)
      \/ OwnFrames(processes, process_count) /\ tss = cpu
  BY <1>1, Trapping DEF KInv, Kernel
<1>5. ASSUME NEW i \in Slots(n)
      PROVE  /\ FrameOK(P[i])
             /\ Gone(processes, process_count, next_pid) => P[i].pid # 2
             /\ OwnFrames(processes, process_count) /\ tss = cpu
                  => (P[i].started = TRUE => P[i].frame = P[i].pid)
  <2>1. CASE \E k \in Slots(process_count) : From(processes[k], P[i])
    BY <1>1, <2>1, FromStack DEF Gone
  <2>2. CASE P[i] = ForkedChild /\ next_pid <= MaxPid
    <3> DEFINE q == P[i]
    <3>1. /\ q.pid = next_pid /\ q.parent_pid = cpu
          /\ q.kernel_stack = TRUE /\ q.started = TRUE
          /\ q.frame = IF tss = cpu THEN next_pid ELSE Wild
      BY <1>1, <1>2, <2>2, ForkedChildOK
    <3>2. next_pid \in Nat /\ Wild # NoFrame /\ next_pid # NoFrame
      BY <1>1 DEF IInv, Wild, NoFrame
    <3> HIDE DEF q
    <3>3. /\ FrameOK(q) /\ q.pid # 2
          /\ tss = cpu => q.frame = q.pid
      BY <1>2, <3>1, <3>2 DEF FrameOK
    <3> QED
      BY <3>3 DEF q
  <2>3. Origin(P[i])
    BY DEF Passed
  <2> QED
    BY <2>1, <2>2, <2>3 DEF Origin
<1>6. Frames(P, n)
  BY <1>5 DEF Frames
<1>7. CASE Gone(processes, process_count, next_pid)
  BY <1>3, <1>5, <1>6, <1>7 DEF Stacks, Gone
<1>8. CASE OwnFrames(processes, process_count) /\ tss = cpu
  BY <1>5, <1>6, <1>8 DEF Stacks, OwnFrames
<1> QED
  BY <1>4, <1>7, <1>8

(* A user process runs only after the boot is over. *)
LEMMA Booted ==
  ASSUME KInv, Me.where \notin {"boot", "task"}, init_pc' = init_pc
  PROVE  Booting(processes', process_count', current', init_pc')
<1>1. current >= 2 /\ current \in Slots(process_count)
  BY Trapping DEF KInv
<1>2. init_pc = "spin"
  BY <1>1 DEF KInv, Booting, Slots
<1> QED
  BY <1>2 DEF Booting

(* The three shapes of a user process's step. *)
LEMMA UserStepKernel ==
  ASSUME KInv, UserStep PROVE KInv' /\ HandedOver
<1>1. IInv /\ IInv'
  BY UserStepOK DEF KInv
<1>2. Returns \/ Stays \/ Vanishes
  BY <1>1, UserStepShape
<1>3. CASE Returns
  <2>1. PICK P, n : Passed(P, n) /\ ReturnPath(P, n, current) /\ Counters
    BY <1>3 DEF Returns
  <2>2. Stacks(P, n, next_pid', cpu, tss)
    BY <2>1, PassedStacks
  <2>3. /\ Kernel(processes', process_count', next_pid', current', cpu', tss')
        /\ HandedOver
    <3>1. /\ TableOK(P, n, next_pid') /\ current \in Slots(n)
          /\ current >= 2 /\ P[current].pid = cpu
      BY <2>1 DEF Passed
    <3> QED
      BY <2>1, <2>2, <3>1, ReturnPathKernel
  <2>4. Booting(processes', process_count', current', init_pc')
    BY <2>1, Booted DEF Passed, Counters
  <2> QED
    BY <1>1, <2>3, <2>4 DEF KInv
<1>4. CASE Stays
  <2>1. PICK P : /\ Passed(P, process_count) /\ P[current].where # "user"
                 /\ Inside(P) /\ Counters
    BY <1>4 DEF Stays
  <2>2. Stacks(P, process_count, next_pid', cpu, tss)
    BY <2>1, PassedStacks
  <2>3. /\ processes' = P /\ process_count' = process_count
        /\ current' = current /\ cpu' = cpu /\ tss' = tss
    BY <2>1 DEF Inside
  <2>4. Awake(P[current])
    BY <2>1 DEF Awake
  <2>5. Kernel(processes', process_count', next_pid', current', cpu', tss')
    BY <2>2, <2>3, <2>4, BackKernel
  <2>6. Booting(processes', process_count', current', init_pc')
    BY <2>1, Booted DEF Passed, Counters
  <2> QED
    BY <1>1, <2>3, <2>5, <2>6 DEF KInv, HandedOver
<1>5. CASE Vanishes
  <2>1. /\ Me.where = "user" /\ ~(Me.parent_pid > 0)
        /\ Vanish(Trap, process_count, current) /\ next_pid' = next_pid
        /\ Counters
    BY <1>5 DEF Vanishes
  <2>2. Passed(Trap, process_count)
    BY <1>1, <2>1, TrapPassed
  <2>3. Frames(Trap, process_count)
    BY <2>2, PassedStacks DEF Stacks
  <2>4. /\ TableOK(Trap, process_count, next_pid)
        /\ current \in Slots(process_count) /\ current >= 2
        /\ Trap[current].pid = cpu /\ ~(Trap[current].parent_pid > 0)
    BY <1>1, <2>1, Trapping
  <2>5. /\ Kernel(processes', process_count', next_pid, current', cpu', tss')
        /\ ~\E i \in Slots(process_count') : processes'[i].pid = cpu
    BY <2>1, <2>3, <2>4, VanishKernel
  <2>6. Booting(processes', process_count', current', init_pc')
    BY <2>1, Booted DEF Counters
  <2> QED
    BY <1>1, <2>1, <2>5, <2>6 DEF KInv, HandedOver
<1> QED
  BY <1>2, <1>3, <1>4, <1>5

(* irq0_stub. *)
LEMMA TickKernel == ASSUME KInv, Tick PROVE KInv' /\ HandedOver
<1>1. IInv /\ IInv'
  BY StepTick DEF KInv
<1>2. /\ TableOK(processes, process_count, next_pid)
      /\ current \in Slots(process_count)
  BY <1>1 DEF IInv, Good
<1>3. /\ TableOK(Trap, process_count, next_pid)
      /\ \A i \in Slots(process_count) : Alike(processes[i], Trap[i])
      /\ \A i \in Slots(process_count) : From(processes[i], Trap[i])
      /\ current < 2 => Trap = processes
  BY <1>1, TimerTrap
<1>4. /\ Frames(Trap, process_count)
      /\ \/ Gone(Trap, process_count, next_pid)
         \/ OwnFrames(Trap, process_count)
  <2>1. CASE Me.where = "user"
    <3>1. Passed(Trap, process_count) /\ next_pid' = next_pid
      BY <1>1, <2>1, TrapPassed DEF Tick, Kept
    <3> QED
      BY <3>1, PassedStacks DEF Stacks
  <2>2. CASE Me.where # "user"
    BY <2>2, NoTrap DEF KInv, Kernel
  <2> QED
    BY <2>1, <2>2
<1>5. PICK next \in (-1)..(process_count - 1) :
        /\ ProcessTick(Ticked(processes), process_count, current, next)
        /\ IF next = -1
           THEN /\ processes' = Ticked(processes)
                /\ UNCHANGED <<process_count, current, cpu, tss, halted>>
           ELSE SwitchTo(Ticked(Trap), process_count, next)
  BY DEF Tick
<1>6. next_pid' = next_pid /\ init_pc' = init_pc
  BY DEF Tick, Kept
<1> DEFINE n == process_count
           T == Ticked(processes)
           U == Ticked(Trap)
<1>7. /\ \A i \in Slots(n) : SameStack(processes[i], T[i])
      /\ \A i \in Slots(n) : SameStack(Trap[i], U[i])
  BY <1>2, <1>3, TickedStacks
<1>8. \A i \in Slots(n) :
        /\ T[i].state = processes[i].state /\ U[i].state = Trap[i].state
        /\ T[i].where = processes[i].where /\ T[i].user = processes[i].user
        /\ T[i].sleep_ticks > 0 => processes[i].sleep_ticks > 0
        /\ Runnable(T[i]) => Runnable(U[i])
  <2>1. ASSUME NEW i \in Slots(n)
        PROVE  Counted(processes[i], T[i]) /\ Counted(Trap[i], U[i])
    BY <1>2, <1>3, TickedSlot
  <2> HIDE DEF T, U
  <2>2. ASSUME NEW i \in Slots(n)
        PROVE  Alike(processes[i], Trap[i]) /\ From(processes[i], Trap[i])
    BY <1>3
  <2>3. ASSUME NEW i \in Slots(n), Runnable(T[i])
        PROVE  Runnable(U[i])
    <3>1. U[i].sleep_ticks = T[i].sleep_ticks
      BY <2>1, <2>2 DEF Counted, Alike
    <3>2. /\ U[i].pid = T[i].pid /\ U[i].kernel_stack = T[i].kernel_stack
          /\ U[i].started = T[i].started /\ U[i].state = T[i].state
      BY <2>1, <2>2 DEF Counted, Alike, From
    <3> QED
      BY <2>3, <3>1, <3>2 DEF Runnable
  <2> QED
    BY <2>1, <2>3 DEF Counted
<1>9. CASE next = -1
  <2>1. /\ processes' = T /\ process_count' = n /\ current' = current
        /\ cpu' = cpu /\ tss' = tss
    BY <1>5, <1>9
  <2> HIDE DEF T, U
  <2>2. /\ Frames(T, n)
        /\ Gone(processes, n, next_pid) => Gone(T, n, next_pid)
        /\ OwnFrames(processes, n) => OwnFrames(T, n)
    BY <1>7, SameStacks DEF KInv, Kernel
  <2>3. Awake(processes[current]) => Awake(T[current])
    BY <1>2, <1>8 DEF Awake
  <2>4. Kernel(processes', process_count', next_pid', current', cpu', tss')
    BY <1>6, <2>1, <2>2, <2>3 DEF KInv, Kernel
  <2>5. Booting(processes', process_count', current', init_pc')
    BY <1>6, <1>7, <1>8, <2>1 DEF KInv, Booting, SameStack
  <2> QED
    BY <1>1, <2>1, <2>4, <2>5 DEF KInv, HandedOver
<1>10. CASE next # -1
  <2>1. next \in Slots(n) /\ Runnable(T[next])
    BY <1>5, <1>10, ProcessTickRange
  <2>2. SwitchTo(U, n, next) /\ TableOK(U, n, next_pid)
    BY <1>3, <1>5, <1>10, TickedOK
  <2> HIDE DEF T, U
  <2>3. /\ Frames(U, n)
        /\ Gone(U, n, next_pid) \/ OwnFrames(U, n)
    BY <1>4, <1>7, SameStacks
  <2>4. Runnable(U[next])
    BY <1>8, <2>1
  <2>5. /\ Kernel(processes', process_count', next_pid, current', cpu', tss')
        /\ Fit(processes'[current'])
    BY <2>1, <2>2, <2>3, <2>4, SwitchToKernel
  <2>6. Booting(processes', process_count', current', init_pc')
    <3>1. CASE init_pc = "spin"
      BY <1>6, <3>1 DEF Booting
    <3>2. CASE init_pc # "spin"
      <4>1. /\ current < 2 /\ Trap = processes
            /\ \A i \in Slots(n) :
                 i >= 2 => /\ processes[i].started = FALSE
                           /\ processes[i].state = "RUNNING"
        BY <1>3, <3>2 DEF KInv, Booting
      <4>2. next < 2 /\ next \in Nat
        <5>1. SUFFICES ASSUME next >= 2 PROVE FALSE
          BY <2>1 DEF Slots
        <5>2. U[next].pid >= 2
          BY <2>1, <2>2, <5>1, UserPids
        <5>3. U[next].kernel_stack = TRUE
          BY <2>1, <2>3, <5>2 DEF Frames, FrameOK
        <5>4. U[next].started = FALSE
          BY <1>7, <2>1, <4>1, <5>1 DEF SameStack
        <5> QED
          BY <2>4, <5>3, <5>4 DEF Runnable
      <4>3. /\ processes' = [U EXCEPT ![next].started = TRUE]
            /\ process_count' = n /\ current' = next
        BY <2>2 DEF SwitchTo
      <4>4. /\ U \in [Slots(n) -> Proc] /\ U[next] \in Proc
            /\ \A i \in Slots(n) : i # next => processes'[i] = U[i]
            /\ processes'[next] = [U[next] EXCEPT !.started = TRUE]
        BY <2>1, <2>2, <4>3 DEF TableOK
      <4>5. /\ processes'[next].frame = U[next].frame
            /\ processes'[next].pid = U[next].pid
        BY <4>4 DEF Proc
      <4>6. \A i \in Slots(n) : processes'[i].frame = U[i].frame
                                /\ processes'[i].pid = U[i].pid
        BY <4>4, <4>5
      <4>7. \A i \in Slots(n) : i >= 2 => /\ processes'[i].started = FALSE
                                         /\ processes'[i].state = "RUNNING"
        BY <1>7, <1>8, <4>1, <4>2, <4>4 DEF SameStack
      <4>8. init_pc = "publish" =>
              \A i \in Slots(n) : U[i].frame = U[i].pid
        BY <1>7, <4>1 DEF KInv, Booting, SameStack
      <4> QED
        BY <1>6, <4>2, <4>3, <4>6, <4>7, <4>8 DEF Booting
    <3> QED
      BY <3>1, <3>2
  <2> QED
    BY <1>1, <1>6, <2>5, <2>6 DEF KInv, Fit, HandedOver
<1> QED
  BY <1>9, <1>10

(* The steps of the kernel task. *)
LEMMA BootKernel ==
  ASSUME KInv, CreateUser \/ CreateUserFails \/ BuildFrame \/ Publish
  PROVE  KInv' /\ HandedOver
<1> DEFINE n == process_count
<1>1. IInv /\ IInv'
  BY StepCreateUser, StepCreateUserFails, StepBuildFrame, StepPublish DEF KInv
<1>2. /\ TableOK(processes, n, next_pid) /\ current \in Slots(n)
      /\ processes \in [Slots(n) -> Proc] /\ DOMAIN processes = Slots(n)
  BY <1>1 DEF IInv, Good, TableOK
<1>3. /\ cpu' = cpu /\ tss' = tss /\ current' = current /\ HandedOver
  BY DEF CreateUser, CreateUserFails, BuildFrame, Publish, HandedOver
<1>4. /\ Frames(processes, n)
      /\ \/ Gone(processes, n, next_pid)
         \/ /\ OwnFrames(processes, n) /\ (current >= 2 => tss = cpu)
            /\ Awake(processes[current])
  BY DEF KInv, Kernel
<1>5. init_pc # "spin" /\ current < 2
  BY DEF KInv, Booting, CreateUser, CreateUserFails, BuildFrame, Publish,
     InTask
<1>6. CASE CreateUser
  <2> DEFINE Q == Extend(processes, n, Shell)
  <2>1. /\ init_pc = "create" /\ processes' = Q
        /\ process_count' = n + 1 /\ next_pid' = next_pid + 1
        /\ init_pc' = "frame"
    BY <1>6 DEF CreateUser, InTask
  <2>2. n = 2 /\ next_pid = 2
    BY <1>1, <2>1 DEF IInv
  <2>3. /\ Q[2] = Shell
        /\ \A i \in Slots(n) : Q[i] = processes[i]
        /\ \A i \in Slots(n + 1) : i \in Slots(n) \/ i = 2
        /\ \A i \in Slots(n) : ~(i >= 2)
    BY <2>2 DEF Extend, Slots
  <2>4. /\ Shell.pid = 2 /\ Shell.kernel_stack = TRUE
        /\ Shell.started = FALSE /\ Shell.state = "RUNNING"
    BY <2>2, ShellOK
  <2> HIDE DEF Q
  <2>5. FrameOK(Shell)
    BY <2>4 DEF FrameOK
  <2>6. Frames(Q, n + 1)
    BY <1>4, <2>3, <2>5 DEF Frames
  <2>7. ~Gone(processes, n, next_pid)
    BY <2>2 DEF Gone
  <2>8. OwnFrames(Q, n + 1)
    BY <1>4, <2>3, <2>4, <2>7 DEF OwnFrames
  <2>9. Awake(Q[current])
    BY <1>2, <1>4, <2>3, <2>7
  <2>10. Kernel(processes', process_count', next_pid', current', cpu', tss')
    BY <1>3, <1>4, <2>1, <2>6, <2>7, <2>8, <2>9 DEF Kernel
  <2>11. Booting(processes', process_count', current', init_pc')
    BY <1>3, <1>5, <2>1, <2>3, <2>4 DEF Booting
  <2> QED
    BY <1>1, <1>3, <2>10, <2>11 DEF KInv
<1>7. CASE CreateUserFails
  <2>1. /\ processes' = processes /\ process_count' = n
        /\ next_pid' = next_pid /\ init_pc' = "spin"
    BY <1>7 DEF CreateUserFails
  <2> QED
    BY <1>1, <1>3, <2>1 DEF KInv, Kernel, Booting
<1>8. CASE BuildFrame
  <2> DEFINE F(p) == [p EXCEPT !.frame = p.pid]
             Q == [i \in DOMAIN processes |->
                     IF Unstarted(processes[i]) THEN F(processes[i])
                     ELSE processes[i]]
  <2>1. /\ processes' = Q /\ process_count' = n /\ next_pid' = next_pid
        /\ init_pc = "frame" /\ init_pc' = "publish"
    BY <1>8 DEF BuildFrame, InTask
  <2>2. ASSUME NEW i \in Slots(n)
        PROVE  /\ Q[i].pid = processes[i].pid
               /\ Q[i].parent_pid = processes[i].parent_pid
               /\ Q[i].kernel_stack = processes[i].kernel_stack
               /\ Q[i].started = processes[i].started
               /\ Q[i].state = processes[i].state
               /\ Q[i].where = processes[i].where
               /\ Q[i].user = processes[i].user
               /\ Q[i].sleep_ticks = processes[i].sleep_ticks
               /\ Q[i].frame = processes[i].frame
                  \/ Q[i].frame = processes[i].pid
               /\ Unstarted(processes[i]) => Q[i].frame = processes[i].pid
    <3>1. processes[i] \in Proc
      BY <1>2
    <3>2. Q[i] = IF Unstarted(processes[i]) THEN F(processes[i])
                 ELSE processes[i]
      BY <1>2
    <3> QED
      BY <3>1, <3>2 DEF Proc
  <2> HIDE DEF Q, F
  <2>3. ASSUME NEW i \in Slots(n) PROVE FrameOK(Q[i])
    <3>1. FrameOK(processes[i]) /\ processes[i].pid \in Nat
      <4>1. processes[i] \in Proc
        BY <1>2
      <4> QED
        BY <1>4, <4>1, ProcessAssumption DEF Frames, Proc
    <3>2. processes[i].pid # NoFrame
      BY <3>1 DEF NoFrame
    <3> QED
      BY <2>2, <3>1, <3>2 DEF FrameOK
  <2>4. OwnFrames(processes, n) => OwnFrames(Q, n)
    BY <2>2 DEF OwnFrames
  <2>5. Gone(processes, n, next_pid) => Gone(Q, n, next_pid)
    BY <2>2 DEF Gone
  <2>6. Awake(processes[current]) => Awake(Q[current])
    BY <1>2, <2>2 DEF Awake
  <2>7. Kernel(processes', process_count', next_pid', current', cpu', tss')
    BY <1>3, <1>4, <2>1, <2>3, <2>4, <2>5, <2>6 DEF Kernel, Frames
  <2>8. ASSUME NEW i \in Slots(n) PROVE Q[i].frame = Q[i].pid
    <3>1. CASE i >= 2
      <4>1. /\ processes[i].started = FALSE /\ processes[i].state = "RUNNING"
        BY <1>5, <3>1 DEF KInv, Booting
      <4>2. processes[i].kernel_stack = TRUE
        <5>1. processes[i].pid >= 2
          BY <1>2, <3>1, UserPids
        <5> QED
          BY <1>4, <5>1 DEF Frames, FrameOK
      <4> QED
        BY <2>2, <4>1, <4>2 DEF Unstarted
    <3>2. CASE ~(i >= 2)
      <4>1. i = 0 \/ i = 1
        BY <3>2 DEF Slots
      <4>2. processes[i].pid < 2
        BY <1>2, <4>1 DEF TableOK, SlotOK
      <4>3. processes[i].frame = processes[i].pid
        BY <1>4, <4>2 DEF Frames, FrameOK
      <4> QED
        BY <2>2, <4>3
    <3> QED
      BY <3>1, <3>2
  <2>9. \A i \in Slots(n) : i >= 2 => Q[i].started = FALSE
                                     /\ Q[i].state = "RUNNING"
    BY <1>5, <2>2 DEF KInv, Booting
  <2>10. Booting(processes', process_count', current', init_pc')
    BY <1>3, <1>5, <2>1, <2>8, <2>9 DEF Booting
  <2> QED
    BY <1>1, <1>3, <2>7, <2>10 DEF KInv
<1>9. CASE Publish
  <2> DEFINE S(p) == [p EXCEPT !.started = TRUE]
             Q == [i \in DOMAIN processes |->
                     IF Unstarted(processes[i]) THEN S(processes[i])
                     ELSE processes[i]]
  <2>1. /\ processes' = Q /\ process_count' = n /\ next_pid' = next_pid
        /\ init_pc = "publish" /\ init_pc' = "spin"
    BY <1>9 DEF Publish, InTask
  <2>2. ASSUME NEW i \in Slots(n)
        PROVE  /\ Q[i].pid = processes[i].pid
               /\ Q[i].parent_pid = processes[i].parent_pid
               /\ Q[i].kernel_stack = processes[i].kernel_stack
               /\ Q[i].where = processes[i].where
               /\ Q[i].user = processes[i].user
               /\ Q[i].state = processes[i].state
               /\ Q[i].sleep_ticks = processes[i].sleep_ticks
               /\ Q[i].frame = processes[i].frame
    <3>1. processes[i] \in Proc
      BY <1>2
    <3>2. Q[i] = IF Unstarted(processes[i]) THEN S(processes[i])
                 ELSE processes[i]
      BY <1>2
    <3> QED
      BY <3>1, <3>2 DEF Proc
  <2> HIDE DEF Q, S
  <2>3. \A i \in Slots(n) : Q[i].frame = Q[i].pid
    BY <2>1, <2>2 DEF KInv, Booting
  <2>4. ASSUME NEW i \in Slots(n) PROVE FrameOK(Q[i])
    <3>1. FrameOK(processes[i]) /\ processes[i].pid \in Nat
      <4>1. processes[i] \in Proc
        BY <1>2
      <4> QED
        BY <1>4, <4>1, ProcessAssumption DEF Frames, Proc
    <3>2. Q[i].frame = Q[i].pid /\ Q[i].pid # NoFrame
      BY <2>2, <2>3, <3>1 DEF NoFrame
    <3> QED
      BY <2>2, <3>1, <3>2 DEF FrameOK
  <2>5. OwnFrames(Q, n)
    BY <2>3 DEF OwnFrames
  <2>6. Gone(processes, n, next_pid) => Gone(Q, n, next_pid)
    BY <2>2 DEF Gone
  <2>7. Awake(processes[current]) => Awake(Q[current])
    BY <1>2, <2>2 DEF Awake
  <2>8. Kernel(processes', process_count', next_pid', current', cpu', tss')
    BY <1>3, <1>4, <2>1, <2>4, <2>5, <2>6, <2>7 DEF Kernel, Frames
  <2>9. Booting(processes', process_count', current', init_pc')
    BY <2>1 DEF Booting
  <2> QED
    BY <1>1, <1>3, <2>8, <2>9 DEF KInv
<1> QED
  BY <1>6, <1>7, <1>8, <1>9

LEMMA InitKernel == Init => KInv
<1> SUFFICES ASSUME Init PROVE KInv
  OBVIOUS
<1>1. IInv
  BY InitOK
<1>2. /\ process_count = 2 /\ current = 0 /\ next_pid = 2
      /\ init_pc = "create"
  BY DEF Init
<1> DEFINE a == [[ZeroProc(0) EXCEPT !.started = TRUE] EXCEPT !.where = "boot"]
<1>3. processes = [i \in 0..1 |-> IF i = 0 THEN a ELSE ZeroProc(1)]
  BY DEF Init, ZeroProc
<1>4. /\ a.pid = 0 /\ a.frame = 0 /\ a.started = TRUE /\ a.where = "boot"
  BY DEF ZeroProc
<1>5. ZeroProc(1).pid = 1 /\ ZeroProc(1).frame = 1
  BY DEF ZeroProc
<1> HIDE DEF a
<1>6. processes[0] = a /\ processes[1] = ZeroProc(1)
      /\ \A i \in Slots(2) : i = 0 \/ i = 1
  BY <1>3 DEF Slots
<1>7. FrameOK(a) /\ FrameOK(ZeroProc(1))
  BY <1>4, <1>5 DEF FrameOK, NoFrame
<1>8. Frames(processes, 2) /\ OwnFrames(processes, 2) /\ Awake(a)
  BY <1>4, <1>5, <1>6, <1>7 DEF Frames, OwnFrames, Awake
<1>9. Kernel(processes, process_count, next_pid, current, cpu, tss)
  BY <1>2, <1>6, <1>8 DEF Kernel
<1>10. Booting(processes, process_count, current, init_pc)
  BY <1>2, <1>6 DEF Booting
<1> QED
  BY <1>1, <1>9, <1>10 DEF KInv

LEMMA NextKernel == KInv /\ [Next]_vars => KInv' /\ [HandedOver]_vars
<1> SUFFICES ASSUME KInv, [Next]_vars PROVE KInv' /\ [HandedOver]_vars
  OBVIOUS
<1>1. CASE UNCHANGED vars
  <2>1. IInv'
    BY <1>1, NextOK DEF KInv
  <2> QED
    BY <1>1, <2>1 DEF vars, KInv, Kernel, Booting
<1>2. CASE Tick
  BY <1>2, TickKernel
<1>3. CASE CreateUser \/ CreateUserFails \/ BuildFrame \/ Publish
  BY <1>3, BootKernel
<1>4. CASE UserStep
  BY <1>4, UserStepKernel
<1> QED
  BY <1>1, <1>2, <1>3, <1>4 DEF Next, UserStep

LEMMA KernelInvariance == Spec => []KInv
BY InitKernel, NextKernel, PTL DEF Spec

LEMMA ShellNotGone ==
  ASSUME KInv, Live(2)
  PROVE  /\ OwnFrames(processes, process_count)
         /\ current >= 2 => tss = cpu
         /\ Awake(Me)
<1>1. ~Gone(processes, process_count, next_pid)
  BY DEF Gone, Live
<1> QED
  BY <1>1 DEF KInv, Kernel, Me

(* While the shell lives, a trap from ring 3 goes to the kernel stack of   *)
(* the process that runs, and the saved frame of every published process   *)
(* is on its own stack, through every fork, switch, signal and reap.       *)
THEOREM OwnStacks == Spec => []OwnKernelStack
<1>1. KInv => OwnKernelStack
  <2> SUFFICES ASSUME KInv, Live(2)
               PROVE  /\ Me.where = "user" => tss = cpu
                      /\ \A i \in Slots(process_count) :
                           processes[i].started
                             => processes[i].frame = processes[i].pid
    BY DEF OwnKernelStack
  <2>1. IInv
    BY DEF KInv
  <2>2. Me.where = "user" => current >= 2
    BY <2>1, Trapping
  <2>3. ASSUME NEW i \in Slots(process_count), processes[i].started
        PROVE  processes[i].frame = processes[i].pid
    <3>1. processes[i] \in Proc
      BY <2>1 DEF IInv, Good, TableOK
    <3>2. processes[i].started = TRUE
      BY <2>3, <3>1 DEF Proc
    <3> QED
      BY <3>2, ShellNotGone DEF OwnFrames
  <2> QED
    BY <2>2, <2>3, ShellNotGone
<1> QED
  BY <1>1, KernelInvariance, PTL

(* A process that has gone to sleep does not run in ring 3 before its time *)
(* is up, but for a signal handler: the check on the way out of a call     *)
(* always finds another process to switch to.                              *)
THEOREM SleepsLast == Spec => []SleepHonoured
<1>1. KInv => SleepHonoured
  BY ShellNotGone DEF SleepHonoured, Awake
<1> QED
  BY <1>1, KernelInvariance, PTL

(* Every switch of irq0_stub and syscall_stub is to a process that is      *)
(* RUNNING, awake and has its frame; only the exit of a process without a  *)
(* parent jumps without looking.                                           *)
THEOREM HandsOver == Spec => HandsOverToRunnable
<1>1. KInv /\ [Next]_vars => [HandedOver]_vars
  BY NextKernel
<1> QED
  BY <1>1, KernelInvariance, PTL DEF Spec, HandsOverToRunnable, HandedOver

(***************************************************************************)
(* Signals                                                                 *)
(***************************************************************************)

SameSignals(p, q) ==
  /\ q.pid = p.pid /\ q.sig_pending = p.sig_pending
  /\ q.sig_handler = p.sig_handler /\ q.in_signal = p.in_signal

(* What becomes of the pending signals of the process on its way out: all  *)
(* that go are dropped, or all but one that enters the handler or is fatal. *)
Taken(p, q, s) ==
  /\ s \in p.sig_pending /\ s \notin q.sig_pending /\ Spent(p, q) \subseteq {s}
  /\ \/ q.in_signal = TRUE /\ q.sig_handler[s] = CATCH
     \/ q.in_signal = FALSE /\ q.state = "ZOMBIE"

Loss(p, q) ==
  /\ p.in_signal = FALSE
  /\ \/ q.in_signal = FALSE /\ Spent(p, q) = {}
     \/ \E s \in Signals : Taken(p, q, s)

(* What the way out of a call makes of the table it is given. *)
Outcome(P, n, cur) ==
  \A j \in Slots(process_count') : \E i \in Slots(n) :
    /\ processes'[j].pid = P[i].pid
    /\ \/ SameSignals(P[i], processes'[j])
       \/ i = cur /\ Loss(P[i], processes'[j])

LEMMA TickedSignals ==
  ASSUME NEW P, NEW n, NEW np, TableOK(P, n, np)
  PROVE  /\ \A i \in Slots(n) : SameSignals(P[i], Ticked(P)[i])
         /\ \A i \in Slots(n) : SameSignals(P[i], Cleared(Ticked(P))[i])
<1>1. ASSUME NEW p \in Proc, NEW x, NEW q, q = [p EXCEPT !.sleep_ticks = x]
      PROVE  SameSignals(p, q)
  BY <1>1 DEF SameSignals, Proc
<1> DEFINE T == Ticked(P)
           W == Cleared(T)
<1>2. DOMAIN P = Slots(n) /\ \A i \in Slots(n) : P[i] \in Proc
  BY DEF TableOK
<1>3. DOMAIN T = Slots(n) /\ \A i \in Slots(n) : T[i] \in Proc
  <2>1. TableOK(T, n, np)
    BY TickedOK
  <2> HIDE DEF T
  <2> QED
    BY <2>1 DEF TableOK
<1>4. \A i \in Slots(n) : SameSignals(P[i], T[i])
  BY <1>1, <1>2 DEF Ticked
<1> HIDE DEF T
<1>5. \A i \in Slots(n) : SameSignals(T[i], W[i])
  BY <1>1, <1>3 DEF Cleared
<1> HIDE DEF W
<1>6. \A i \in Slots(n) : SameSignals(P[i], W[i])
  BY <1>4, <1>5 DEF SameSignals
<1> QED
  BY <1>4, <1>6 DEF T, W

LEMMA StartedSignals ==
  ASSUME NEW P, NEW n, NEW np, TableOK(P, n, np), NEW next \in Slots(n),
         NEW Q, Q = [P EXCEPT ![next].started = TRUE]
  PROVE  \A i \in Slots(n) : SameSignals(P[i], Q[i])
<1>1. P \in [Slots(n) -> Proc] /\ P[next] \in Proc
  BY DEF TableOK
<1>2. \A p : SameSignals(p, p)
  BY DEF SameSignals
<1>3. ASSUME NEW p \in Proc, NEW q, q = [p EXCEPT !.started = TRUE]
      PROVE  SameSignals(p, q)
  BY <1>3 DEF SameSignals, Proc
<1>4. \A i \in Slots(n) : \/ Q[i] = P[i]
                          \/ Q[i] = [P[i] EXCEPT !.started = TRUE]
  BY <1>1
<1>5. \A i \in Slots(n) : P[i] \in Proc
  BY <1>1
<1> QED
  BY <1>2, <1>3, <1>4, <1>5

(* A switch or an iret leaves every pending signal where it is. *)
LEMMA SwitchSignals ==
  ASSUME NEW P, NEW n, NEW np, TableOK(P, n, np), NEW cur \in Slots(n),
         \/ \E next \in Slots(n) : SwitchTo(P, n, next)
         \/ Resume(P, n, cur)
  PROVE  /\ process_count' = n
         /\ \A i \in Slots(n) : SameSignals(P[i], processes'[i])
<1>1. CASE \E next \in Slots(n) : SwitchTo(P, n, next)
  BY <1>1, StartedSignals DEF SwitchTo
<1>2. CASE Resume(P, n, cur)
  BY <1>2 DEF Resume, SameSignals
<1> QED
  BY <1>1, <1>2

LEMMA SleepCheckSignals ==
  ASSUME NEW P, NEW n, NEW np, TableOK(P, n, np), NEW cur \in Slots(n),
         SleepCheck(P, n, cur)
  PROVE  /\ process_count' = n
         /\ \A i \in Slots(n) : SameSignals(P[i], processes'[i])
<1> DEFINE T == Ticked(P)
           W == Cleared(T)
           Moves(Q) == \/ \E next \in Slots(n) : SwitchTo(Q, n, next)
                       \/ Resume(Q, n, cur)
<1>1. TableOK(T, n, np) /\ TableOK(W, n, np)
  BY TickedOK, ClearedOK
<1>2. /\ \A i \in Slots(n) : SameSignals(P[i], T[i])
      /\ \A i \in Slots(n) : SameSignals(P[i], W[i])
  BY TickedSignals
<1>3. Moves(P) \/ Moves(T) \/ Moves(W)
  <2>1. CASE ~(P[cur].state = "ZOMBIE" \/ P[cur].sleep_ticks > 0)
    BY <2>1 DEF SleepCheck
  <2>2. CASE P[cur].state = "ZOMBIE" \/ P[cur].sleep_ticks > 0
    <3>1. PICK next \in (-1)..(n - 1) :
            /\ ProcessTick(T, n, cur, next)
            /\ IF next # -1 THEN SwitchTo(T, n, next)
               ELSE IF P[cur].state # "ZOMBIE" THEN Resume(T, n, cur)
               ELSE \E again \in (-1)..(n - 1) :
                      /\ ProcessTick(W, n, cur, again)
                      /\ IF again = -1 THEN Resume(W, n, cur)
                                       ELSE SwitchTo(W, n, again)
      BY <2>2 DEF SleepCheck, NeedSwitch
    <3> HIDE DEF T, W
    <3>2. CASE next # -1
      BY <3>1, <3>2, ProcessTickRange
    <3>3. CASE next = -1 /\ P[cur].state # "ZOMBIE"
      BY <3>1, <3>3
    <3>4. CASE next = -1 /\ P[cur].state = "ZOMBIE"
      <4>1. PICK again \in (-1)..(n - 1) :
              /\ ProcessTick(W, n, cur, again)
              /\ IF again = -1 THEN Resume(W, n, cur)
                               ELSE SwitchTo(W, n, again)
        BY <3>1, <3>4
      <4> QED
        BY <4>1, ProcessTickRange
    <3> QED
      BY <3>2, <3>3, <3>4
  <2> QED
    BY <2>1, <2>2
<1> HIDE DEF T, W
<1>4. CASE Moves(P)
  BY <1>4, SwitchSignals
<1>5. CASE Moves(T)
  <2>1. /\ process_count' = n
        /\ \A i \in Slots(n) : SameSignals(T[i], processes'[i])
    BY <1>1, <1>5, SwitchSignals
  <2> QED
    BY <1>2, <2>1 DEF SameSignals
<1>6. CASE Moves(W)
  <2>1. /\ process_count' = n
        /\ \A i \in Slots(n) : SameSignals(W[i], processes'[i])
    BY <1>1, <1>6, SwitchSignals
  <2> QED
    BY <1>2, <2>1 DEF SameSignals
<1> QED
  BY <1>3, <1>4, <1>5, <1>6

(* The slots that are left after the exit of a process without a parent.   *)
LEMMA VanishSignals ==
  ASSUME NEW P, NEW n, NEW np, TableOK(P, n, np), NEW cur \in Slots(n),
         cur >= 2, Vanish(P, n, cur)
  PROVE  \A j \in Slots(process_count') : \E i \in Slots(n) :
           i # cur /\ SameSignals(P[i], processes'[j])
<1> DEFINE Q  == Compact(P, n, cur)
           c0 == IF cur >= n - 1 THEN 0 ELSE cur
           c1 == IF c0 = 0 /\ n - 1 > 1 THEN 1 ELSE c0
<1>1. TableOK(Q, n - 1, np) /\ n \in Nat
  <2>1. n \in Nat
    BY DEF TableOK
  <2> QED
    BY <2>1, CompactOK
<1>2. c1 \in Slots(n - 1)
  BY DEF TableOK, Slots
<1>3. processes' = [Q EXCEPT ![c1].started = TRUE] /\ process_count' = n - 1
  BY DEF Vanish
<1>4. ASSUME NEW j \in Slots(n - 1)
      PROVE  \E i \in Slots(n) : i # cur /\ Q[j] = P[i]
  <2>1. /\ j \in Slots(n) /\ j + 1 \in Slots(n) /\ j \in Int /\ cur \in Int
    BY <1>1 DEF Slots
  <2>2. Q[j] = IF j < cur THEN P[j] ELSE P[j + 1]
    BY DEF Compact
  <2>3. CASE j < cur
    BY <2>1, <2>2, <2>3
  <2>4. CASE ~(j < cur)
    <3>1. j + 1 # cur
      BY <2>1, <2>4
    <3> QED
      BY <2>1, <2>2, <2>4, <3>1
  <2> QED
    BY <2>3, <2>4
<1> HIDE DEF Q, c1
<1>5. \A j \in Slots(n - 1) : SameSignals(Q[j], processes'[j])
  BY <1>1, <1>2, <1>3, StartedSignals
<1> QED
  BY <1>3, <1>4, <1>5

LEMMA ZombifiedSignals ==
  ASSUME NEW P, NEW n, NEW np, TableOK(P, n, np), NEW cur \in Slots(n)
  PROVE  \A i \in Slots(n) : SameSignals(P[i], Zombified(P, cur)[i])
<1>1. DOMAIN P = Slots(n) /\ \A i \in Slots(n) : P[i] \in Proc
  BY DEF TableOK
<1>2. ASSUME NEW p \in Proc, NEW q,
             \/ q = [p EXCEPT !.state = "ZOMBIE"]
             \/ q = [p EXCEPT !.sleep_ticks = 0]
             \/ q = p
      PROVE  SameSignals(p, q)
  BY <1>2 DEF Proc, SameSignals
<1> DEFINE Z == Zombified(P, cur)
<1>3. \A i \in Slots(n) :
        \/ Z[i] = [P[i] EXCEPT !.state = "ZOMBIE"]
        \/ Z[i] = [P[i] EXCEPT !.sleep_ticks = 0]
        \/ Z[i] = P[i]
  BY <1>1 DEF Zombified
<1> HIDE DEF Z
<1>4. \A i \in Slots(n) : SameSignals(P[i], Z[i])
  BY <1>1, <1>2, <1>3
<1> QED
  BY <1>4 DEF Z

(* signal_deliver: s is the lowest signal that is not dropped, so the ones *)
(* below it that go with it are.                                           *)
LEMMA DeliverSignals ==
  ASSUME NEW P, NEW n, NEW np, TableOK(P, n, np), NEW cur \in Slots(n),
         cur >= 2, P[cur].where = "user", P[cur].in_signal = FALSE,
         NEW s \in P[cur].sig_pending, Deliver(P, n, cur, s),
         \A t \in P[cur].sig_pending : ~Dropped(P[cur], t) => s <= t
  PROVE  Outcome(P, n, cur)
<1> DEFINE p == P[cur]
           left == {t \in p.sig_pending : t > s}
           q == [p EXCEPT !.sig_pending = left]
           Q == [P EXCEPT ![cur] = q]
           h == [[[q EXCEPT !.sig_saved = p.user] EXCEPT !.user = "handler"]
                   EXCEPT !.in_signal = TRUE]
<1>1. p \in Proc /\ P \in [Slots(n) -> Proc]
  BY DEF TableOK
<1>2. left \in SUBSET Signals
  BY <1>1 DEF Proc
<1> HIDE DEF left
<1>3. /\ q \in Proc /\ q.where = "user" /\ q.sig_pending = left
      /\ q.pid = p.pid /\ q.parent_pid = p.parent_pid
      /\ q.sig_handler = p.sig_handler /\ q.in_signal = FALSE
  BY <1>1, <1>2 DEF Proc
<1>4. /\ h.sig_pending = left /\ h.sig_handler = p.sig_handler
      /\ h.in_signal = TRUE /\ h.pid = p.pid
  BY <1>1, <1>2 DEF Proc
<1>9. s \in Signals /\ s \notin left /\ s \in p.sig_pending
  BY <1>1, ProcessAssumption DEF Proc, left
<1>5. /\ \A i \in Slots(n) : i # cur => Q[i] = P[i]
      /\ Q[cur] = q /\ Q \in [Slots(n) -> Proc]
  BY <1>1, <1>3
<1>6. \A t \in p.sig_pending \ left : t = s \/ Dropped(p, t)
  <2>1. p.sig_pending \subseteq Int
    <3>1. p.sig_pending \subseteq Signals
      BY <1>1 DEF Proc
    <3>2. Signals \subseteq Int
      BY ProcessAssumption
    <3> QED
      BY <3>1, <3>2
  <2>2. ASSUME NEW t \in p.sig_pending \ left, ~Dropped(p, t)
        PROVE  t = s
    <3>1. ~(t > s) /\ s <= t
      BY <2>2 DEF left
    <3> QED
      BY <2>1, <3>1
  <2> QED
    BY <2>2
<1>7. CASE p.sig_handler[s] = CATCH
  <2>1. /\ processes' = [Q EXCEPT ![cur].sig_saved = p.user,
                                  ![cur].user = "handler",
                                  ![cur].in_signal = TRUE]
        /\ process_count' = n
    BY <1>7, Zenon DEF Deliver, left
  <2> HIDE DEF Q, q
  <2>2. processes' = [Q EXCEPT ![cur] = h]
    BY <1>5, <2>1
  <2> HIDE DEF h
  <2>3. /\ \A i \in Slots(n) : i # cur => processes'[i] = P[i]
        /\ processes'[cur] = h
    BY <1>5, <2>2
  <2>4. Taken(p, h, s)
    BY <1>4, <1>6, <1>7, <1>9 DEF Taken, Spent, Dropped
  <2>5. Loss(p, h)
    BY <1>9, <2>4 DEF Loss
  <2> QED
    BY <1>4, <2>1, <2>3, <2>5 DEF Outcome, SameSignals
<1>8. CASE p.sig_handler[s] # CATCH
  <2>1. \/ Resume(Zombified(Q, cur), n, cur)
        \/ Vanish(Q, n, cur)
    BY <1>8 DEF Deliver, left
  <2> HIDE DEF q
  <2>2. TableOK(Q, n, np)
    <3>1. q.where # "post"
      BY <1>3
    <3> QED
      BY <1>1, <1>3, <3>1, UpdateOK
  <2> HIDE DEF Q
  <2>3. CASE Resume(Zombified(Q, cur), n, cur)
    <3> DEFINE Z == Zombified(Q, cur)
    <3>1. processes' = Z /\ process_count' = n
      BY <2>3 DEF Resume
    <3>2. /\ \A i \in Slots(n) : SameSignals(Q[i], Z[i])
          /\ Z[cur].state = "ZOMBIE"
      BY <2>2, ZombifiedSignals, ZombifiedStacks
    <3> HIDE DEF Z
    <3>3. Taken(p, Z[cur], s) /\ Z[cur].pid = p.pid
      BY <1>3, <1>5, <1>6, <1>9, <3>2 DEF Taken, Spent, Dropped, SameSignals
    <3>4. \A i \in Slots(n) : i # cur => SameSignals(P[i], Z[i])
      BY <1>5, <3>2
    <3>5. \A i \in Slots(n) : i # cur => Z[i].pid = P[i].pid
      BY <3>4 DEF SameSignals
    <3> QED
      BY <1>9, <3>1, <3>3, <3>4, <3>5 DEF Outcome, Loss
  <2>4. CASE Vanish(Q, n, cur)
    <3>1. \A j \in Slots(process_count') : \E i \in Slots(n) :
            i # cur /\ SameSignals(Q[i], processes'[j])
      BY <2>2, <2>4, VanishSignals
    <3>2. ASSUME NEW j \in Slots(process_count')
          PROVE  \E i \in Slots(n) : SameSignals(P[i], processes'[j])
      <4>1. PICK i \in Slots(n) : i # cur /\ SameSignals(Q[i], processes'[j])
        BY <3>1
      <4> QED
        BY <1>5, <4>1
    <3> QED
      BY <3>2 DEF Outcome, SameSignals
  <2> QED
    BY <2>1, <2>3, <2>4
<1> QED
  BY <1>7, <1>8

(* The way out of every system call. *)
LEMMA ReturnPathSignals ==
  ASSUME NEW P, NEW n, NEW np, TableOK(P, n, np), NEW cur \in Slots(n),
         cur >= 2, ReturnPath(P, n, cur)
  PROVE  Outcome(P, n, cur)
<1> DEFINE p == P[cur]
           q == [p EXCEPT !.where = "user"]
           Q == [P EXCEPT ![cur] = q]
           e == [q EXCEPT !.sig_pending = {}]
           E == [Q EXCEPT ![cur] = e]
           hits == {s \in Q[cur].sig_pending : ~Dropped(Q[cur], s)}
<1>1. p \in Proc /\ P \in [Slots(n) -> Proc]
  BY DEF TableOK
<1>2. /\ q \in Proc /\ SameSignals(p, q) /\ q.where = "user"
      /\ q.pid = p.pid /\ q.parent_pid = p.parent_pid
  BY <1>1 DEF Proc, Places, SameSignals
<1>3. /\ e \in Proc /\ e.sig_pending = {} /\ e.sig_handler = q.sig_handler
      /\ e.in_signal = q.in_signal
      /\ e.where = "user" /\ e.pid = q.pid /\ e.parent_pid = q.parent_pid
  BY <1>2 DEF Proc
<1>4. /\ Q[cur] = q /\ E = [Q EXCEPT ![cur].sig_pending = {}]
      /\ \A i \in Slots(n) : i # cur => Q[i] = P[i] /\ E[i] = P[i]
      /\ E[cur] = e
  BY <1>1
<1>5. IF Q[cur].in_signal THEN SleepCheck(Q, n, cur)
      ELSE IF hits = {} THEN SleepCheck(E, n, cur)
      ELSE \E s \in hits : /\ \A t \in hits : s <= t
                           /\ Deliver(Q, n, cur, s)
  BY <1>4 DEF ReturnPath
<1>6. /\ hits \subseteq q.sig_pending
      /\ \A t \in q.sig_pending : ~Dropped(q, t) => t \in hits
  BY <1>4
<1> HIDE DEF q, e, hits
<1>7. TableOK(Q, n, np)
  <2>1. q.where # "post"
    BY <1>2
  <2> QED
    BY <1>1, <1>2, <2>1, UpdateOK
<1> HIDE DEF Q
<1>8. TableOK(E, n, np)
  <2>1. e.where # "post"
    BY <1>3
  <2> QED
    BY <1>3, <1>4, <1>7, <2>1, UpdateOK
<1> HIDE DEF E
<1>9. \A i \in Slots(n) : SameSignals(P[i], Q[i])
  BY <1>2, <1>4 DEF SameSignals
<1>10. CASE q.in_signal = TRUE
  <2>1. SleepCheck(Q, n, cur)
    BY <1>4, <1>5, <1>10
  <2>2. /\ process_count' = n
        /\ \A i \in Slots(n) : SameSignals(Q[i], processes'[i])
    BY <1>7, <2>1, SleepCheckSignals
  <2>3. \A i \in Slots(n) : /\ SameSignals(P[i], processes'[i])
                            /\ processes'[i].pid = P[i].pid
    BY <1>9, <2>2 DEF SameSignals
  <2> QED
    BY <2>2, <2>3 DEF Outcome
<1>11. CASE q.in_signal = FALSE /\ hits = {}
  <2>1. SleepCheck(E, n, cur)
    BY <1>4, <1>5, <1>11
  <2>2. /\ process_count' = n
        /\ \A i \in Slots(n) : SameSignals(E[i], processes'[i])
    BY <1>8, <2>1, SleepCheckSignals
  <2>3. \A i \in Slots(n) : i # cur => /\ processes'[i].pid = P[i].pid
                                       /\ SameSignals(P[i], processes'[i])
    BY <1>4, <2>2 DEF SameSignals
  <2>4. \A t \in p.sig_pending : Dropped(q, t)
    BY <1>2, <1>6, <1>11 DEF SameSignals
  <2>5. /\ processes'[cur].sig_handler = q.sig_handler
        /\ processes'[cur].pid = p.pid /\ processes'[cur].in_signal = FALSE
    BY <1>2, <1>3, <1>4, <1>11, <2>2 DEF SameSignals
  <2>6. p.in_signal = FALSE
    BY <1>2, <1>11 DEF SameSignals
  <2>7. Loss(p, processes'[cur])
    BY <2>4, <2>5, <2>6 DEF Loss, Spent, Dropped
  <2> QED
    BY <2>2, <2>3, <2>5, <2>7 DEF Outcome
<1>12. CASE q.in_signal = FALSE /\ hits # {}
  <2>1. PICK s \in hits : /\ \A t \in hits : s <= t
                          /\ Deliver(Q, n, cur, s)
    BY <1>4, <1>5, <1>12
  <2>2. Outcome(Q, n, cur)
    <3>1. /\ Q[cur].where = "user" /\ Q[cur].in_signal = FALSE
          /\ s \in Q[cur].sig_pending
          /\ \A t \in Q[cur].sig_pending : ~Dropped(Q[cur], t) => s <= t
      BY <1>2, <1>4, <1>6, <1>12, <2>1
    <3> QED
      BY <1>7, <2>1, <3>1, DeliverSignals
  <2>3. ASSUME NEW i \in Slots(n), NEW r, Loss(Q[i], r)
        PROVE  Loss(P[i], r)
    BY <1>9, <2>3 DEF Loss, Taken, Spent, SameSignals
  <2>4. ASSUME NEW j \in Slots(process_count')
        PROVE  \E i \in Slots(n) :
                 /\ processes'[j].pid = P[i].pid
                 /\ \/ SameSignals(P[i], processes'[j])
                    \/ i = cur /\ Loss(P[i], processes'[j])
    <3>1. PICK i \in Slots(n) :
            /\ processes'[j].pid = Q[i].pid
            /\ \/ SameSignals(Q[i], processes'[j])
               \/ i = cur /\ Loss(Q[i], processes'[j])
      BY <2>2 DEF Outcome
    <3>2. Q[i].pid = P[i].pid /\ SameSignals(P[i], Q[i])
      BY <1>9 DEF SameSignals
    <3>3. SameSignals(Q[i], processes'[j]) => SameSignals(P[i], processes'[j])
      BY <3>2 DEF SameSignals
    <3> QED
      BY <2>3, <3>1, <3>2, <3>3
  <2> QED
    BY <2>4 DEF Outcome
<1>13. q.in_signal \in BOOLEAN
  BY <1>2 DEF Proc
<1> QED
  BY <1>10, <1>11, <1>12, <1>13

(* What SignalsNotLost says of a slot before and after a step. *)
SafeLoss(p, q) ==
  /\ p.sig_pending \subseteq q.sig_pending \/ p.pid = cpu
  /\ \A s, t \in Spent(p, q) : s = t
  /\ Spent(p, q) # {} => EntersHandler(p, q) \/ q.state = "ZOMBIE"
  /\ EntersHandler(p, q) =>
       \E s \in Signals :
         /\ q.sig_handler[s] = CATCH
         /\ s \notin q.sig_pending /\ Spent(p, q) \subseteq {s}
         /\ s \in p.sig_pending \/ Raises(s)

(* Nothing is spent and no handler entered. *)
LEMMA NoLoss ==
  ASSUME NEW p, NEW q, p.sig_pending \subseteq q.sig_pending,
         ~EntersHandler(p, q)
  PROVE  SafeLoss(p, q)
<1>1. Spent(p, q) = {}
  BY DEF Spent
<1> QED
  BY <1>1 DEF SafeLoss

(* A slot that is handed on as the call left it. *)
LEMMA SameLoss ==
  ASSUME NEW p, NEW q, NEW r, From(p, r), SameSignals(r, q),
         SysSigreturn /\ p.pid = cpu => r.in_signal = FALSE
  PROVE  SafeLoss(p, q)
<1>1. p.sig_pending \subseteq q.sig_pending
  BY DEF From, SameSignals
<1>2. q.in_signal = p.in_signal \/ q.in_signal = FALSE
  BY DEF From, SameSignals
<1>3. SysSigreturn /\ p.pid = cpu => q.in_signal = FALSE
  BY DEF SameSignals
<1>4. ~EntersHandler(p, q)
  BY <1>2, <1>3 DEF EntersHandler
<1> QED
  BY <1>1, <1>4, NoLoss

(* The slot of the process that is on its way out. *)
LEMMA OwnLoss ==
  ASSUME NEW p, NEW q, NEW r, From(p, r), Loss(r, q), p.pid = cpu
  PROVE  SafeLoss(p, q)
<1>1. Spent(p, q) \subseteq Spent(r, q)
  BY DEF From, Spent
<1>2. p.in_signal = FALSE \/ (SysSigreturn /\ p.pid = cpu)
  BY DEF From, Loss
<1>3. CASE q.in_signal = FALSE /\ Spent(r, q) = {}
  <2>1. Spent(p, q) = {} /\ ~EntersHandler(p, q)
    BY <1>1, <1>3 DEF EntersHandler
  <2> QED
    BY <2>1 DEF SafeLoss
<1>4. CASE \E s \in Signals : Taken(r, q, s)
  <2>1. PICK s \in Signals : Taken(r, q, s)
    BY <1>4
  <2>2. /\ s \notin q.sig_pending /\ Spent(p, q) \subseteq {s}
        /\ s \in p.sig_pending \/ Raises(s)
    BY <1>1, <2>1 DEF Taken, From
  <2>3. CASE q.in_signal = TRUE /\ q.sig_handler[s] = CATCH
    <3>1. EntersHandler(p, q)
      BY <1>2, <2>3 DEF EntersHandler
    <3> QED
      BY <2>2, <2>3, <3>1 DEF SafeLoss
  <2>4. CASE q.in_signal = FALSE /\ q.state = "ZOMBIE"
    <3>1. ~EntersHandler(p, q)
      BY <2>4 DEF EntersHandler
    <3> QED
      BY <2>2, <2>4, <3>1 DEF SafeLoss
  <2> QED
    BY <2>1, <2>3, <2>4 DEF Taken
<1> QED
  BY <1>3, <1>4 DEF Loss

SignalsKept ==
  \A i \in Slots(process_count), j \in Slots(process_count') :
    processes[i].pid = processes'[j].pid
      => SafeLoss(processes[i], processes'[j])

(* A pid is in one slot only. *)
LEMMA OneSlot ==
  ASSUME IInv, NEW i \in Slots(process_count), NEW k \in Slots(process_count),
         processes[i].pid = processes[k].pid
  PROVE  i = k
<1>1. TableOK(processes, process_count, next_pid)
  BY DEF IInv, Good
<1>2. /\ \A a, b \in Slots(process_count) :
           a < b => processes[a].pid < processes[b].pid
      /\ processes[i] \in Proc /\ processes[k] \in Proc
  BY <1>1 DEF TableOK
<1>3. processes[i].pid \in Int /\ processes[k].pid \in Int
  BY <1>2 DEF Proc
<1>4. i \in Int /\ k \in Int
  BY DEF Slots
<1> QED
  BY <1>2, <1>3, <1>4

(* The next pid is in none. *)
LEMMA NewPid ==
  ASSUME IInv, NEW i \in Slots(process_count)
  PROVE  processes[i].pid # next_pid
<1>1. TableOK(processes, process_count, next_pid)
  BY DEF IInv, Good
<1>2. processes[i].pid < next_pid /\ processes[i] \in Proc
  BY <1>1 DEF TableOK, SlotOK
<1>3. processes[i].pid \in Int /\ next_pid \in Int
  BY <1>1, <1>2 DEF Proc, TableOK
<1> QED
  BY <1>2, <1>3

(* Through a passed table: the slot a pending signal was in before. *)
LEMMA PassedSignals ==
  ASSUME IInv, NEW P, NEW n, Passed(P, n), NEW i \in Slots(n),
         NEW k \in Slots(process_count), processes[k].pid = P[i].pid
  PROVE  From(processes[k], P[i])
<1>1. Origin(P[i]) /\ Me.where \notin {"boot", "task"}
  BY DEF Passed
<1>2. CASE \E m \in Slots(process_count) : From(processes[m], P[i])
  <2>1. PICK m \in Slots(process_count) : From(processes[m], P[i])
    BY <1>2
  <2>2. processes[m].pid = processes[k].pid
    BY <2>1 DEF From
  <2>3. m = k
    BY <2>2, OneSlot
  <2> QED
    BY <2>1, <2>3
<1>3. CASE P[i] = ForkedChild /\ next_pid <= MaxPid
  <2>1. P[i].pid = next_pid
    BY <1>1, <1>3, ForkedChildOK
  <2> QED
    BY <2>1, NewPid
<1> QED
  BY <1>1, <1>2, <1>3 DEF Origin

(* The way out of a call, for a table passed on to it. *)
LEMMA ReturnedSignals ==
  ASSUME IInv, NEW P, NEW n, Passed(P, n), ReturnPath(P, n, current),
         SysSigreturn => P[current].in_signal = FALSE
  PROVE  SignalsKept
<1>1. Outcome(P, n, current) /\ P[current].pid = cpu
  BY ReturnPathSignals DEF Passed
<1>2. ASSUME NEW k \in Slots(process_count),
             NEW j \in Slots(process_count'),
             processes[k].pid = processes'[j].pid
      PROVE  SafeLoss(processes[k], processes'[j])
  <2> DEFINE p == processes[k]
             q == processes'[j]
  <2>1. PICK i \in Slots(n) :
          /\ q.pid = P[i].pid
          /\ \/ SameSignals(P[i], q)
             \/ i = current /\ Loss(P[i], q)
    BY <1>1 DEF Outcome
  <2>2. From(p, P[i]) /\ P[i].pid = p.pid
    BY <1>2, <2>1, PassedSignals
  <2>3. CASE SameSignals(P[i], q)
    <3>1. p.pid = cpu => i = current
      <4>1. TableOK(P, n, next_pid') /\ current \in Slots(n)
        BY DEF Passed
      <4>2. /\ \A a, b \in Slots(n) : a < b => P[a].pid < P[b].pid
            /\ P[i] \in Proc /\ P[current] \in Proc
        BY <4>1 DEF TableOK
      <4>3. P[i].pid \in Int /\ P[current].pid \in Int
        BY <4>2 DEF Proc
      <4>4. i \in Int /\ current \in Int
        BY <4>1 DEF Slots
      <4> QED
        BY <1>1, <2>2, <4>1, <4>2, <4>3, <4>4
    <3> QED
      BY <2>2, <2>3, <3>1, SameLoss
  <2>4. CASE i = current /\ Loss(P[i], q)
    BY <1>1, <2>2, <2>4, OwnLoss
  <2> QED
    BY <2>1, <2>3, <2>4
<1> QED
  BY <1>2 DEF SignalsKept

LEMMA SigreturnSignals == ASSUME IInv, SysSigreturn PROVE SignalsKept
<1>1. PICK P : /\ Passed(P, process_count) /\ P[current].in_signal = FALSE
               /\ ReturnPath(P, process_count, current)
  BY SigreturnPassed
<1> QED
  BY <1>1, ReturnedSignals

LEMMA UserStepSignals ==
  ASSUME IInv, UserStep, ~SysSigreturn PROVE SignalsKept
<1>1. Returns \/ Stays \/ Vanishes
  BY UserStepShape
<1>2. CASE Returns
  <2>1. PICK P, n : Passed(P, n) /\ ReturnPath(P, n, current)
    BY <1>2 DEF Returns
  <2> QED
    BY <2>1, ReturnedSignals
<1>3. CASE Stays
  <2>1. PICK P : Passed(P, process_count) /\ Inside(P)
    BY <1>3 DEF Stays
  <2>2. processes' = P /\ process_count' = process_count
    BY <2>1 DEF Inside
  <2>3. ASSUME NEW k \in Slots(process_count), NEW j \in Slots(process_count),
               processes[k].pid = P[j].pid
        PROVE  SafeLoss(processes[k], P[j])
    <3>1. From(processes[k], P[j])
      BY <2>1, <2>3, PassedSignals
    <3>2. SameSignals(P[j], P[j])
      BY DEF SameSignals
    <3> QED
      BY <3>1, <3>2, SameLoss
  <2> QED
    BY <2>2, <2>3 DEF SignalsKept
<1>4. CASE Vanishes
  <2>1. /\ Me.where = "user" /\ Vanish(Trap, process_count, current)
        /\ next_pid' = next_pid
    BY <1>4 DEF Vanishes
  <2>2. Passed(Trap, process_count)
    BY <2>1, TrapPassed
  <2>3. \A j \in Slots(process_count') : \E i \in Slots(process_count) :
          i # current /\ SameSignals(Trap[i], processes'[j])
    BY <2>1, Trapping, VanishSignals
  <2>4. ASSUME NEW k \in Slots(process_count),
               NEW j \in Slots(process_count'),
               processes[k].pid = processes'[j].pid
        PROVE  SafeLoss(processes[k], processes'[j])
    <3>1. PICK i \in Slots(process_count) :
            SameSignals(Trap[i], processes'[j])
      BY <2>3
    <3>2. From(processes[k], Trap[i])
      BY <2>2, <2>4, <3>1, PassedSignals DEF SameSignals
    <3> QED
      BY <3>1, <3>2, SameLoss
  <2> QED
    BY <2>4 DEF SignalsKept
<1> QED
  BY <1>1, <1>2, <1>3, <1>4

(* Slots that stay where they are and keep what is pending. *)
LEMMA StillSignals ==
  ASSUME IInv, ~SysSigreturn,
         process_count' >= process_count, process_count' \in Nat,
         \A j \in Slots(process_count) :
           /\ processes'[j].pid = processes[j].pid
           /\ processes[j].sig_pending \subseteq processes'[j].sig_pending
           /\ processes'[j].in_signal = processes[j].in_signal,
         \A j \in Slots(process_count') :
           j \in Slots(process_count) \/ processes'[j].pid = next_pid
  PROVE  SignalsKept
<1>1. ASSUME NEW k \in Slots(process_count), NEW j \in Slots(process_count'),
             processes[k].pid = processes'[j].pid
      PROVE  SafeLoss(processes[k], processes'[j])
  <2>1. processes[k].pid # next_pid
    BY NewPid
  <2>2. j \in Slots(process_count)
    BY <1>1, <2>1
  <2>3. k = j
    BY <1>1, <2>2, OneSlot
  <2>4. processes'[j].in_signal = processes[k].in_signal
    BY <2>2, <2>3
  <2>5. ~EntersHandler(processes[k], processes'[j])
    BY <2>4 DEF EntersHandler
  <2> QED
    BY <2>2, <2>3, <2>5, NoLoss
<1> QED
  BY <1>1 DEF SignalsKept

LEMMA TickSignals == ASSUME IInv, Tick, ~SysSigreturn PROVE SignalsKept
<1> DEFINE n == process_count
<1>1. /\ TableOK(processes, n, next_pid) /\ current \in Slots(n) /\ n \in Nat
  BY DEF IInv, Good, TableOK
<1>2. /\ TableOK(Trap, n, next_pid)
      /\ \A i \in Slots(n) : From(processes[i], Trap[i])
  BY TimerTrap
<1>3. \/ processes' = Ticked(processes) /\ process_count' = n
      \/ \E next \in Slots(n) : SwitchTo(Ticked(Trap), n, next)
  BY ProcessTickRange DEF Tick
<1>4. CASE processes' = Ticked(processes) /\ process_count' = n
  <2>1. \A i \in Slots(n) : SameSignals(processes[i], processes'[i])
    BY <1>1, <1>4, TickedSignals
  <2> QED
    BY <1>1, <1>4, <2>1, StillSignals DEF SameSignals
<1>5. CASE \E next \in Slots(n) : SwitchTo(Ticked(Trap), n, next)
  <2>1. TableOK(Ticked(Trap), n, next_pid)
    BY <1>2, TickedOK
  <2>2. /\ process_count' = n
        /\ \A i \in Slots(n) : SameSignals(Ticked(Trap)[i], processes'[i])
    BY <1>1, <1>5, <2>1, SwitchSignals
  <2>3. \A i \in Slots(n) : SameSignals(Trap[i], Ticked(Trap)[i])
    BY <1>2, TickedSignals
  <2>4. ASSUME NEW i \in Slots(n)
        PROVE  /\ processes'[i].pid = processes[i].pid
               /\ processes[i].sig_pending \subseteq processes'[i].sig_pending
               /\ processes'[i].in_signal = processes[i].in_signal
    BY <1>2, <2>2, <2>3 DEF SameSignals, From
  <2> QED
    BY <1>1, <2>2, <2>4, StillSignals
<1> QED
  BY <1>3, <1>4, <1>5

LEMMA BootSignals ==
  ASSUME IInv, CreateUser \/ CreateUserFails \/ BuildFrame \/ Publish,
         ~SysSigreturn
  PROVE  SignalsKept
<1> DEFINE n == process_count
<1>1. /\ n \in Nat /\ DOMAIN processes = Slots(n)
      /\ \A i \in Slots(n) : processes[i] \in Proc
  BY DEF IInv, Good, TableOK
<1>2. CASE CreateUser
  <2>1. /\ init_pc = "create" /\ process_count' = n + 1
        /\ processes' = Extend(processes, n, Shell)
    BY <1>2 DEF CreateUser, InTask
  <2>2. n = 2 /\ next_pid = 2
    BY <2>1 DEF IInv
  <2>3. Shell.pid = next_pid
    BY <2>2, ShellOK
  <2>4. /\ processes'[2] = Shell
        /\ \A i \in Slots(n) : processes'[i] = processes[i]
        /\ \A i \in Slots(n + 1) : i \in Slots(n) \/ i = 2
    BY <2>1, <2>2 DEF Extend, Slots
  <2> QED
    BY <1>1, <2>1, <2>3, <2>4, StillSignals
<1>3. CASE CreateUserFails
  BY <1>1, <1>3, StillSignals DEF CreateUserFails
<1>4. ASSUME BuildFrame \/ Publish PROVE SignalsKept
  <2>1. ASSUME NEW p \in Proc, NEW x
        PROVE  /\ [p EXCEPT !.frame = x].pid = p.pid
               /\ [p EXCEPT !.frame = x].sig_pending = p.sig_pending
               /\ [p EXCEPT !.frame = x].in_signal = p.in_signal
               /\ [p EXCEPT !.started = x].in_signal = p.in_signal
               /\ [p EXCEPT !.started = x].pid = p.pid
               /\ [p EXCEPT !.started = x].sig_pending = p.sig_pending
    BY DEF Proc
  <2>2. ASSUME NEW i \in Slots(n)
        PROVE  \/ processes'[i] = processes[i]
               \/ processes'[i] =
                    [processes[i] EXCEPT !.frame = processes[i].pid]
               \/ processes'[i] = [processes[i] EXCEPT !.started = TRUE]
    BY <1>1, <1>4 DEF BuildFrame, Publish
  <2>3. \A i \in Slots(n) :
          /\ processes'[i].pid = processes[i].pid
          /\ processes'[i].sig_pending = processes[i].sig_pending
          /\ processes'[i].in_signal = processes[i].in_signal
    <3> SUFFICES ASSUME NEW i \in Slots(n)
                 PROVE  /\ processes'[i].pid = processes[i].pid
                        /\ processes'[i].sig_pending = processes[i].sig_pending
                        /\ processes'[i].in_signal = processes[i].in_signal
      OBVIOUS
    <3>1. /\ [processes[i] EXCEPT !.frame = processes[i].pid].pid
               = processes[i].pid
          /\ [processes[i] EXCEPT !.frame = processes[i].pid].sig_pending
               = processes[i].sig_pending
          /\ [processes[i] EXCEPT !.frame = processes[i].pid].in_signal
               = processes[i].in_signal
      BY <1>1, <2>1
    <3>2. /\ [processes[i] EXCEPT !.started = TRUE].pid = processes[i].pid
          /\ [processes[i] EXCEPT !.started = TRUE].sig_pending
               = processes[i].sig_pending
          /\ [processes[i] EXCEPT !.started = TRUE].in_signal
               = processes[i].in_signal
      BY <1>1, <2>1
    <3>3. CASE processes'[i] = processes[i]
      BY <3>3
    <3>4. CASE processes'[i] =
                 [processes[i] EXCEPT !.frame = processes[i].pid]
      BY <3>1, <3>4
    <3>5. CASE processes'[i] = [processes[i] EXCEPT !.started = TRUE]
      BY <3>2, <3>5
    <3> QED
      BY <2>2, <3>3, <3>4, <3>5
  <2>4. process_count' = n
    BY <1>4 DEF BuildFrame, Publish
  <2> QED
    BY <1>1, <2>3, <2>4, StillSignals
<1> QED
  BY <1>2, <1>3, <1>4

(* No step loses a signal and none is taken twice: a step spends at most   *)
(* one pending signal that is not dropped, its process's own on the way    *)
(* back to ring 3, on entering the handler or on ending the process, and a *)
(* handler is entered only for a signal that was pending or was just       *)
(* raised and is pending no more.                                          *)
THEOREM NoSignalLost == Spec => SignalsNotLost
<1>1. IInv /\ [Next]_vars => [SignalsKept]_vars
  <2> SUFFICES ASSUME IInv, [Next]_vars PROVE [SignalsKept]_vars
    OBVIOUS
  <2>1. CASE SysSigreturn
    BY <2>1, SigreturnSignals
  <2>2. CASE ~SysSigreturn /\ Tick
    BY <2>2, TickSignals
  <2>3. CASE /\ ~SysSigreturn
             /\ CreateUser \/ CreateUserFails \/ BuildFrame \/ Publish
    BY <2>3, BootSignals
  <2>4. CASE ~SysSigreturn /\ UserStep
    BY <2>4, UserStepSignals
  <2> QED
    BY <2>1, <2>2, <2>3, <2>4 DEF Next, UserStep
<1> QED
  BY <1>1, Invariance, PTL DEF Spec, SignalsNotLost, SignalsKept, SafeLoss

=============================================================================
