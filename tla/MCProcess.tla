----------------------------- MODULE MCProcess -----------------------------
(* The instances of Process that TLC checks; the cfg files give the bounds. *)
EXTENDS Process

(* Lives and deaths, and job control: up to three user processes at a time. *)
LifecycleCalls ==
  {"other", "exit", "fork", "sleep", "waitpid", "wait", "kill", "fault",
   "setpgid", "setsid", "tcsetpgrp", "execve"}

(* Bound: there are groups, other than those the shell starts with, only    *)
(* while a pid is left.                                                    *)
FewGroups ==
  \/ next_pid <= MaxPid
  \/ /\ foreground_pgid = 0
     /\ \A i, j \in Slots(process_count) \ {0, 1} : processes[i].pgid = processes[j].pgid

(* Signal handlers and the console: the shell and one child. *)
SignalCalls ==
  {"other", "fork", "sleep", "kill", "sigaction", "sigreturn", "read"}

(* Scheduling: what stops a process, removes it or moves its slot. *)
FairCalls ==
  {"other", "exit", "fork", "sleep", "waitpid", "wait", "kill", "fault"}

=============================================================================
