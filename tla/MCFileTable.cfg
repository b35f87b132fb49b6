\* A shell and a child, four files, two descriptors each: both tables fill
\* up, a pipe finds one descriptor free or none, and two pipes can be open.
CONSTANTS
  sh = sh
  a = a
  p1 = p1
  p2 = p2
  None = None
  Procs <- MCProcs
  Shell = sh
  Pages <- MCPages
  NFILE = 4
  FD_MAX = 2
  MaxRef = 2
  NStd = 1
SYMMETRY MCSymmetry
SPECIFICATION Spec
INVARIANTS TypeOK NoDanglingDescriptor PipeEndsCounted
CHECK_DEADLOCK FALSE
