------------------------------- MODULE MCPipe -------------------------------
(* Model values for the runs of Pipe. *)
EXTENDS Pipe

MCSizes == {-1, 0, 1, 3, 6}

=============================================================================
