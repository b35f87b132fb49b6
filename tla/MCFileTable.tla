----------------------------- MODULE MCFileTable -----------------------------
(* Model values for the runs of FileTable. *)
EXTENDS FileTable, TLC

CONSTANTS sh, a, p1, p2

MCProcs == {sh, a}
MCPages == {p1, p2}
MCSymmetry == Permutations({p1, p2})

=============================================================================
