------------------------------ MODULE MCMemfs ------------------------------
(* A small tree: three names, paths of one and two components, one of them *)
(* ending in ".".                                                          *)
EXTENDS Memfs

Rel(e) == [abs |-> FALSE, elems |-> e]
Abs(e) == [abs |-> TRUE, elems |-> e]

MCPaths == {Rel(<<"b">>), Rel(<<"b", "c">>), Rel(<<"..", "a">>), Abs(<<"b", ".">>)}

Fl(s) == [creat |-> "creat" \in s, excl |-> "excl" \in s, trunc |-> "trunc" \in s,
          append |-> "append" \in s, readable |-> "wronly" \notin s,
          writable |-> {"wronly", "rdwr"} \cap s # {}]

(* open, creat() and exclusive creation for appending *)
MCFlags == {Fl({"rdwr"}), Fl({"creat", "trunc", "rdwr"}), Fl({"creat", "excl", "append", "rdwr"})}
============================================================================
