------------------------------- MODULE MCV9p -------------------------------
(***************************************************************************)
(* The 9P client with three inodes, one open file and two names.           *)
(***************************************************************************)
EXTENDS V9p

MCPaths == {<<"a">>, <<"b">>, <<"a", "a">>}
============================================================================
