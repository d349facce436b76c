---------------------------- MODULE MCHttpHandler ----------------------------
(***************************************************************************)
(* Small instances of HttpHandler for TLC.                                 *)
(***************************************************************************)
EXTENDS HttpHandler

CONSTANTS l1, s1, s2, r1

Data(n) == [size |-> n, file |-> FALSE]
File(n) == [size |-> n, file |-> TRUE]

\* Elements smaller than the buffer of size 2, as large, and larger
Forms == {<< >>, <<Data(1), Data(2), Data(5)>>, <<Data(4), File(1), Data(1)>>}

Dirs == {<< >>, <<"a">>}
=============================================================================
