----------------------- MODULE MCResourceHandleManager -----------------------
(***************************************************************************)
(* Small instances of ResourceHandleManager for TLC.                       *)
(***************************************************************************)
EXTENDS ResourceHandleManager, TLC

CONSTANTS n1, n2, u1, s1

\* The ResourceHandles of loaders on the network differ in nothing.
Loaders == Permutations(NetHandle)
=============================================================================
