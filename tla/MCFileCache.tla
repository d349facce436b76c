----------------------------- MODULE MCFileCache -----------------------------
(***************************************************************************)
(* Small instances of FileCache for TLC.                                   *)
(***************************************************************************)
EXTENDS FileCache, TLC

CONSTANTS a, b, j1

\* URLs differ in nothing.
Urls == Permutations(Url)
=============================================================================
