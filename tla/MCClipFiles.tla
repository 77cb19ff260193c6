---------------------------- MODULE MCClipFiles -----------------------------
(* Two directories, two clip names, each of which may occur twice.         *)
EXTENDS ClipFiles, TLC
Symmetric == Permutations(Requests) \union Permutations(Dirs)
=============================================================================
