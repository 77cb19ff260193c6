-------------------------- MODULE MCMotionHeatmap ---------------------------
(* The heatmap with two web requests at a time.                            *)
EXTENDS MotionHeatmap, TLC
Sym == Permutations(Requests)
=============================================================================
