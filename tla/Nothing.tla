------------------------------ MODULE Nothing -------------------------------
(* Python's None, for modules that the same theorems are about.            *)
CONSTANT None
=============================================================================
