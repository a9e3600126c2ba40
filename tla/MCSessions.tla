------------------------------- MODULE MCSessions -------------------------------
EXTENDS Sessions, TLC

(* Every access session but the foreign ones is like every other.          *)
Symmetry == Permutations(Refreshes) \cup Permutations(Accesses \ Foreign) \cup Permutations(Calls)
===============================================================================
