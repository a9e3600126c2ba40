------------------------------ MODULE MCLifecycle ------------------------------
EXTENDS Lifecycle, TLC

Symmetry == Permutations(Signals) \cup Permutations(Errors)
===============================================================================
