----------------------------- MODULE MCItemPicture -----------------------------
EXTENDS ItemPicture, TLC

Symmetry == Permutations(Items) \cup Permutations(Calls) \cup Permutations(Companies)
===============================================================================
