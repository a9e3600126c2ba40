------------------------------ MODULE MCCatalogue ------------------------------
EXTENDS Catalogue, TLC

(* Owners, companies, categories, items and calls differ in nothing but their *)
(* identity.                                                               *)
Symmetry == Permutations(Owners) \cup Permutations(Companies)
              \cup Permutations(Categories) \cup Permutations(Items) \cup Permutations(Calls)
===============================================================================
