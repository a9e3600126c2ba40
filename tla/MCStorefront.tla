------------------------------ MODULE MCStorefront ------------------------------
EXTENDS Storefront, TLC

CONSTANTS o1, o2, d1, d2

(* Both companies belong to one owner, who may move items between them;    *)
(* another owner, where the instance has one, is a stranger to all of it.   *)
(* So the two companies may be exchanged as freely as the calls.           *)
OneOwner  == d1 :> o1 @@ d2 :> o1

Symmetry == Permutations(Items) \cup Permutations(Calls) \cup Permutations(Companies)
===============================================================================
