----------------------------- MODULE MCEnvironment -----------------------------
EXTENDS Environment

CONSTANTS dev, test

(* A file right in every name, for a cluster.                              *)
Right == [n \in Names |-> CASE n = "REDIS_IS_CLUSTER" -> "1"
                            [] n = "MONGODB_URI" -> dev
                            [] n \in DatabaseNames -> test
                            [] OTHER -> "right"]

(* Whatever the service's half holds beside a right block, and the reverse.  *)
EitherHalf == {e \in AllEnvironments : \/ \A n \in ServiceNames : e[n] = Right[n]
                                       \/ \A n \in REQUIRED : e[n] = Right[n]}
===============================================================================
