-------------------------------- MODULE Filing --------------------------------
(***************************************************************************)
(* What the catalogue of the marketplace promises, with every operation    *)
(* one indivisible step: items are filed under a company and a category,   *)
(* saved (which may move them), withdrawn; companies are founded and       *)
(* closed; categories are retired.  Module Catalogue is the code's way of  *)
(* keeping this promise with calls of several awaits and MongoDB           *)
(* transactions that interleave.                                           *)
(***************************************************************************)

CONSTANTS Owners, Companies, Categories, Items, None

VARIABLES
  filed,      \* item -> the company and category it is filed under, or None
  withdrawn,  \* the items that carry `deleted`
  owner,      \* company -> its idShopOwner, None while it does not exist
  closed,     \* the companies that carry `deleted`
  retired     \* the categories that carry `deleted`

filingVars == <<filed, withdrawn, owner, closed, retired>>

Filings == [company : Companies, category : Categories]

FilingInit ==
  /\ filed = [i \in Items |-> None]
  /\ withdrawn = {}
  /\ owner = [d \in Companies |-> None]
  /\ closed = {}
  /\ retired = {}

LiveIn(k) == {i \in Items \ withdrawn : filed[i] # None /\ filed[i].category = k}

(* A new item needs a live category.  Of its company nothing more is       *)
(* promised than that it exists: itemAdd does not hold the company.        *)
Add(i, d, k) ==
  /\ filed[i] = None
  /\ owner[d] # None
  /\ k \notin retired
  /\ filed' = [filed EXCEPT ![i] = [company |-> d, category |-> k]]
  /\ UNCHANGED <<withdrawn, owner, closed, retired>>

(* A save may move the item, to an open company of the same owner and a    *)
(* live category.                                                          *)
Save(i, d, k) ==
  /\ filed[i] # None
  /\ owner[d] # None
  /\ owner[d] = owner[filed[i].company]
  /\ d \notin closed
  /\ k \notin retired
  /\ filed' = [filed EXCEPT ![i] = [company |-> d, category |-> k]]
  /\ UNCHANGED <<withdrawn, owner, closed, retired>>

Withdraw(i) ==
  /\ filed[i] # None
  /\ withdrawn' = withdrawn \cup {i}
  /\ UNCHANGED <<filed, owner, closed, retired>>

Found(d, o) ==
  /\ owner[d] = None
  /\ owner' = [owner EXCEPT ![d] = o]
  /\ UNCHANGED <<filed, withdrawn, closed, retired>>

Close(d) ==
  /\ owner[d] # None
  /\ closed' = closed \cup {d}
  /\ UNCHANGED <<filed, withdrawn, owner, retired>>

RetireCategory(k) ==
  /\ LiveIn(k) = {}
  /\ retired' = retired \cup {k}
  /\ UNCHANGED <<filed, withdrawn, owner, closed>>

FilingNext ==
  \/ \E i \in Items, d \in Companies, k \in Categories : Add(i, d, k) \/ Save(i, d, k)
  \/ \E i \in Items : Withdraw(i)
  \/ \E d \in Companies : Close(d) \/ \E o \in Owners : Found(d, o)
  \/ \E k \in Categories : RetireCategory(k)

FilingSpec == FilingInit /\ [][FilingNext]_filingVars
===============================================================================
