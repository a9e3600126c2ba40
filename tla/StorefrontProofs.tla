---------------------------- MODULE StorefrontProofs ----------------------------
(***************************************************************************)
(* Proofs about Storefront for any owners, companies, items and bounds, and *)
(* any number of calls in flight.                                          *)
(***************************************************************************)
EXTENDS Storefront, TLAPS, FiniteSetTheorems, WellFoundedInduction

(* A call past the guard of companies flags or saves its owner's own.       *)
OwnCompany(c) ==
  /\ pc[c] # "idle" => req[c].owner \in Owners
  /\ pc[c] \in {"guardCompany", "flagCompany", "saveCompany"} =>
       req[c].company \in Companies /\ req[c].op \in {"flagCompany", "saveCompany"}
  /\ pc[c] \in {"flagCompany", "saveCompany"} => idShopOwner[req[c].company] = req[c].owner

OwnIds(c) ==
  /\ pc[c] = "idle" => ids[c] = {}
  /\ \A d \in ids[c] : idShopOwner[d] = req[c].owner

(* A closing at work holds the account, which is open, and of the storefront *)
(* nothing that its snapshot did not find published.                       *)
HoldsAccount(c) ==
  pc[c] \in InTransaction =>
    /\ writer[req[c].owner] = c
    /\ deletedBy[req[c].owner] = None
    /\ Held(c) \subseteq {req[c].owner} \cup lit[c]
    /\ lit[c] \subseteq StorefrontOf(req[c].owner)

(* What is published and was not in that snapshot is late; and what was is   *)
(* held once its step is behind.                                           *)
SnapshotDarkens(c) ==
  /\ pc[c] \in InTransaction => published \cap StorefrontOf(req[c].owner) \subseteq late \cup lit[c]
  /\ pc[c] \in {"darkItems", "commit"} => lit[c] \cap Companies \subseteq Held(c)
  /\ pc[c] = "commit" => lit[c] \cap Items \subseteq Held(c)

CallInv(c) == OwnCompany(c) /\ OwnIds(c) /\ HoldsAccount(c) /\ SnapshotDarkens(c)

StorefrontInv ==
  /\ TypeOK
  /\ \A c \in Calls : CallInv(c)
  /\ ClosedDarkUnlessLate

-------------------------------------------------------------------------------
LEMMA NoRequestIsRequest == NoRequest \in Requests /\ NoRequest.count = Cardinality(NoRequest.items)
BY FS_EmptySet DEF NoRequest, Request, Requests

(* A call that ends leaves every variable in its type and holds nothing.    *)
LEMMA FinishType ==
  ASSUME TypeOK, NEW c \in Calls, NEW D \in SUBSET Docs, Finish(c, D)
  PROVE  /\ writer' \in [Docs -> Calls \cup {None}]
         /\ pc' \in [Calls -> Steps]
         /\ req' \in [Calls -> Requests]
         /\ \A x \in Calls : req'[x].count = Cardinality(req'[x].items)
         /\ ids' \in [Calls -> SUBSET Companies]
         /\ todo' \in [Calls -> SUBSET Items]
         /\ lit' \in [Calls -> SUBSET (Companies \cup Items)]
         /\ touched' \in [Calls -> SUBSET Docs]
         /\ \A x \in Calls : pc'[x] \notin InTransaction => Held(x)' = {} /\ lit'[x] = {}
<1>1. /\ writer' \in [Docs -> Calls \cup {None}]
      /\ pc' \in [Calls -> Steps]
      /\ ids' \in [Calls -> SUBSET Companies]
      /\ todo' \in [Calls -> SUBSET Items]
      /\ lit' \in [Calls -> SUBSET (Companies \cup Items)]
  BY DEF TypeOK, Finish, Go, Release, Steps
<1>2. req' \in [Calls -> Requests]
  BY NoRequestIsRequest DEF TypeOK, Finish
<1>3. \A x \in Calls : req'[x].count = Cardinality(req'[x].items)
  BY NoRequestIsRequest DEF TypeOK, Finish
<1>4. touched' \in [Calls -> SUBSET Docs]
  BY DEF TypeOK, Finish, Behind
<1>5. \A x \in Calls : pc'[x] \notin InTransaction => Held(x)' = {} /\ lit'[x] = {}
  BY StorefrontAssumption DEF TypeOK, Finish, Go, Release, Held
<1>6. QED
  BY <1>1, <1>2, <1>3, <1>4, <1>5

LEMMA RefuseType ==
  ASSUME TypeOK, NEW c \in Calls, Refuse(c)
  PROVE  TypeOK'
BY FinishType DEF Refuse, NotLate, TypeOK

(* A closing that starts over lets go of all it wrote.                     *)
LEMMA RetryType ==
  ASSUME TypeOK, NEW c \in Calls, Retry(c)
  PROVE  TypeOK'
<1>1. /\ writer' \in [Docs -> Calls \cup {None}] /\ pc' \in [Calls -> Steps]
      /\ lit' \in [Calls -> SUBSET (Companies \cup Items)] /\ touched' \in [Calls -> SUBSET Docs]
      /\ late' \subseteq Companies \cup Items
      /\ UNCHANGED <<deletedBy, published, linkable, gone, idCompany, req, ids, todo>>
  BY DEF TypeOK, Retry, NotLate, Go, Release, Steps
<1>2. \A x \in Calls : pc'[x] \notin InTransaction => Held(x)' = {} /\ lit'[x] = {}
  BY StorefrontAssumption DEF TypeOK, Retry, Go, Release, Held
<1>3. QED
  BY <1>1, <1>2 DEF TypeOK

LEMMA FlagType ==
  ASSUME TypeOK, NEW D \in SUBSET (Companies \cup Items), NEW b, Flag(D, b)
  PROVE  published' \subseteq Companies \cup Items /\ late' \subseteq Companies \cup Items
BY DEF TypeOK, Flag

-------------------------------------------------------------------------------
LEMMA LeastElement ==
  ASSUME NEW T, T \subseteq Nat, T # {}
  PROVE  \E x \in T : \A y \in T : x <= y
<1> DEFINE R == {ss \in Nat \X Nat : ss[1] < ss[2]}
<1>1. IsWellFoundedOn(R, Nat)
  <2>1. R = OpToRel(<, Nat)
    BY DEF OpToRel
  <2>2. QED
    BY <2>1, NatLessThanWellFounded
<1>2. PICK x \in T : \A y \in T : ~ (<<y, x>> \in R)
  <2> HIDE DEF R
  <2>1. QED
    BY <1>1, WFMin
<1>3. ASSUME NEW y \in T
      PROVE  x <= y
  <2>1. ~ (<<y, x>> \in R)
    BY <1>2
  <2>2. y \in Nat /\ x \in Nat
    OBVIOUS
  <2>3. ~ (y < x)
    BY <2>1
  <2>4. QED
    BY <2>3
<1>4. QED
  BY <1>3

(* uniqueIds keeps one place of the list for each document it names: what    *)
(* the guard compares with is a number of documents.                       *)
LEMMA OnePlaceEach ==
  ASSUME NEW n \in Nat, NEW list \in [1..n -> Items]
  PROVE  Cardinality(uniqueIds(list)) = Cardinality(ToSet(list)) /\ ToSet(list) \subseteq Items
<1> DEFINE f == [k \in uniqueIds(list) |-> list[k]]
<1>1. uniqueIds(list) \subseteq 1..n
  BY DEF uniqueIds
<1>2. IsFiniteSet(uniqueIds(list))
  BY <1>1, FS_Interval, FS_Subset
<1>3. f \in [uniqueIds(list) -> ToSet(list)]
  BY <1>1 DEF ToSet
<1>4. ASSUME NEW j \in uniqueIds(list), NEW k \in uniqueIds(list), f[j] = f[k]
      PROVE  j = k
  <2>1. j \in 1..n /\ k \in 1..n
    BY <1>1
  <2>2. list[j] = list[k]
    BY <1>4
  <2>3. ~ (j < k) /\ ~ (k < j)
    BY <2>2 DEF uniqueIds
  <2>4. QED
    BY <2>1, <2>3
<1>5. ASSUME NEW i \in ToSet(list)
      PROVE  \E k \in uniqueIds(list) : f[k] = i
  <2> DEFINE T == {j \in 1..n : list[j] = i}
  <2>1. T # {} /\ T \subseteq Nat
    BY DEF ToSet
  <2>2. PICK k \in T : \A j \in T : k <= j
    <3> HIDE DEF T
    <3>1. QED
      BY <2>1, LeastElement
  <2>3. k \in uniqueIds(list)
    BY <2>2 DEF uniqueIds
  <2>4. QED
    BY <2>3
<1>6. f \in Bijection(uniqueIds(list), ToSet(list))
  BY <1>3, <1>4, <1>5 DEF Bijection, Injection, IsInjective, Surjection
<1>7. QED
  BY <1>2, <1>6, FS_Bijection DEF ExistsBijection, ToSet

-------------------------------------------------------------------------------
(* A call starts with arguments that count documents, and holds nothing.    *)
LEMMA StartKeeps ==
  ASSUME StorefrontInv, NEW c \in Calls, NEW r \in Requests, NEW step \in {"guardCompany", "readIds", "stamp"},
         Start(c, r, step), r.count = Cardinality(r.items), r.owner \in Owners,
         step = "guardCompany" => r.company \in Companies /\ r.op \in {"flagCompany", "saveCompany"}
  PROVE  StorefrontInv'
<1> USE DEF StorefrontInv, CallInv, Start, Go, front
<1>1. TypeOK'
  <2>1. req' \in [Calls -> Requests] /\ pc' \in [Calls -> Steps]
    BY DEF TypeOK, Steps
  <2>2. \A x \in Calls : req'[x].count = Cardinality(req'[x].items)
    BY DEF TypeOK
  <2>3. \A x \in Calls : pc'[x] \notin InTransaction => Held(x)' = {} /\ lit'[x] = {}
    BY DEF TypeOK, InTransaction, Held
  <2>4. QED
    BY <2>1, <2>3 DEF TypeOK
<1>2. (\A x \in Calls : OwnCompany(x))'
  BY DEF TypeOK, OwnCompany
<1>3. (\A x \in Calls : OwnIds(x))'
  BY DEF OwnIds
<1>4. (\A x \in Calls : HoldsAccount(x))'
  BY DEF InTransaction, HoldsAccount, Held, StorefrontOf, OwnerOf
<1>5. (\A x \in Calls : SnapshotDarkens(x))'
  BY DEF InTransaction, SnapshotDarkens, Held, StorefrontOf, OwnerOf
<1>6. ClosedDarkUnlessLate'
  BY DEF ClosedDarkUnlessLate, StorefrontOf, OwnerOf
<1>7. QED
  BY <1>1, <1>2, <1>3, <1>4, <1>5, <1>6

LEMMA StartCompanyKeeps ==
  ASSUME StorefrontInv, NEW c \in Calls, StartCompany(c)
  PROVE  StorefrontInv'
<1>1. PICK op \in {"flagCompany", "saveCompany"}, o \in Owners, d \in Companies, b \in BOOLEAN :
         Start(c, Request(op, o, d, {}, 0, b), "guardCompany")
  BY DEF StartCompany
<1>2. Request(op, o, d, {}, 0, b) \in Requests
  BY DEF Request, Requests
<1>3. QED
  BY <1>1, <1>2, StartKeeps, FS_EmptySet DEF Request

LEMMA StartItemsKeeps ==
  ASSUME StorefrontInv, NEW c \in Calls, StartItems(c)
  PROVE  StorefrontInv'
<1>1. PICK o \in Owners, list \in ItemLists, b \in BOOLEAN :
         /\ Cardinality(uniqueIds(list)) \in 1..MAX_ITEMS_PER_CALL
         /\ Start(c, Request("flagItems", o, None, ToSet(list), Cardinality(uniqueIds(list)), b), "readIds")
  BY DEF StartItems
<1>2. PICK n \in Nat : list \in [1..n -> Items]
  BY DEF ItemLists, BoundedSeq, SeqOf
<1>3. Cardinality(uniqueIds(list)) = Cardinality(ToSet(list)) /\ ToSet(list) \subseteq Items
  BY <1>2, OnePlaceEach
<1>4. Request("flagItems", o, None, ToSet(list), Cardinality(uniqueIds(list)), b) \in Requests
  BY <1>1, <1>3 DEF Request, Requests
<1>5. QED
  BY <1>1, <1>3, <1>4, StartKeeps DEF Request

LEMMA shopOwnerDelKeeps ==
  ASSUME StorefrontInv, NEW c \in Calls, shopOwnerDel(c)
  PROVE  StorefrontInv'
<1>1. PICK o \in Owners : Start(c, Request("shopOwnerDel", o, None, {}, 0, FALSE), "stamp")
  BY DEF shopOwnerDel
<1>2. Request("shopOwnerDel", o, None, {}, 0, FALSE) \in Requests
  BY DEF Request, Requests
<1>3. QED
  BY <1>1, <1>2, StartKeeps, FS_EmptySet DEF Request

-------------------------------------------------------------------------------
(* A call that is refused or fails leaves the flags as they are; if it was a *)
(* closing, nothing is late of the storefront it gives up.                 *)
LEMMA RefuseKeeps ==
  ASSUME StorefrontInv, NEW c \in Calls, Refuse(c)
  PROVE  StorefrontInv'
<1> USE DEF StorefrontInv, CallInv, Refuse, Finish, Go
<1>1. TypeOK'
  BY RefuseType
<1>2. (\A x \in Calls : OwnCompany(x))'
  BY DEF TypeOK, OwnCompany
<1>3. (\A x \in Calls : OwnIds(x))'
  BY DEF TypeOK, OwnIds
<1>4. (\A x \in Calls : HoldsAccount(x))'
  BY SMTT(20), StorefrontAssumption DEF TypeOK, InTransaction, Docs, OwnCompany, HoldsAccount,
     Release, Held, StorefrontOf, OwnerOf
<1>5. (\A x \in Calls : SnapshotDarkens(x))'
  BY SMTT(20) DEF TypeOK, InTransaction, HoldsAccount, SnapshotDarkens, NotLate, Release, Held,
     StorefrontOf, OwnerOf
<1>6. ClosedDarkUnlessLate'
  BY SMTT(20) DEF HoldsAccount, NotLate, ClosedDarkUnlessLate, StorefrontOf,
     OwnerOf
<1>7. QED
  BY <1>1, <1>2, <1>3, <1>4, <1>5, <1>6

LEMMA RetryKeeps ==
  ASSUME StorefrontInv, NEW c \in Calls, pc[c] # "idle", Retry(c)
  PROVE  StorefrontInv'
<1> USE DEF StorefrontInv, CallInv, Retry, Go
<1>1. TypeOK'
  BY RetryType
<1>2. (\A x \in Calls : OwnCompany(x))'
  BY DEF OwnCompany
<1>3. (\A x \in Calls : OwnIds(x))'
  BY DEF OwnIds
<1>4. (\A x \in Calls : HoldsAccount(x))'
  BY SMTT(20), StorefrontAssumption DEF TypeOK, InTransaction, Docs, OwnCompany, HoldsAccount,
     Release, Held, StorefrontOf, OwnerOf
<1>5. (\A x \in Calls : SnapshotDarkens(x))'
  BY SMTT(20) DEF TypeOK, InTransaction, HoldsAccount, SnapshotDarkens, NotLate, Release, Held,
     StorefrontOf, OwnerOf
<1>6. ClosedDarkUnlessLate'
  BY SMTT(20) DEF HoldsAccount, NotLate, ClosedDarkUnlessLate, StorefrontOf,
     OwnerOf
<1>7. QED
  BY <1>1, <1>2, <1>3, <1>4, <1>5, <1>6

-------------------------------------------------------------------------------
LEMMA throwIfShopOwnerDontOwnCompanyKeeps ==
  ASSUME StorefrontInv, NEW c \in Calls, throwIfShopOwnerDontOwnCompany(c)
  PROVE  StorefrontInv'
<1>1. CASE Refuse(c)
  BY <1>1, RefuseKeeps
<1>2. CASE /\ req[c].company \in shopOwnerCompanyIds(req[c].owner)
           /\ Go(c, req[c].op)
           /\ UNCHANGED <<front, writer, req, ids, todo, lit, touched>>
  <2> USE <1>2 DEF StorefrontInv, CallInv, Go, front, throwIfShopOwnerDontOwnCompany
  <2>1. TypeOK'
    <3>1. pc' \in [Calls -> Steps]
      BY DEF TypeOK, OwnCompany, Steps
    <3>2. \A x \in Calls : pc'[x] \notin InTransaction => Held(x)' = {} /\ lit'[x] = {}
      BY DEF TypeOK, InTransaction, Held
    <3>3. QED
      BY <3>1, <3>2 DEF TypeOK
  <2>2. (\A x \in Calls : OwnCompany(x) /\ OwnIds(x))'
    BY DEF OwnCompany, OwnIds, shopOwnerCompanyIds
  <2>3. (\A x \in Calls : HoldsAccount(x))'
    BY DEF OwnCompany, InTransaction, HoldsAccount, Held, StorefrontOf, OwnerOf
  <2>4. (\A x \in Calls : SnapshotDarkens(x))'
    BY DEF OwnCompany, InTransaction, SnapshotDarkens, Held, StorefrontOf, OwnerOf
  <2>5. ClosedDarkUnlessLate'
    BY DEF ClosedDarkUnlessLate, StorefrontOf, OwnerOf
  <2>6. QED
    BY <2>1, <2>2, <2>3, <2>4, <2>5
<1>3. QED
  BY <1>1, <1>2 DEF throwIfShopOwnerDontOwnCompany

LEMMA funCompanyUpdatePublishedKeeps ==
  ASSUME StorefrontInv, NEW c \in Calls, funCompanyUpdatePublished(c)
  PROVE  StorefrontInv'
<1> DEFINE d == req[c].company
<1>1. CASE Refuse(c)
  BY <1>1, RefuseKeeps
<1>2. CASE /\ ~ (req[c].flag /\ d \notin linkable)
           /\ writer[d] = None
           /\ Flag({d}, req[c].flag)
           /\ Finish(c, {d})
           /\ UNCHANGED <<deletedBy, linkable, gone, idCompany>>
  <2> HIDE DEF d
  <2>1. pc[c] = "flagCompany" /\ d \in Companies /\ idShopOwner[d] = req[c].owner
    BY DEF funCompanyUpdatePublished, StorefrontInv, CallInv, OwnCompany, d
  <2> USE <1>2, <2>1 DEF StorefrontInv, CallInv, Finish, Go
  <2>2. TypeOK'
    <3>1. published' \subseteq Companies \cup Items /\ late' \subseteq Companies \cup Items
      BY FlagType
    <3>2. {d} \in SUBSET Docs
      BY DEF Docs
    <3>3. QED
      BY <3>1, <3>2, FinishType DEF TypeOK
  <2>3. (\A x \in Calls : OwnCompany(x) /\ OwnIds(x))'
    BY DEF TypeOK, OwnCompany, OwnIds
  <2>4. (\A x \in Calls : HoldsAccount(x))'
    BY SMTT(20) DEF TypeOK, InTransaction, HoldsAccount, Release, Held, StorefrontOf, OwnerOf
  <2>5. (\A x \in Calls : SnapshotDarkens(x))'
    BY SMTT(20) DEF InTransaction, SnapshotDarkens, Flag, Closing, Release, Held, StorefrontOf,
       OwnerOf
  <2>6. ClosedDarkUnlessLate'
    BY SMTT(20) DEF ClosedDarkUnlessLate, Flag, Closing, StorefrontOf, OwnerOf
  <2>7. QED
    BY <2>2, <2>3, <2>4, <2>5, <2>6
<1>3. QED
  BY <1>1, <1>2 DEF funCompanyUpdatePublished

LEMMA funCompanyUpdateKeeps ==
  ASSUME StorefrontInv, NEW c \in Calls, funCompanyUpdate(c)
  PROVE  StorefrontInv'
<1> DEFINE d == req[c].company
<1>1. CASE Refuse(c)
  BY <1>1, RefuseKeeps
<1>2. CASE /\ ~ (d \in published /\ ~ req[c].flag)
           /\ linkable' = IF req[c].flag THEN linkable \cup {d} ELSE linkable \ {d}
           /\ Finish(c, {d})
           /\ UNCHANGED <<deletedBy, published, gone, idCompany, late>>
  <2> HIDE DEF d
  <2>1. pc[c] = "saveCompany" /\ d \in Companies
    BY DEF funCompanyUpdate, StorefrontInv, CallInv, OwnCompany, d
  <2> USE <1>2, <2>1 DEF StorefrontInv, CallInv, Finish, Go
  <2>2. TypeOK'
    BY FinishType DEF TypeOK, Docs
  <2>3. (\A x \in Calls : OwnCompany(x) /\ OwnIds(x))'
    BY DEF TypeOK, OwnCompany, OwnIds
  <2>4. (\A x \in Calls : HoldsAccount(x))'
    BY SMTT(20) DEF TypeOK, InTransaction, HoldsAccount, Release, Held, StorefrontOf, OwnerOf
  <2>5. (\A x \in Calls : SnapshotDarkens(x))'
    BY SMTT(20) DEF InTransaction, SnapshotDarkens, Release, Held, StorefrontOf, OwnerOf
  <2>6. ClosedDarkUnlessLate'
    BY SMTT(20) DEF ClosedDarkUnlessLate, StorefrontOf, OwnerOf
  <2>7. QED
    BY <2>2, <2>3, <2>4, <2>5, <2>6
<1>3. QED
  BY <1>1, <1>2 DEF funCompanyUpdate

-------------------------------------------------------------------------------
LEMMA ReadCompanyIdsKeeps ==
  ASSUME StorefrontInv, NEW c \in Calls, ReadCompanyIds(c)
  PROVE  StorefrontInv'
<1> USE DEF StorefrontInv, CallInv, ReadCompanyIds, Go, front
<1>1. TypeOK'
  <2>1. pc' \in [Calls -> Steps] /\ ids' \in [Calls -> SUBSET Companies]
    BY DEF TypeOK, Steps, shopOwnerCompanyIds
  <2>2. req[c].items \in SUBSET Items
    BY DEF TypeOK, Requests
  <2>3. todo' \in [Calls -> SUBSET Items]
    BY <2>2 DEF TypeOK
  <2>4. \A x \in Calls : pc'[x] \notin InTransaction => Held(x)' = {} /\ lit'[x] = {}
    BY DEF TypeOK, InTransaction, Held
  <2>5. QED
    BY <2>1, <2>3, <2>4 DEF TypeOK
<1>2. (\A x \in Calls : OwnCompany(x) /\ OwnIds(x))'
  BY DEF TypeOK, OwnCompany, OwnIds, shopOwnerCompanyIds
<1>3. (\A x \in Calls : HoldsAccount(x))'
  BY DEF TypeOK, InTransaction, HoldsAccount, Held, StorefrontOf, OwnerOf
<1>4. (\A x \in Calls : SnapshotDarkens(x))'
  BY DEF TypeOK, InTransaction, SnapshotDarkens, Held, StorefrontOf, OwnerOf
<1>5. ClosedDarkUnlessLate'
  BY DEF ClosedDarkUnlessLate, StorefrontOf, OwnerOf
<1>6. QED
  BY <1>1, <1>2, <1>3, <1>4, <1>5

LEMMA throwIfShopOwnerDontOwnAllItemsKeeps ==
  ASSUME StorefrontInv, NEW c \in Calls, throwIfShopOwnerDontOwnAllItems(c)
  PROVE  StorefrontInv'
<1>1. CASE Refuse(c)
  BY <1>1, RefuseKeeps
<1>2. CASE /\ pc[c] = "countItems"
           /\ Go(c, "rereadIds")
           /\ ids' = [ids EXCEPT ![c] = {}]
           /\ UNCHANGED <<front, writer, req, todo, lit, touched>>
  <2> USE <1>2 DEF StorefrontInv, CallInv, Go, front
  <2>1. TypeOK'
    <3>1. pc' \in [Calls -> Steps] /\ ids' \in [Calls -> SUBSET Companies]
      BY DEF TypeOK, Steps
    <3>2. \A x \in Calls : pc'[x] \notin InTransaction => Held(x)' = {} /\ lit'[x] = {}
      BY DEF TypeOK, InTransaction, Held
    <3>3. QED
      BY <3>1, <3>2 DEF TypeOK
  <2>2. (\A x \in Calls : OwnCompany(x) /\ OwnIds(x))'
    BY DEF OwnCompany, OwnIds
  <2>3. (\A x \in Calls : HoldsAccount(x))'
    BY DEF InTransaction, HoldsAccount, Held, StorefrontOf, OwnerOf
  <2>4. (\A x \in Calls : SnapshotDarkens(x))'
    BY DEF InTransaction, SnapshotDarkens, Held, StorefrontOf, OwnerOf
  <2>5. ClosedDarkUnlessLate'
    BY DEF ClosedDarkUnlessLate, StorefrontOf, OwnerOf
  <2>6. QED
    BY <2>1, <2>2, <2>3, <2>4, <2>5
<1>3. QED
  BY <1>1, <1>2 DEF throwIfShopOwnerDontOwnAllItems

LEMMA FlagItemKeeps ==
  ASSUME StorefrontInv, NEW c \in Calls, FlagItem(c)
  PROVE  StorefrontInv'
<1>1. PICK i \in todo[c] :
         /\ todo' = [todo EXCEPT ![c] = @ \ {i}]
         /\ \/ UNCHANGED <<published, late, touched>>
            \/ idCompany[i] \in ids[c] /\ writer[i] = None /\ Flag({i}, req[c].flag) /\ Touch(c, {i})
  BY DEF FlagItem
<1>2. i \in Items
  BY DEF StorefrontInv, TypeOK
<1>3. UNCHANGED <<deletedBy, linkable, gone, idCompany, writer, pc, req, ids, lit>>
  BY DEF FlagItem
<1> USE <1>1, <1>2, <1>3 DEF StorefrontInv, CallInv
<1>4. TypeOK'
  <2>1. published' \subseteq Companies \cup Items /\ late' \subseteq Companies \cup Items
    BY DEF TypeOK, Flag
  <2>2. todo' \in [Calls -> SUBSET Items] /\ touched' \in [Calls -> SUBSET Docs]
    BY DEF TypeOK, Docs, Touch, Behind
  <2>3. \A x \in Calls : pc'[x] \notin InTransaction => Held(x)' = {} /\ lit'[x] = {}
    BY DEF TypeOK, Held
  <2>4. QED
    BY <2>1, <2>2, <2>3 DEF TypeOK
<1>5. (\A x \in Calls : OwnCompany(x) /\ OwnIds(x))'
  BY DEF OwnCompany, OwnIds
<1>6. (\A x \in Calls : HoldsAccount(x))'
  BY DEF HoldsAccount, Held, StorefrontOf, OwnerOf
<1>7. (\A x \in Calls : SnapshotDarkens(x))'
  BY SMTT(20) DEF SnapshotDarkens, Flag, Closing, Held, StorefrontOf, OwnerOf
<1>8. ClosedDarkUnlessLate'
  BY SMTT(20), StorefrontAssumption DEF ClosedDarkUnlessLate, Flag, Closing,
     StorefrontOf, OwnerOf
<1>9. QED
  BY <1>4, <1>5, <1>6, <1>7, <1>8

-------------------------------------------------------------------------------
LEMMA StampOwnerKeeps ==
  ASSUME StorefrontInv, NEW c \in Calls, StampOwner(c)
  PROVE  StorefrontInv'
<1> DEFINE o == req[c].owner
<1>1. CASE Refuse(c)
  BY <1>1, RefuseKeeps
<1>2. CASE /\ deletedBy[o] = None
           /\ writer[o] = None
           /\ writer' = [writer EXCEPT ![o] = c]
           /\ lit' = [lit EXCEPT ![c] = published \cap StorefrontOf(o)]
           /\ Go(c, "darkCompanies")
           /\ UNCHANGED <<front, req, ids, todo, touched>>
  <2> HIDE DEF o
  <2>1. pc[c] = "stamp" /\ o \in Owners
    BY DEF StampOwner, StorefrontInv, CallInv, OwnCompany, o
  <2> USE <1>2, <2>1 DEF StorefrontInv, CallInv, Go, front
  <2>2. TypeOK'
    <3>1. /\ pc' \in [Calls -> Steps] /\ writer' \in [Docs -> Calls \cup {None}]
          /\ lit' \in [Calls -> SUBSET (Companies \cup Items)]
      BY DEF TypeOK, Steps, StorefrontOf
    <3>2. \A x \in Calls : pc'[x] \notin InTransaction => Held(x)' = {} /\ lit'[x] = {}
      BY DEF TypeOK, InTransaction, Held
    <3>3. QED
      BY <3>1, <3>2 DEF TypeOK
  <2>3. (\A x \in Calls : OwnCompany(x) /\ OwnIds(x))'
    BY DEF OwnCompany, OwnIds
  <2>4. (\A x \in Calls : HoldsAccount(x))'
    BY SMTT(20), StorefrontAssumption DEF TypeOK, Docs, HoldsAccount, Held, StorefrontOf, OwnerOf, o
  <2>5. (\A x \in Calls : SnapshotDarkens(x))'
    BY SMTT(20), StorefrontAssumption DEF TypeOK, SnapshotDarkens, Held, StorefrontOf, OwnerOf, o
  <2>6. ClosedDarkUnlessLate'
    BY DEF ClosedDarkUnlessLate, StorefrontOf, OwnerOf
  <2>7. QED
    BY <2>2, <2>3, <2>4, <2>5, <2>6
<1>3. QED
  BY <1>1, <1>2 DEF StampOwner

(* An updateMany of the closing takes what no other transaction holds and    *)
(* nothing has changed since the snapshot.                                 *)
LEMMA DarkenKeeps ==
  ASSUME StorefrontInv, NEW c \in Calls, NEW D \in SUBSET lit[c], NEW step \in {"darkItems", "commit"},
         pc[c] \in {"darkCompanies", "darkItems"}, Darken(c, D, step),
         lit[c] \cap Companies \subseteq D \cup Held(c),
         step = "commit" => lit[c] \cap Items \subseteq D
  PROVE  StorefrontInv'
<1>1. CASE Retry(c)
  BY <1>1, RetryKeeps
<1>2. CASE /\ ~ \E d \in D : writer[d] \notin {None, c} \/ d \in touched[c]
           /\ writer' = [d \in Docs |-> IF d \in D THEN c ELSE writer[d]]
           /\ Go(c, step)
           /\ UNCHANGED <<front, req, ids, todo, lit, touched>>
  <2> USE <1>2 DEF StorefrontInv, CallInv, Go, front
  <2>1. TypeOK'
    <3>1. pc' \in [Calls -> Steps] /\ writer' \in [Docs -> Calls \cup {None}]
      BY DEF TypeOK, Steps
    <3>2. \A x \in Calls : pc'[x] \notin InTransaction => Held(x)' = {} /\ lit'[x] = {}
      BY SMTT(20) DEF TypeOK, InTransaction, Held
    <3>3. QED
      BY <3>1, <3>2 DEF TypeOK
  <2>2. (\A x \in Calls : OwnCompany(x) /\ OwnIds(x))'
    BY DEF OwnCompany, OwnIds
  <2>3. (\A x \in Calls : HoldsAccount(x))'
    BY SMTT(20), StorefrontAssumption DEF InTransaction, Docs, OwnCompany, HoldsAccount, Held,
       StorefrontOf, OwnerOf
  <2>4. (\A x \in Calls : SnapshotDarkens(x))'
    BY SMTT(20) DEF InTransaction, Docs, HoldsAccount, SnapshotDarkens, Held, StorefrontOf, OwnerOf
  <2>5. ClosedDarkUnlessLate'
    BY DEF ClosedDarkUnlessLate, StorefrontOf, OwnerOf
  <2>6. QED
    BY <2>1, <2>2, <2>3, <2>4, <2>5
<1>3. QED
  BY <1>1, <1>2 DEF Darken

LEMMA DarkenCompaniesKeeps ==
  ASSUME StorefrontInv, NEW c \in Calls, DarkenCompanies(c)
  PROVE  StorefrontInv'
BY DarkenKeeps DEF DarkenCompanies

LEMMA DarkenItemsKeeps ==
  ASSUME StorefrontInv, NEW c \in Calls, DarkenItems(c)
  PROVE  StorefrontInv'
<1>1. lit[c] \cap Companies \subseteq Held(c)
  BY DEF DarkenItems, StorefrontInv, CallInv, SnapshotDarkens
<1>2. QED
  BY <1>1, DarkenKeeps DEF DarkenItems

(* The commit leaves published of the storefront only what is late: the rest *)
(* was in the snapshot and is held.                                        *)
LEMMA CommitClosureKeeps ==
  ASSUME StorefrontInv, NEW c \in Calls, CommitClosure(c)
  PROVE  StorefrontInv'
<1> DEFINE o == req[c].owner
<1>1. /\ pc[c] = "commit" /\ o \in Owners /\ writer[o] = c /\ Held(c) \subseteq {o} \cup lit[c]
      /\ lit[c] \subseteq StorefrontOf(o) /\ lit[c] \subseteq Held(c)
      /\ published \cap StorefrontOf(o) \subseteq late \cup lit[c]
  BY SMTT(20) DEF CommitClosure, StorefrontInv, CallInv, OwnCompany, HoldsAccount, SnapshotDarkens,
     InTransaction, TypeOK
<1>2. /\ deletedBy' = [deletedBy EXCEPT ![o] = c]
      /\ published' = published \ (Held(c) \ Owners)
      /\ late' = late \ (Held(c) \ Owners)
      /\ Finish(c, Held(c))
      /\ UNCHANGED <<linkable, gone, idCompany>>
  BY DEF CommitClosure, Flag
<1>3. Held(c) \in SUBSET Docs
  BY DEF Held
<1> HIDE DEF o
<1> USE <1>1, <1>2, <1>3 DEF StorefrontInv, CallInv
<1>4. TypeOK'
  <2>1. deletedBy' \in [Owners -> Calls \cup {None}]
    BY DEF TypeOK
  <2>2. published' \subseteq Companies \cup Items /\ late' \subseteq Companies \cup Items
    BY DEF TypeOK
  <2>3. QED
    BY FinishType DEF TypeOK
<1> USE DEF Finish, Go
<1>5. (\A x \in Calls : OwnCompany(x) /\ OwnIds(x))'
  BY DEF TypeOK, OwnCompany, OwnIds
<1>6. (\A x \in Calls : HoldsAccount(x))'
  BY SMTT(20), StorefrontAssumption DEF TypeOK, InTransaction, Docs, OwnCompany, HoldsAccount,
     Release, Held, StorefrontOf, OwnerOf
<1>7. (\A x \in Calls : SnapshotDarkens(x))'
  BY SMTT(20) DEF TypeOK, InTransaction, SnapshotDarkens, Release, Held, StorefrontOf, OwnerOf
<1>8. ClosedDarkUnlessLate'
  BY SMTT(20), StorefrontAssumption DEF ClosedDarkUnlessLate, StorefrontOf, OwnerOf
<1>9. QED
  BY <1>4, <1>5, <1>6, <1>7, <1>8

-------------------------------------------------------------------------------
(* A document that is retired or moved is held by no closing; it stays the   *)
(* same owner's.                                                           *)
LEMMA DeleteKeeps ==
  ASSUME StorefrontInv, NEW d \in Companies \cup Items, Delete(d)
  PROVE  StorefrontInv'
<1> USE DEF StorefrontInv, CallInv, Delete, Touch, Behind
<1>1. TypeOK'
  BY DEF TypeOK, Held, Docs
<1>2. (\A x \in Calls : OwnCompany(x) /\ OwnIds(x))'
  BY DEF OwnCompany, OwnIds
<1>3. (\A x \in Calls : HoldsAccount(x) /\ SnapshotDarkens(x))'
  BY DEF HoldsAccount, SnapshotDarkens, Held, StorefrontOf, OwnerOf
<1>4. ClosedDarkUnlessLate'
  BY DEF ClosedDarkUnlessLate, StorefrontOf, OwnerOf
<1>5. QED
  BY <1>1, <1>2, <1>3, <1>4

LEMMA MoveKeeps ==
  ASSUME StorefrontInv, NEW i \in Items, NEW d \in Companies, Move(i, d)
  PROVE  StorefrontInv'
<1> USE DEF StorefrontInv, CallInv, Move, Touch, Behind
<1>1. TypeOK'
  BY DEF TypeOK, Held, Docs
<1>2. (\A x \in Calls : OwnCompany(x) /\ OwnIds(x))'
  BY DEF OwnCompany, OwnIds
<1>3. \A o \in Owners : StorefrontOf(o)' = StorefrontOf(o)
  BY DEF StorefrontOf, OwnerOf
<1>4. (\A x \in Calls : HoldsAccount(x) /\ SnapshotDarkens(x))'
  BY <1>3, SMTT(20) DEF InTransaction, OwnCompany, HoldsAccount, SnapshotDarkens, Held
<1>5. ClosedDarkUnlessLate'
  BY <1>3 DEF ClosedDarkUnlessLate
<1>6. QED
  BY <1>1, <1>2, <1>4, <1>5

LEMMA StutterKeeps ==
  ASSUME StorefrontInv, UNCHANGED vars
  PROVE  StorefrontInv'
BY DEF StorefrontInv, CallInv, vars, TypeOK, OwnCompany, OwnIds, HoldsAccount, SnapshotDarkens,
   ClosedDarkUnlessLate, Held, StorefrontOf, OwnerOf

LEMMA InitEstablishes ==
  ASSUME Init
  PROVE  StorefrontInv
<1> USE DEF Init
<1>1. TypeOK
  <2>1. req \in [Calls -> Requests] /\ \A c \in Calls : req[c].count = Cardinality(req[c].items)
    BY NoRequestIsRequest
  <2>2. \A c \in Calls : Held(c) = {}
    BY StorefrontAssumption DEF Held
  <2>3. QED
    BY <2>1, <2>2 DEF TypeOK, Steps
<1>2. \A c \in Calls : CallInv(c)
  BY DEF CallInv, OwnCompany, OwnIds, HoldsAccount, SnapshotDarkens, InTransaction
<1>3. QED
  BY <1>1, <1>2 DEF StorefrontInv, ClosedDarkUnlessLate

LEMMA StepKeeps ==
  ASSUME StorefrontInv, [Next]_vars
  PROVE  StorefrontInv'
<1>1. ASSUME NEW c \in Calls, Call(c)
      PROVE  StorefrontInv'
  BY <1>1, StartCompanyKeeps, StartItemsKeeps, shopOwnerDelKeeps,
     throwIfShopOwnerDontOwnCompanyKeeps, funCompanyUpdatePublishedKeeps, funCompanyUpdateKeeps,
     ReadCompanyIdsKeeps, throwIfShopOwnerDontOwnAllItemsKeeps, FlagItemKeeps, RefuseKeeps,
     StampOwnerKeeps, DarkenCompaniesKeeps, DarkenItemsKeeps, CommitClosureKeeps DEF Call,
     AnswerItems, Fail
<1>2. QED
  BY <1>1, DeleteKeeps, MoveKeeps, StutterKeeps DEF Next

(* The inductive invariant, of every behaviour.                             *)
THEOREM StorefrontInvariance == Spec => []StorefrontInv
<1>1. Init => StorefrontInv
  BY InitEstablishes
<1>2. StorefrontInv /\ [Next]_vars => StorefrontInv'
  BY StepKeeps
<1>3. QED
  BY <1>1, <1>2, PTL DEF Spec

(* TypeOK: shapes, a bulk call that counts documents and not the entries of  *)
(* its list, and locks in the hands of open transactions only.             *)
THEOREM StorefrontTypes == Spec => []TypeOK
<1>1. StorefrontInv => TypeOK
  BY DEF StorefrontInv
<1>2. QED
  BY <1>1, StorefrontInvariance, PTL

(* Of a closed owner nothing is published but what a call published during   *)
(* the closing or after it, for any number of calls and closings at once.  *)
THEOREM ClosingDarkensTheStorefront == Spec => []ClosedDarkUnlessLate
<1>1. StorefrontInv => ClosedDarkUnlessLate
  BY DEF StorefrontInv
<1>2. QED
  BY <1>1, StorefrontInvariance, PTL

(* A commit closes an open account: the call holds it since its stamp.       *)
THEOREM StampedOnce == Spec => ClosedOnce
<1> DEFINE Kept == \A o \in Owners : deletedBy[o] # None => deletedBy'[o] = deletedBy[o]
<1>1. ASSUME StorefrontInv, NEW c \in Calls, CommitClosure(c)
      PROVE  Kept
  BY <1>1 DEF StorefrontInv, CallInv, HoldsAccount, InTransaction, CommitClosure
<1>2. ASSUME StorefrontInv, [Next]_vars
      PROVE  [Kept]_deletedBy
  <2>1. ASSUME NEW c \in Calls, Call(c)
        PROVE  CommitClosure(c) \/ UNCHANGED deletedBy
    BY <2>1 DEF Call, StartCompany, StartItems, shopOwnerDel, Start, front,
       throwIfShopOwnerDontOwnCompany, funCompanyUpdatePublished, funCompanyUpdate, ReadCompanyIds,
       throwIfShopOwnerDontOwnAllItems, FlagItem, AnswerItems, Fail, Refuse, StampOwner,
       DarkenCompanies, DarkenItems, Darken, Retry
  <2>2. QED
    BY <1>1, <1>2, <2>1 DEF Next, Delete, Move, vars
<1>3. QED
  BY <1>2, StorefrontInvariance, PTL DEF Spec, ClosedOnce

(* Only funCompanyUpdatePublished, FlagItem and CommitClosure write a flag,    *)
(* each of a document its call's owner has: by the guard, which no later     *)
(* move undoes, by the ids read, or by the snapshot it holds.              *)
THEOREM FlagsAreTheOwners == Spec => OnlyOwnFlags
<1> DEFINE Own == \A d \in Companies \cup Items :
                    (d \in published) # (d \in published') =>
                      \E c \in Calls : /\ <<pc[c], todo[c]>> # <<pc'[c], todo'[c]>>
                                      /\ req[c].owner = OwnerOf(d)
<1>1. ASSUME StorefrontInv, NEW c \in Calls, funCompanyUpdatePublished(c)
      PROVE  Own
  <2>1. req[c].company \in Companies /\ idShopOwner[req[c].company] = req[c].owner /\ req[c].company \notin Items
    BY <1>1, StorefrontAssumption DEF StorefrontInv, CallInv, OwnCompany, funCompanyUpdatePublished
  <2>2. published' \subseteq published \cup {req[c].company} /\ published \subseteq published' \cup {req[c].company}
    BY <1>1 DEF funCompanyUpdatePublished, Refuse, Flag
  <2>3. pc[c] # pc'[c]
    BY <1>1 DEF StorefrontInv, TypeOK, funCompanyUpdatePublished, Refuse, Finish, Go
  <2>4. QED
    BY <2>1, <2>2, <2>3 DEF OwnerOf
<1>2. ASSUME StorefrontInv, NEW c \in Calls, FlagItem(c)
      PROVE  Own
  <2>1. PICK i \in todo[c] :
          /\ todo' = [todo EXCEPT ![c] = @ \ {i}]
          /\ \/ published' = published
             \/ idCompany[i] \in ids[c] /\ Flag({i}, req[c].flag)
    BY <1>2 DEF FlagItem
  <2>2. i \in Items /\ todo'[c] # todo[c]
    BY <1>2, <2>1 DEF StorefrontInv, TypeOK
  <2>3. idCompany[i] \in ids[c] => OwnerOf(i) = req[c].owner
    BY <1>2, <2>2 DEF StorefrontInv, CallInv, OwnIds, OwnerOf
  <2>4. QED
    BY <2>1, <2>2, <2>3 DEF Flag
<1>3. ASSUME StorefrontInv, NEW c \in Calls, CommitClosure(c)
      PROVE  Own
  <2>1. pc[c] = "commit" /\ pc'[c] = "idle" /\ published' = published \ (Held(c) \ Owners)
    BY <1>3 DEF StorefrontInv, TypeOK, CommitClosure, Finish, Go, Flag
  <2>2. \A d \in Held(c) \ Owners : OwnerOf(d) = req[c].owner
    BY <1>3, <2>1 DEF StorefrontInv, CallInv, OwnCompany, HoldsAccount, InTransaction, StorefrontOf
  <2>3. QED
    BY <2>1, <2>2
<1>4. ASSUME NEW c \in Calls, Call(c)
      PROVE  funCompanyUpdatePublished(c) \/ FlagItem(c) \/ CommitClosure(c) \/ UNCHANGED published
  BY <1>4 DEF Call, StartCompany, StartItems, shopOwnerDel, Start, front,
     throwIfShopOwnerDontOwnCompany, funCompanyUpdate, ReadCompanyIds,
     throwIfShopOwnerDontOwnAllItems, AnswerItems, Fail, Refuse, StampOwner, DarkenCompanies,
     DarkenItems, Darken, Retry
<1>5. ASSUME StorefrontInv, [Next]_vars
      PROVE  [Own]_published
  <2>1. ASSUME NEW c \in Calls, Call(c)
        PROVE  Own \/ UNCHANGED published
    <3> HIDE DEF Own
    <3>1. QED
      BY <1>1, <1>2, <1>3, <1>4, <1>5, <2>1
  <2> HIDE DEF Own
  <2>2. QED
    BY <1>5, <2>1 DEF Next, Delete, Move, vars
<1>6. QED
  BY <1>5, StorefrontInvariance, PTL DEF Spec, OnlyOwnFlags

-------------------------------------------------------------------------------
(* Showcase.  The closing's commit hides exactly what is shown and not fresh *)
(* only if a document the snapshot found is as it was, or touched; what is  *)
(* held is not touched; and nothing is late but for a closing.             *)
Untouched(c) ==
  /\ touched[c] \subseteq lit[c]
  /\ lit[c] \ touched[c] \subseteq published \ late
  /\ Held(c) \cap touched[c] = {}

LateIsFresh == \A d \in late : Closing(OwnerOf(d))

FreshInv == LateIsFresh /\ \A c \in Calls : Untouched(c)

(* A step of no transaction: it writes documents D, which no transaction     *)
(* holds, and those that have read them are behind.                        *)
Outside(D) ==
  /\ D \subseteq Docs /\ \A d \in D : writer[d] = None
  /\ UNCHANGED deletedBy
  /\ published' \ D = published \ D /\ late' \ D = late \ D
  /\ \A d \in late' : d \in late \/ Closing(OwnerOf(d))
  /\ \A d \in Docs : writer'[d] = writer[d]
  /\ \A x \in Calls :
       /\ lit'[x] = lit[x] /\ touched'[x] = touched[x] \cup (D \cap lit[x])
       /\ pc'[x] = pc[x] \/ {pc[x], pc'[x]} \cap InTransaction = {}
       /\ pc[x] \in InTransaction => req'[x] = req[x]
  /\ \A d \in Companies \cup Items : OwnerOf(d)' = OwnerOf(d)

LEMMA OutsideClosing ==
  ASSUME NEW D, Outside(D)
  PROVE  Closed' = Closed /\ InClosing' = InClosing /\ \A o \in Owners : Closing(o)' = Closing(o)
<1>1. \A o : (\E x \in Calls : pc[x] \in InTransaction /\ req[x].owner = o)'
             = (\E x \in Calls : pc[x] \in InTransaction /\ req[x].owner = o)
  BY DEF Outside, InTransaction
<1>2. QED
  BY <1>1 DEF Outside, Closed, InClosing, Closing

LEMMA OwnersOwn ==
  ASSUME TypeOK, NEW d \in Companies \cup Items
  PROVE  OwnerOf(d) \in Owners
BY StorefrontAssumption DEF TypeOK, OwnerOf

LEMMA OutsideKeepsFresh ==
  ASSUME StorefrontInv, StorefrontInv', FreshInv, NEW D, Outside(D)
  PROVE  FreshInv'
<1>1. ASSUME NEW x \in Calls
      PROVE  Untouched(x)'
  <2>1. touched[x] \subseteq lit[x] /\ lit[x] \ touched[x] \subseteq published \ late
    BY DEF FreshInv, Untouched
  <2>2. Held(x)' = Held(x) /\ Held(x) \cap D = {} /\ Held(x) \cap touched[x] = {}
    BY StorefrontAssumption DEF Held, FreshInv, Untouched, Outside
  <2>3. lit'[x] = lit[x] /\ touched'[x] = touched[x] \cup (D \cap lit[x])
    BY DEF Outside
  <2>4. published' \ D = published \ D /\ late' \ D = late \ D
    BY DEF Outside
  <2>5. QED
    BY <2>1, <2>2, <2>3, <2>4 DEF Untouched
<1>2. ASSUME NEW d \in late'
      PROVE  Closing(OwnerOf(d))'
  <2>1. d \in Companies \cup Items
    BY DEF StorefrontInv, TypeOK
  <2>2. Closing(OwnerOf(d))
    BY DEF Outside, FreshInv, LateIsFresh
  <2>3. OwnerOf(d) \in Owners /\ OwnerOf(d)' = OwnerOf(d)
    BY <2>1, OwnersOwn DEF StorefrontInv, Outside
  <2>4. QED
    BY <2>2, <2>3, OutsideClosing
<1>3. QED
  BY <1>1, <1>2 DEF FreshInv, LateIsFresh

(* What Showcase may see of such a step is a flag or a card.                *)
LEMMA OutsideShows ==
  ASSUME NEW D, Outside(D)
  PROVE  UNCHANGED <<[d \in Companies \cup Items |-> OwnerOf(d)], InClosing, Closed>>
BY OutsideClosing DEF Outside

(* A call outside of a transaction ends: it holds nothing and read nothing   *)
(* that could be behind.                                                   *)
LEMMA FinishOutside ==
  ASSUME StorefrontInv, FreshInv, NEW c \in Calls, pc[c] \notin InTransaction,
         NEW D \in SUBSET Docs, \A d \in D : writer[d] = None, Finish(c, D),
         UNCHANGED <<deletedBy, idCompany>>,
         published' \ D = published \ D, late' \ D = late \ D,
         \A d \in late' : d \in late \/ Closing(OwnerOf(d))
  PROVE  Outside(D)
<1>1. lit[c] = {} /\ touched[c] = {} /\ Held(c) = {}
  BY DEF StorefrontInv, TypeOK, FreshInv, Untouched
<1>2. \A d \in Docs : writer'[d] = writer[d]
  BY <1>1 DEF Finish, Release, Held
<1>3. ASSUME NEW x \in Calls
      PROVE  /\ lit'[x] = lit[x] /\ touched'[x] = touched[x] \cup (D \cap lit[x])
             /\ pc'[x] = pc[x] \/ {pc[x], pc'[x]} \cap InTransaction = {}
             /\ pc[x] \in InTransaction => req'[x] = req[x]
  <2>1. CASE x = c
    BY <1>1, <2>1 DEF StorefrontInv, TypeOK, Finish, Go, Behind, InTransaction
  <2>2. CASE x # c
    BY <2>2 DEF StorefrontInv, TypeOK, Finish, Go, Behind
  <2>3. QED
    BY <2>1, <2>2
<1>4. \A d \in Companies \cup Items : OwnerOf(d)' = OwnerOf(d)
  BY DEF OwnerOf
<1>5. QED
  BY <1>2, <1>3, <1>4 DEF Outside

(* A step of a call that reads, or goes on to its next round trip.          *)
LEMMA ReadOutside ==
  ASSUME StorefrontInv, NEW c \in Calls, NEW step, {pc[c], step} \cap InTransaction = {},
         Go(c, step), \A x \in Calls : x = c \/ req'[x] = req[x],
         UNCHANGED <<front, writer, lit, touched>>
  PROVE  Outside({}) /\ UNCHANGED Abstract!showcaseVars
<1>1. ASSUME NEW x \in Calls
      PROVE  /\ pc'[x] = pc[x] \/ {pc[x], pc'[x]} \cap InTransaction = {}
             /\ pc[x] \in InTransaction => req'[x] = req[x]
  BY DEF StorefrontInv, TypeOK, Go
<1>2. Outside({})
  BY <1>1 DEF Outside, front, OwnerOf
<1>3. QED
  BY <1>2, OutsideShows DEF Abstract!showcaseVars, front

(* What each step of a call does to the shop, and that it keeps FreshInv.   *)
Shows == FreshInv' /\ [Abstract!ShowcaseNext]_(Abstract!showcaseVars)

LEMMA ReadShows ==
  ASSUME StorefrontInv, StorefrontInv', FreshInv, NEW c \in Calls,
         \/ StartCompany(c) \/ StartItems(c) \/ shopOwnerDel(c) \/ ReadCompanyIds(c)
         \/ throwIfShopOwnerDontOwnCompany(c) /\ ~ Refuse(c)
         \/ throwIfShopOwnerDontOwnAllItems(c) /\ ~ Refuse(c)
  PROVE  Shows
<1>1. ASSUME NEW r, NEW step \in {"guardCompany", "readIds", "stamp"}, Start(c, r, step)
      PROVE  Shows
  <2>1. {pc[c], step} \cap InTransaction = {} /\ \A x \in Calls : x = c \/ req'[x] = req[x]
    BY <1>1 DEF Start, InTransaction, StorefrontInv, TypeOK
  <2>2. QED
    BY <1>1, <2>1, ReadOutside, OutsideKeepsFresh DEF Start, Shows
<1>2. CASE ReadCompanyIds(c)
  <2>1. PICK step \in {"countItems", "flagItems"} : Go(c, step)
    BY <1>2 DEF ReadCompanyIds
  <2>2. {pc[c], step} \cap InTransaction = {}
    BY <1>2 DEF ReadCompanyIds, InTransaction
  <2>3. QED
    BY <1>2, <2>1, <2>2, ReadOutside, OutsideKeepsFresh DEF ReadCompanyIds, Shows
<1>3. CASE throwIfShopOwnerDontOwnCompany(c) /\ ~ Refuse(c)
  <2>1. {pc[c], req[c].op} \cap InTransaction = {}
    BY <1>3 DEF throwIfShopOwnerDontOwnCompany, InTransaction, StorefrontInv, CallInv, OwnCompany
  <2>2. QED
    BY <1>3, <2>1, ReadOutside, OutsideKeepsFresh DEF throwIfShopOwnerDontOwnCompany, Shows
<1>4. CASE throwIfShopOwnerDontOwnAllItems(c) /\ ~ Refuse(c)
  <2>1. {pc[c], "rereadIds"} \cap InTransaction = {}
    BY <1>4 DEF throwIfShopOwnerDontOwnAllItems, InTransaction
  <2>2. QED
    BY <1>4, <2>1, ReadOutside, OutsideKeepsFresh DEF throwIfShopOwnerDontOwnAllItems, Shows
<1>5. QED
  BY <1>1, <1>2, <1>3, <1>4 DEF StartCompany, StartItems, shopOwnerDel

(* A flag that changes is Show or Hide.                                     *)
LEMMA FlagShows ==
  ASSUME StorefrontInv, StorefrontInv', FreshInv, NEW d \in Companies \cup Items, NEW b \in BOOLEAN,
         Outside({d}), Flag({d}, b), UNCHANGED linkable, b # (d \in published),
         b /\ d \in Companies => d \in linkable
  PROVE  Shows
<1>1. OwnerOf(d) \in Owners
  BY OwnersOwn DEF StorefrontInv
<1>2. Closing(OwnerOf(d)) <=> OwnerOf(d) \in InClosing \cup Closed
  BY <1>1 DEF Closing, InClosing, Closed
<1>3. CASE b
  <2>1. Abstract!Show(d)
    BY <1>2, <1>3, OutsideShows DEF Abstract!Show, Flag
  <2>2. QED
    BY <2>1, OutsideKeepsFresh DEF Shows, Abstract!ShowcaseNext
<1>4. CASE ~ b
  <2>1. Abstract!Hide(d)
    BY <1>4, OutsideShows DEF Abstract!Hide, Flag
  <2>2. QED
    BY <2>1, OutsideKeepsFresh DEF Shows, Abstract!ShowcaseNext
<1>5. QED
  BY <1>3, <1>4

LEMMA funCompanyUpdatePublishedShows ==
  ASSUME StorefrontInv, StorefrontInv', FreshInv, NEW c \in Calls,
         funCompanyUpdatePublished(c), ~ Refuse(c)
  PROVE  Shows
<1> DEFINE d == req[c].company
<1>1. /\ ~ (req[c].flag = (d \in published) \/ (req[c].flag /\ d \notin linkable))
      /\ writer[d] = None /\ Flag({d}, req[c].flag) /\ Finish(c, {d})
      /\ UNCHANGED <<deletedBy, linkable, gone, idCompany>>
  BY DEF funCompanyUpdatePublished
<1>2. pc[c] \notin InTransaction /\ d \in Companies /\ {d} \in SUBSET Docs /\ req[c].flag \in BOOLEAN
  BY DEF funCompanyUpdatePublished, InTransaction, StorefrontInv, CallInv, OwnCompany, TypeOK,
     Requests, Docs
<1>3. /\ published' \ {d} = published \ {d} /\ late' \ {d} = late \ {d}
      /\ \A e \in late' : e \in late \/ Closing(OwnerOf(e))
  BY <1>1 DEF Flag
<1> HIDE DEF d
<1>4. Outside({d})
  BY <1>1, <1>2, <1>3, FinishOutside
<1>5. QED
  BY <1>1, <1>2, <1>4, FlagShows

LEMMA funCompanyUpdateShows ==
  ASSUME StorefrontInv, StorefrontInv', FreshInv, NEW c \in Calls,
         funCompanyUpdate(c), ~ Refuse(c)
  PROVE  Shows
<1> DEFINE d == req[c].company
<1>1. /\ ~ (d \in published /\ ~ req[c].flag)
      /\ writer[d] = None /\ Finish(c, {d})
      /\ linkable' = IF req[c].flag THEN linkable \cup {d} ELSE linkable \ {d}
      /\ UNCHANGED <<deletedBy, published, gone, idCompany, late>>
  BY DEF funCompanyUpdate
<1>2. pc[c] \notin InTransaction /\ d \in Companies /\ {d} \in SUBSET Docs
  BY DEF funCompanyUpdate, InTransaction, StorefrontInv, CallInv, OwnCompany, Docs
<1> HIDE DEF d
<1>3. Outside({d})
  BY <1>1, <1>2, FinishOutside
<1>4. Abstract!Edit(d)
  BY <1>1, <1>3, OutsideShows DEF Abstract!Edit
<1>5. QED
  BY <1>2, <1>3, <1>4, OutsideKeepsFresh DEF Shows, Abstract!ShowcaseNext

LEMMA FlagItemShows ==
  ASSUME StorefrontInv, StorefrontInv', FreshInv, NEW c \in Calls, FlagItem(c)
  PROVE  Shows
<1>1. PICK i \in todo[c] :
        IF idCompany[i] \notin ids[c] \/ req[c].flag = (i \in published)
        THEN UNCHANGED <<published, late, touched>>
        ELSE writer[i] = None /\ Flag({i}, req[c].flag) /\ Touch(c, {i})
  BY DEF FlagItem
<1>2. UNCHANGED <<deletedBy, linkable, gone, idCompany, writer, pc, req, ids, lit>>
  BY DEF FlagItem
<1>3. i \in Items /\ req[c].flag \in BOOLEAN /\ lit[c] = {}
  BY DEF StorefrontInv, TypeOK, Requests, FlagItem, InTransaction
<1>4. \A d \in Companies \cup Items : OwnerOf(d)' = OwnerOf(d)
  BY <1>2 DEF OwnerOf
<1>5. CASE UNCHANGED <<published, late, touched>>
  <2>1. Outside({})
    BY <1>2, <1>4, <1>5 DEF Outside
  <2>2. UNCHANGED Abstract!showcaseVars
    BY <1>2, <1>5, <2>1, OutsideShows DEF Abstract!showcaseVars
  <2>3. QED
    BY <2>1, <2>2, OutsideKeepsFresh DEF Shows
<1>6. CASE /\ req[c].flag # (i \in published)
           /\ writer[i] = None /\ Flag({i}, req[c].flag) /\ Touch(c, {i})
  <2>1. \A x \in Calls : touched'[x] = touched[x] \cup ({i} \cap lit[x])
    BY <1>3, <1>6 DEF Touch, Behind
  <2>2. /\ published' \ {i} = published \ {i} /\ late' \ {i} = late \ {i}
        /\ \A e \in late' : e \in late \/ Closing(OwnerOf(e))
    BY <1>6 DEF Flag
  <2>3. Outside({i})
    BY <1>2, <1>3, <1>4, <1>6, <2>1, <2>2 DEF Outside, Docs
  <2>4. QED
    BY <1>2, <1>3, <1>6, <2>3, StorefrontAssumption, FlagShows
<1>7. QED
  BY <1>1, <1>5, <1>6

-------------------------------------------------------------------------------
(* At most one closing of an account is in its transaction, and the account  *)
(* is open; so what it has read and what it holds is no other closing's.    *)
LEMMA OneClosing ==
  ASSUME StorefrontInv, NEW c \in Calls, pc[c] \in InTransaction
  PROVE  /\ req[c].owner \in Owners /\ deletedBy[req[c].owner] = None
         /\ writer[req[c].owner] = c
         /\ \A x \in Calls : pc[x] \in InTransaction /\ req[x].owner = req[c].owner => x = c
         /\ \A x \in Calls : x # c => lit[x] \cap StorefrontOf(req[c].owner) = {}
<1>1. \A x \in Calls : pc[x] \in InTransaction =>
        /\ req[x].owner \in Owners /\ writer[req[x].owner] = x /\ deletedBy[req[x].owner] = None
        /\ lit[x] \subseteq StorefrontOf(req[x].owner)
  BY DEF StorefrontInv, CallInv, OwnCompany, HoldsAccount, InTransaction
<1>2. \A x \in Calls : pc[x] \notin InTransaction => lit[x] = {}
  BY DEF StorefrontInv, TypeOK
<1>3. QED
  BY <1>1, <1>2 DEF StorefrontOf

(* An attempt that aborts or fails is GiveUp: no flag has changed, and of    *)
(* that storefront nothing is late any more.                               *)
GivesUp(c) ==
  /\ pc[c] \in InTransaction
  /\ \A x \in Calls : IF x = c THEN pc'[x] \notin InTransaction /\ touched'[x] = {}
                      ELSE pc'[x] = pc[x] /\ req'[x] = req[x] /\ lit'[x] = lit[x] /\ touched'[x] = touched[x]
  /\ Release(c)
  /\ late' = late \ StorefrontOf(req[c].owner)
  /\ UNCHANGED <<deletedBy, published, linkable, gone, idCompany>>

LEMMA GiveUpShows ==
  ASSUME StorefrontInv, StorefrontInv', FreshInv, NEW c \in Calls, GivesUp(c)
  PROVE  Shows
<1> DEFINE o == req[c].owner
<1>1. /\ o \in Owners /\ deletedBy[o] = None
      /\ \A x \in Calls : pc[x] \in InTransaction /\ req[x].owner = o => x = c
      /\ \A x \in Calls : x # c => lit[x] \cap StorefrontOf(o) = {}
  BY OneClosing DEF GivesUp
<1>2. \A d \in Companies \cup Items : OwnerOf(d)' = OwnerOf(d)
  BY DEF GivesUp, OwnerOf
<1>3. late \subseteq Companies \cup Items /\ late' = late \ StorefrontOf(o)
  BY DEF StorefrontInv, TypeOK, GivesUp
<1>4. None \notin Calls
  BY StorefrontAssumption
<1> HIDE DEF o
<1>5. \A p \in Owners : p # o => Closing(p)' = Closing(p)
  BY DEF GivesUp, Closing, o
<1>6. InClosing' = InClosing \ {o} /\ o \in InClosing /\ Closed' = Closed
  BY <1>1 DEF GivesUp, InClosing, Closed, o
<1>7. ASSUME NEW x \in Calls
      PROVE  Untouched(x)'
  <2>1. CASE x = c
    BY <2>1 DEF StorefrontInv, TypeOK, GivesUp, Untouched
  <2>2. CASE x # c
    <3>1. Held(x)' = Held(x)
      BY <2>2, <1>4 DEF GivesUp, Release, Held
    <3>2. QED
      BY <2>2, <3>1, <1>1, <1>3 DEF FreshInv, Untouched, GivesUp
  <2>3. QED
    BY <2>1, <2>2
<1>8. LateIsFresh'
  <2>1. ASSUME NEW d \in late'
        PROVE  Closing(OwnerOf(d))'
    <3>1. d \in late /\ d \in Companies \cup Items /\ OwnerOf(d) # o
      BY <1>3 DEF StorefrontOf
    <3>2. Closing(OwnerOf(d)) /\ OwnerOf(d) \in Owners /\ OwnerOf(d)' = OwnerOf(d)
      BY <3>1, <1>2, OwnersOwn DEF FreshInv, LateIsFresh, StorefrontInv
    <3>3. QED
      BY <3>1, <3>2, <1>5
  <2>2. QED
    BY <2>1 DEF LateIsFresh
<1>9. StorefrontOf(o) \cap late = Abstract!ShopOf(o) \cap late
  BY <1>3 DEF StorefrontOf, Abstract!ShopOf
<1>10. Abstract!GiveUp(o)
  BY <1>2, <1>3, <1>6, <1>9 DEF Abstract!GiveUp, GivesUp
<1>11. QED
  BY <1>1, <1>7, <1>8, <1>10 DEF Shows, FreshInv, Abstract!ShowcaseNext

LEMMA RefuseShows ==
  ASSUME StorefrontInv, StorefrontInv', FreshInv, NEW c \in Calls, Refuse(c)
  PROVE  Shows
<1>1. CASE pc[c] \in InTransaction
  <2>1. GivesUp(c)
    BY <1>1 DEF Refuse, Finish, Go, Behind, NotLate, GivesUp, StorefrontInv, TypeOK, InTransaction
  <2>2. QED
    BY <2>1, GiveUpShows
<1>2. CASE pc[c] \notin InTransaction
  <2>1. UNCHANGED <<deletedBy, published, linkable, gone, idCompany, late>> /\ Finish(c, {})
    BY <1>2 DEF Refuse, NotLate
  <2>2. Outside({})
    BY <1>2, <2>1, FinishOutside
  <2>3. UNCHANGED Abstract!showcaseVars
    BY <2>1, <2>2, OutsideShows DEF Abstract!showcaseVars
  <2>4. QED
    BY <2>2, <2>3, OutsideKeepsFresh DEF Shows
<1>3. QED
  BY <1>1, <1>2

(* The stamp is Look: nothing of an open account that nobody is closing is   *)
(* late.                                                                   *)
LEMMA StampOwnerShows ==
  ASSUME StorefrontInv, StorefrontInv', FreshInv, NEW c \in Calls, StampOwner(c), ~ Refuse(c)
  PROVE  Shows
<1> DEFINE o == req[c].owner
<1>1. /\ pc[c] = "stamp" /\ o \in Owners /\ deletedBy[o] = None /\ writer[o] = None
      /\ writer' = [writer EXCEPT ![o] = c]
      /\ lit' = [lit EXCEPT ![c] = published \cap StorefrontOf(o)]
      /\ Go(c, "darkCompanies")
      /\ UNCHANGED <<front, req, ids, todo, touched>>
  BY DEF StampOwner, StorefrontInv, CallInv, OwnCompany
<1>2. \A d \in Companies \cup Items : OwnerOf(d)' = OwnerOf(d)
  BY <1>1 DEF front, OwnerOf
<1>3. ~ Closing(o)
  BY <1>1, OneClosing, StorefrontAssumption DEF Closing
<1>4. pc' = [pc EXCEPT ![c] = "darkCompanies"] /\ pc \in [Calls -> Steps]
  BY <1>1 DEF Go, StorefrontInv, TypeOK
<1>5. late' = late /\ late \cap StorefrontOf(o) = {}
  BY <1>1, <1>3 DEF front, FreshInv, LateIsFresh, StorefrontOf
<1> HIDE DEF o
<1>6. \A p : Closing(p) => Closing(p)'
  BY <1>1, <1>4 DEF Closing, front, InTransaction
<1>7. InClosing' = InClosing \cup {o} /\ o \notin InClosing \cup Closed /\ Closed' = Closed
  BY <1>1, <1>3, <1>4 DEF InClosing, Closed, Closing, front, InTransaction, o
<1>8. ASSUME NEW x \in Calls
      PROVE  Untouched(x)'
  <2>1. CASE x = c
    <3>1. touched'[x] = {} /\ lit'[x] = published \cap StorefrontOf(o)
      BY <1>1, <2>1 DEF StorefrontInv, TypeOK, FreshInv, Untouched, InTransaction
    <3>2. QED
      BY <3>1, <1>1, <1>5 DEF Untouched, front
  <2>2. CASE x # c
    <3>1. Held(x)' = Held(x) /\ lit'[x] = lit[x]
      BY <1>1, <2>2, StorefrontAssumption DEF StorefrontInv, TypeOK, Held, Docs
    <3>2. QED
      BY <1>1, <3>1 DEF FreshInv, Untouched, front
  <2>3. QED
    BY <2>1, <2>2
<1>9. LateIsFresh'
  <2>1. ASSUME NEW d \in late'
        PROVE  Closing(OwnerOf(d))'
    <3>1. d \in late /\ d \in Companies \cup Items
      BY <1>5 DEF StorefrontInv, TypeOK
    <3>2. Closing(OwnerOf(d)) /\ OwnerOf(d)' = OwnerOf(d)
      BY <3>1, <1>2 DEF FreshInv, LateIsFresh
    <3>3. Closing(OwnerOf(d))'
      BY <3>2, <1>6
    <3>4. QED
      BY <3>3
  <2>2. QED
    BY <2>1 DEF LateIsFresh
<1>10. Abstract!Look(o)
  BY <1>1, <1>2, <1>7 DEF Abstract!Look, front
<1>11. QED
  BY <1>1, <1>8, <1>9, <1>10 DEF Shows, FreshInv, Abstract!ShowcaseNext

(* The updateManys of the closing write nothing that the others see.        *)
LEMMA DarkenShows ==
  ASSUME StorefrontInv, StorefrontInv', FreshInv, NEW c \in Calls, NEW D \in SUBSET lit[c],
         NEW step \in {"darkItems", "commit"}, pc[c] \in {"darkCompanies", "darkItems"},
         Darken(c, D, step)
  PROVE  Shows
<1>1. pc[c] \in InTransaction /\ step \in InTransaction
  BY DEF InTransaction
<1>2. CASE Retry(c)
  <2>1. GivesUp(c)
    BY <1>1, <1>2 DEF Retry, Go, NotLate, GivesUp, StorefrontInv, TypeOK, InTransaction
  <2>2. QED
    BY <2>1, GiveUpShows
<1>3. CASE /\ \A d \in D : writer[d] \in {None, c} /\ d \notin touched[c]
           /\ writer' = [d \in Docs |-> IF d \in D THEN c ELSE writer[d]]
           /\ Go(c, step)
           /\ UNCHANGED <<front, req, ids, todo, lit, touched>>
  <2>1. \A d \in Companies \cup Items : OwnerOf(d)' = OwnerOf(d)
    BY <1>3 DEF front, OwnerOf
  <2>2. \A x \in Calls : pc'[x] \in InTransaction <=> pc[x] \in InTransaction
    BY <1>1, <1>3 DEF Go, StorefrontInv, TypeOK
  <2>3. InClosing' = InClosing /\ Closed' = Closed /\ \A p : Closing(p)' = Closing(p)
    BY <1>3, <2>2 DEF InClosing, Closed, Closing, front
  <2>4. ASSUME NEW x \in Calls
        PROVE  Untouched(x)'
    <3>1. Held(x)' \subseteq Held(x) \cup (IF x = c THEN D ELSE {})
      BY <1>3 DEF Held
    <3>2. QED
      BY <1>3, <3>1 DEF FreshInv, Untouched, front
  <2>5. LateIsFresh'
    <3>1. late' = late /\ late \subseteq Companies \cup Items
      BY <1>3 DEF front, StorefrontInv, TypeOK
    <3>2. QED
      BY <2>1, <2>3, <3>1 DEF FreshInv, LateIsFresh
  <2>6. UNCHANGED Abstract!showcaseVars
    BY <1>3, <2>1, <2>3 DEF Abstract!showcaseVars, front
  <2>7. QED
    BY <2>4, <2>5, <2>6 DEF Shows, FreshInv
<1>4. QED
  BY <1>2, <1>3 DEF Darken

(* The commit is Close: the snapshot, all held and so untouched, is what the *)
(* shop shows and is not late.                                             *)
LEMMA CommitClosureShows ==
  ASSUME StorefrontInv, StorefrontInv', FreshInv, NEW c \in Calls, CommitClosure(c)
  PROVE  Shows
<1> DEFINE o == req[c].owner
           D == Held(c) \ Owners
<1>1. /\ pc[c] = "commit" /\ pc[c] \in InTransaction
      /\ deletedBy' = [deletedBy EXCEPT ![o] = c]
      /\ published' = published \ D /\ late' = late \ D
      /\ Finish(c, Held(c))
      /\ UNCHANGED <<linkable, gone, idCompany>>
  BY DEF CommitClosure, Flag, InTransaction
<1>2. /\ o \in Owners /\ deletedBy[o] = None
      /\ \A x \in Calls : pc[x] \in InTransaction /\ req[x].owner = o => x = c
      /\ \A x \in Calls : x # c => lit[x] \cap StorefrontOf(o) = {}
  BY <1>1, OneClosing
<1>3. /\ Held(c) \subseteq {o} \cup lit[c] /\ lit[c] \subseteq StorefrontOf(o) /\ lit[c] \subseteq Held(c)
      /\ published \cap StorefrontOf(o) \subseteq late \cup lit[c]
  BY <1>1, SMTT(20) DEF StorefrontInv, CallInv, HoldsAccount, SnapshotDarkens, TypeOK
<1>4. D = lit[c] /\ lit[c] \subseteq published \ late
  BY <1>2, <1>3, StorefrontAssumption DEF FreshInv, Untouched, StorefrontOf
<1>5. late' = late /\ published' = published \ (StorefrontOf(o) \ late)
  BY <1>1, <1>3, <1>4
<1>6. \A d \in Companies \cup Items : OwnerOf(d)' = OwnerOf(d)
  BY <1>1 DEF OwnerOf
<1>7. /\ pc' = [pc EXCEPT ![c] = "idle"] /\ pc \in [Calls -> Steps] /\ c # None
      /\ \A x \in Calls : x # c => req'[x] = req[x] /\ lit'[x] = lit[x]
      /\ lit'[c] = {} /\ touched'[c] = {}
  BY <1>1, StorefrontAssumption DEF Finish, Go, Behind, StorefrontInv, TypeOK
<1> HIDE DEF o, D
<1>8. Closed' = Closed \cup {o} /\ o \in InClosing /\ InClosing' = InClosing \ {o}
  <2>1. Closed' = Closed \cup {o}
    BY <1>1, <1>2, <1>7 DEF Closed, StorefrontInv, TypeOK
  <2>2. o \in InClosing
    BY <1>1, <1>2 DEF InClosing, o
  <2>3. InClosing' = InClosing \ {o}
    BY <1>1, <1>2, <1>7 DEF InClosing, InTransaction, o
  <2>4. QED
    BY <2>1, <2>2, <2>3
<1>9. \A p \in Owners : Closing(p) => Closing(p)'
  BY <1>8 DEF Closing, Closed, InClosing
<1>10. ASSUME NEW x \in Calls
       PROVE  Untouched(x)'
  <2>1. CASE x = c
    <3>1. Held(x)' = {}
      BY <1>1, <1>7, <2>1 DEF Finish, Release, Held
    <3>2. QED
      BY <1>7, <2>1, <3>1 DEF Untouched
  <2>2. CASE x # c
    <3>1. Held(x)' = Held(x)
      BY <1>1, <2>2, StorefrontAssumption DEF Finish, Release, Held
    <3>2. touched'[x] = touched[x]
      <4>1. touched'[x] = touched[x] \cup (Held(c) \cap lit[x])
        BY <1>1, <2>2 DEF Finish, Behind
      <4>2. Held(c) \cap lit[x] = {}
        BY <1>2, <1>3, <2>2, StorefrontAssumption DEF StorefrontInv, TypeOK
      <4>3. QED
        BY <4>1, <4>2
    <3>3. lit[x] \cap lit[c] = {}
      BY <1>2, <1>3, <2>2
    <3>4. QED
      BY <1>1, <1>4, <1>5, <1>7, <2>2, <3>1, <3>2, <3>3 DEF FreshInv, Untouched
  <2>3. QED
    BY <2>1, <2>2
<1>11. LateIsFresh'
  <2>1. ASSUME NEW d \in late'
        PROVE  Closing(OwnerOf(d))'
    <3>1. d \in late /\ d \in Companies \cup Items
      BY <1>5 DEF StorefrontInv, TypeOK
    <3>2. Closing(OwnerOf(d)) /\ OwnerOf(d) \in Owners /\ OwnerOf(d)' = OwnerOf(d)
      BY <3>1, <1>6, OwnersOwn DEF FreshInv, LateIsFresh, StorefrontInv
    <3>3. QED
      BY <3>2, <1>9
  <2>2. QED
    BY <2>1 DEF LateIsFresh
<1>12. published \subseteq Companies \cup Items
  BY DEF StorefrontInv, TypeOK
<1>13. Abstract!Close(o)
  BY <1>1, <1>5, <1>6, <1>8, <1>12 DEF Abstract!Close, Abstract!ShopOf, StorefrontOf
<1>14. QED
  BY <1>2, <1>10, <1>11, <1>13 DEF Shows, FreshInv, Abstract!ShowcaseNext

(* Retiring and moving write no flag, and what moves stays its owner's.     *)
LEMMA CatalogueShows ==
  ASSUME StorefrontInv, StorefrontInv', FreshInv, NEW D \in SUBSET (Companies \cup Items),
         \A d \in D : writer[d] = None, Touch(None, D),
         \A d \in Companies \cup Items : OwnerOf(d)' = OwnerOf(d),
         UNCHANGED <<deletedBy, published, linkable, late, writer, pc, req, lit>>
  PROVE  Shows
<1>1. \A x \in Calls : touched'[x] = touched[x] \cup (D \cap lit[x])
  BY StorefrontAssumption DEF Touch, Behind
<1>2. Outside(D)
  BY <1>1 DEF Outside, Docs
<1>3. UNCHANGED Abstract!showcaseVars
  BY <1>2, OutsideShows DEF Abstract!showcaseVars
<1>4. QED
  BY <1>2, <1>3, OutsideKeepsFresh DEF Shows

LEMMA DeleteShows ==
  ASSUME StorefrontInv, StorefrontInv', FreshInv, NEW d \in Companies \cup Items, Delete(d)
  PROVE  Shows
<1>1. \A e \in Companies \cup Items : OwnerOf(e)' = OwnerOf(e)
  BY DEF Delete, OwnerOf
<1>2. QED
  BY <1>1, CatalogueShows DEF Delete

LEMMA MoveShows ==
  ASSUME StorefrontInv, StorefrontInv', FreshInv, NEW i \in Items, NEW d \in Companies, Move(i, d)
  PROVE  Shows
<1>1. \A e \in Companies \cup Items : OwnerOf(e)' = OwnerOf(e)
  BY DEF Move, OwnerOf, StorefrontInv, TypeOK
<1>2. QED
  BY <1>1, CatalogueShows DEF Move

LEMMA StutterShows ==
  ASSUME StorefrontInv, StorefrontInv', FreshInv, UNCHANGED vars
  PROVE  Shows
<1>1. Outside({})
  BY DEF Outside, vars, OwnerOf
<1>2. UNCHANGED Abstract!showcaseVars
  BY <1>1, OutsideShows DEF Abstract!showcaseVars, vars
<1>3. QED
  BY <1>1, <1>2, OutsideKeepsFresh DEF Shows

LEMMA StepShows ==
  ASSUME StorefrontInv, FreshInv, [Next]_vars
  PROVE  FreshInv' /\ [Abstract!ShowcaseNext]_(Abstract!showcaseVars)
<1>1. StorefrontInv'
  BY StepKeeps
<1>2. ASSUME NEW c \in Calls, Call(c)
      PROVE  Shows
  <2>1. ASSUME DarkenCompanies(c) \/ DarkenItems(c)
        PROVE  Shows
    BY <1>1, <2>1, DarkenShows DEF DarkenCompanies, DarkenItems
  <2>2. QED
    BY <1>1, <1>2, <2>1, ReadShows, funCompanyUpdatePublishedShows, funCompanyUpdateShows,
       FlagItemShows, RefuseShows, StampOwnerShows, CommitClosureShows DEF Call, AnswerItems, Fail
<1>3. Shows
  BY <1>1, <1>2, DeleteShows, MoveShows, StutterShows DEF Next
<1>4. QED
  BY <1>3 DEF Shows

(* What the commit of a closing relies on, of every behaviour: see FreshInv. *)
THEOREM FreshInvariance == Spec => []FreshInv
<1>1. Init => FreshInv
  BY StorefrontAssumption DEF Init, FreshInv, LateIsFresh, Untouched, Held
<1>2. StorefrontInv /\ FreshInv /\ [Next]_vars => FreshInv'
  BY StepShows
<1>3. QED
  BY <1>1, <1>2, StorefrontInvariance, PTL DEF Spec

(* Every behaviour of the mutations and closings, however they interleave,   *)
(* conflict, are retried or fail, is one of Showcase.                      *)
THEOREM ClosingIsOneStep == Spec => ImplementsShowcase
<1>1. Init => Abstract!ShowcaseInit
  <2>1. ASSUME Init
        PROVE  Abstract!ShowcaseInit
    <3>1. \A d \in Companies \cup Items : OwnerOf(d) \in Owners
      BY <2>1, StorefrontAssumption DEF Init, OwnerOf
    <3>2. InClosing = {} /\ Closed = {}
      BY <2>1 DEF Init, InClosing, Closed, InTransaction
    <3>3. QED
      BY <2>1, <3>1, <3>2 DEF Init, Abstract!ShowcaseInit
  <2>2. QED
    BY <2>1
<1>2. StorefrontInv /\ FreshInv /\ [Next]_vars => [Abstract!ShowcaseNext]_(Abstract!showcaseVars)
  BY StepShows
<1>3. QED
  BY <1>1, <1>2, StorefrontInvariance, FreshInvariance, PTL
     DEF Spec, ImplementsShowcase, Abstract!ShowcaseSpec
===============================================================================
