---------------------------- MODULE CatalogueProofs ----------------------------
(***************************************************************************)
(* Proofs about Catalogue for any owners, companies, categories, items and *)
(* any number of calls in flight.                                          *)
(***************************************************************************)
EXTENDS Catalogue, TLAPS

(* The arguments a client can start a call with are well-formed.           *)
LEMMA StartArguments ==
  ASSUME NEW c \in Calls, StartCall(c)
  PROVE  \E r \in Requests :
           /\ Start(c, r)
           /\ r.op \in {"itemAdd", "itemUpdate", "itemCategoryDel"} => r.category \in Categories
           /\ r.op \in {"itemAdd", "itemUpdate", "companyDel"} => r.company \in Companies
           /\ r.op \in {"itemUpdate", "itemDel"} => r.item \in Items
           /\ r.op # "itemCategoryDel" => r.owner \in Owners
<1>1. CASE \E o \in Owners, d \in Companies, k \in Categories : Start(c, ItemAdd(o, d, k))
  BY <1>1 DEF ItemAdd, Request, Requests, Ops
<1>2. CASE \E o \in Owners, d \in Companies, k \in Categories, i \in Items :
             Start(c, ItemUpdate(o, i, d, k))
  BY <1>2 DEF ItemUpdate, Request, Requests, Ops
<1>3. CASE \E o \in Owners, i \in Items : Start(c, ItemDel(o, i))
  BY <1>3 DEF ItemDel, Request, Requests, Ops
<1>4. CASE \E o \in Owners, d \in Companies : Start(c, CompanyDel(o, d))
  BY <1>4 DEF CompanyDel, Request, Requests, Ops
<1>5. CASE \E k \in Categories : Start(c, ItemCategoryDel(k))
  BY <1>5 DEF ItemCategoryDel, Request, Requests, Ops
<1>6. QED
  BY <1>1, <1>2, <1>3, <1>4, <1>5 DEF StartCall

(* Which resolver a call runs, told from its next round trip.              *)
LEMMA OperationOfStep ==
  ASSUME TypeOK, NEW c \in Calls, pc[c] # "idle", WellFormed(c)
  PROVE  /\ pc[c] = "guardCompany" => req[c].op \in {"itemAdd", "itemUpdate", "companyDel"}
         /\ pc[c] \in {"guardCategory", "create"} => req[c].op = "itemAdd"
         /\ pc[c] = "holdCategory" => req[c].op \in {"itemAdd", "itemUpdate"}
         /\ pc[c] \in {"holdCompany", "save"} => req[c].op = "itemUpdate"
         /\ pc[c] \in {"readIds", "countItem"} => req[c].op \in {"itemUpdate", "itemDel"}
         /\ pc[c] \in {"rereadIds", "stampItem"} => req[c].op = "itemDel"
         /\ pc[c] = "stampCompany" => req[c].op = "companyDel"
         /\ pc[c] \in {"count", "mark"} => req[c].op = "itemCategoryDel"
         /\ pc[c] = "commit" => req[c].op \in {"itemAdd", "itemUpdate", "itemCategoryDel"}
<1>1. WellFormed(c) /\ req[c].op \in Ops
  BY DEF TypeOK, Requests
<1>2. CASE req[c].op = "itemAdd"
  BY <1>1, <1>2 DEF WellFormed, StepsOf
<1>3. CASE req[c].op = "itemUpdate"
  BY <1>1, <1>3 DEF WellFormed, StepsOf
<1>4. CASE req[c].op = "itemDel"
  BY <1>1, <1>4 DEF WellFormed, StepsOf
<1>5. CASE req[c].op = "companyDel"
  BY <1>1, <1>5 DEF WellFormed, StepsOf
<1>6. CASE req[c].op = "itemCategoryDel"
  BY <1>1, <1>6 DEF WellFormed, StepsOf
<1>7. QED
  BY <1>1, <1>2, <1>3, <1>4, <1>5, <1>6 DEF Ops

(* A call that ends leaves every variable in its type.                     *)
LEMMA FinishType ==
  ASSUME TypeOK, NEW c \in Calls, NEW D \in SUBSET Docs, Finish(c, D)
  PROVE  /\ writer' \in [Docs -> Calls \cup {None}]
         /\ pc' \in [Calls -> Steps]
         /\ req' \in [Calls -> Requests]
         /\ ids' \in [Calls -> SUBSET Companies]
         /\ before' \in [Calls -> Companies \cup {None}]
         /\ touched' \in [Calls -> SUBSET Docs]
<1>1. NoRequest \in Requests
  BY DEF NoRequest, Request, Requests, Ops
<1>2. QED
  BY <1>1 DEF Finish, TypeOK, Go, Release, Steps

LEMMA RefuseType ==
  ASSUME TypeOK, NEW c \in Calls, Refuse(c)
  PROVE  TypeOK'
BY FinishType DEF Refuse, TypeOK, store

LEMMA RetryType ==
  ASSUME TypeOK, NEW c \in Calls, Retry(c)
  PROVE  TypeOK'
BY DEF Retry, TypeOK, Go, Release, Steps, store

(* Every step of a call, and every call's start, keeps TypeOK.             *)
LEMMA TypePreserved ==
  ASSUME CatalogueInv, [Next]_vars
  PROVE  TypeOK'
<1> USE DEF CatalogueInv, CallInv, store
<1>1. CASE UNCHANGED vars
  BY <1>1 DEF TypeOK, vars
<1>2. ASSUME NEW o \in Owners, NEW d \in Companies, companyAdd(o, d)
      PROVE  TypeOK'
  BY <1>2 DEF companyAdd, TypeOK
<1>3. ASSUME NEW c \in Calls, StartCall(c)
      PROVE  TypeOK'
  <2>1. PICK r \in Requests : Start(c, r)
    BY <1>3, StartArguments
  <2>2. FirstStep[r.op] \in Steps
    BY DEF FirstStep, Steps, Requests, Ops
  <2>3. QED
    BY <2>1, <2>2 DEF Start, TypeOK, Go
<1>4. ASSUME NEW c \in Calls, Fail(c)
      PROVE  TypeOK'
  BY <1>4, RefuseType DEF Fail
<1>5. ASSUME NEW c \in Calls, throwIfShopOwnerDontOwnCompany(c)
      PROVE  TypeOK'
  <2>1. pc[c] = "guardCompany" /\ WellFormed(c)
    BY <1>5 DEF throwIfShopOwnerDontOwnCompany
  <2>2. AfterGuardCompany[req[c].op] \in Steps
    BY <2>1, OperationOfStep DEF AfterGuardCompany, Steps
  <2>3. CASE Refuse(c)
    BY <2>3, RefuseType
  <2>4. CASE Go(c, AfterGuardCompany[req[c].op]) /\ UNCHANGED <<store, writer, req, ids, before, touched>>
    BY <2>2, <2>4 DEF TypeOK, Go
  <2>5. QED
    BY <1>5, <2>3, <2>4 DEF throwIfShopOwnerDontOwnCompany
<1>6. ASSUME NEW c \in Calls, throwIfItemCategoryMissing(c)
      PROVE  TypeOK'
  <2>1. CASE Refuse(c)
    BY <2>1, RefuseType
  <2>2. CASE req[c].category \notin retired
    <3>1. PICK i \in Items : req' = [req EXCEPT ![c] = WithItem(req[c], i)]
      BY <1>6, <2>2 DEF throwIfItemCategoryMissing
    <3>2. req' \in [Calls -> Requests]
      BY <3>1 DEF TypeOK, WithItem, Request, Requests
    <3>3. QED
      BY <1>6, <2>2, <3>2 DEF throwIfItemCategoryMissing, TypeOK, Go, Steps
  <2>3. QED
    BY <1>6, <2>1, <2>2 DEF throwIfItemCategoryMissing
<1>7. ASSUME NEW c \in Calls, ReadCompanyIds(c)
      PROVE  TypeOK'
  BY <1>7 DEF ReadCompanyIds, shopOwnerCompanyIds, TypeOK, Go, Steps
<1>8. ASSUME NEW c \in Calls, throwIfShopOwnerDontOwnItem(c)
      PROVE  TypeOK'
  BY <1>8, RefuseType DEF throwIfShopOwnerDontOwnItem, TypeOK, Go, Steps
<1>9. ASSUME NEW c \in Calls, holdItemCategory(c)
      PROVE  TypeOK'
  <2>1. CASE req[c].category \in retired
    BY <1>9, <2>1, RefuseType DEF holdItemCategory
  <2>2. CASE req[c].category \notin retired /\ req[c].op = "itemAdd"
    BY <1>9, <2>2 DEF holdItemCategory, Hold, TypeOK, Go, Steps
  <2>3. CASE req[c].category \notin retired /\ req[c].op # "itemAdd"
    <3>1. pc[c] = "holdCategory" /\ WellFormed(c)
      BY <1>9 DEF holdItemCategory
    <3>2. req[c].op = "itemUpdate"
      BY <2>3, <3>1, OperationOfStep
    <3>3. req[c].item \in Items /\ filed[req[c].item] # None
      BY <3>1, <3>2 DEF WellFormed, ItemKnown
    <3>4. filed[req[c].item].company \in Companies
      BY <3>3 DEF TypeOK, Filings
    <3>5. QED
      BY <1>9, <2>3, <3>4 DEF holdItemCategory, Hold, TypeOK, Go, Steps, shopOwnerCompanyIds
  <2>4. QED
    BY <2>1, <2>2, <2>3
<1>10. ASSUME NEW c \in Calls, holdCompany(c)
       PROVE  TypeOK'
  BY <1>10, RefuseType, RetryType DEF holdCompany, Hold, TypeOK, Go, Steps
<1>11. ASSUME NEW c \in Calls, funItemUpdate(c)
       PROVE  TypeOK'
  BY <1>11, RefuseType, RetryType DEF funItemUpdate, Hold, TypeOK, Go, Steps
<1>12. ASSUME NEW c \in Calls, CreateItem(c)
       PROVE  TypeOK'
  BY <1>12 DEF CreateItem, Hold, TypeOK, Go, Steps
<1>13. ASSUME NEW c \in Calls, CommitItem(c)
       PROVE  TypeOK'
  <2>1. pc[c] = "commit" /\ WellFormed(c) /\ req[c].op \in {"itemAdd", "itemUpdate"}
    BY <1>13 DEF CommitItem
  <2>2. [company |-> req[c].company, category |-> req[c].category] \in Filings
    BY <2>1 DEF WellFormed, Filings
  <2>3. Held(c) \in SUBSET Docs
    BY DEF Held
  <2>4. QED
    BY <1>13, <2>2, <2>3, FinishType DEF CommitItem, TypeOK
<1>14. ASSUME NEW c \in Calls, funItemDelete(c)
       PROVE  TypeOK'
  <2>1. CASE Refuse(c)
    BY <2>1, RefuseType
  <2>2. CASE ~ Refuse(c)
    <3>1. req[c].item \in Items
      BY <1>14, OperationOfStep DEF funItemDelete, WellFormed
    <3>2. {req[c].item} \in SUBSET Docs
      BY <3>1 DEF Docs
    <3>3. QED
      BY <1>14, <2>2, <3>2, FinishType DEF funItemDelete, TypeOK
  <2>3. QED
    BY <2>1, <2>2
<1>15. ASSUME NEW c \in Calls, funCompanyDelete(c)
       PROVE  TypeOK'
  <2>1. req[c].company \in Companies
    BY <1>15, OperationOfStep DEF funCompanyDelete, WellFormed
  <2>2. {req[c].company} \in SUBSET Docs
    BY <2>1 DEF Docs
  <2>3. QED
    BY <1>15, <2>2, FinishType DEF funCompanyDelete, TypeOK
<1>16. ASSUME NEW c \in Calls, CountCategoryItems(c)
       PROVE  TypeOK'
  BY <1>16, RefuseType DEF CountCategoryItems, TypeOK, Go, Steps
<1>17. ASSUME NEW c \in Calls, MarkCategory(c)
       PROVE  TypeOK'
  BY <1>17, RetryType DEF MarkCategory, Hold, TypeOK, Go, Steps
<1>18. ASSUME NEW c \in Calls, CommitCategory(c)
       PROVE  TypeOK'
  <2>1. req[c].category \in Categories
    BY <1>18 DEF CommitCategory, WellFormed
  <2>2. Held(c) \in SUBSET Docs
    BY DEF Held
  <2>3. QED
    BY <1>18, <2>1, <2>2, FinishType DEF CommitCategory, TypeOK
<1>19. QED
  BY <1>1, <1>2, <1>3, <1>4, <1>5, <1>6, <1>7, <1>8, <1>9, <1>10, <1>11, <1>12,
     <1>13, <1>14, <1>15, <1>16, <1>17, <1>18 DEF Next, Work

-------------------------------------------------------------------------------
Step(c) == StartCall(c) \/ Work(c) \/ Fail(c)

(* What a step of c leaves of another call's local state.                  *)
Kept(x) ==
  /\ pc'[x] = pc[x] /\ req'[x] = req[x] /\ ids'[x] = ids[x] /\ before'[x] = before[x]
  /\ \A d \in Docs : writer[d] = x => writer'[d] = x
  /\ touched[x] \subseteq touched'[x]

LEMMA FinishKeepsOthers ==
  ASSUME TypeOK, NEW c \in Calls, NEW D \in SUBSET Docs, Finish(c, D), NEW x \in Calls \ {c}
  PROVE  /\ Kept(x)
         /\ pc[x] \in InTransaction => D \subseteq touched'[x]
BY DEF Finish, Kept, TypeOK, Go, Release

LEMMA RetryKeepsOthers ==
  ASSUME TypeOK, NEW c \in Calls, Retry(c), NEW x \in Calls \ {c}
  PROVE  Kept(x)
BY DEF Retry, Kept, TypeOK, Go, Release

LEMMA HoldKeepsOthers ==
  ASSUME TypeOK, NEW c \in Calls, NEW d \in Docs, Hold(c, d), writer[d] \in {None, c},
         NEW x \in Calls \ {c}, NEW e \in Docs, writer[e] = x
  PROVE  writer'[e] = x
BY NoneIsNothing DEF Hold, TypeOK

(* A step of c changes the store in one of four ways or not at all.        *)
LEMMA StoreWrites ==
  ASSUME CatalogueInv, NEW c \in Calls, Step(c)
  PROVE  \/ UNCHANGED store
         \/ CommitItem(c)
         \/ funItemDelete(c) /\ itemDeleted' = [itemDeleted EXCEPT ![req[c].item] = c]
            /\ UNCHANGED <<filed, owner, companyDeleted, retired>>
         \/ funCompanyDelete(c)
         \/ CommitCategory(c)
<1> USE DEF store, Refuse, Retry
<1>1. CASE StartCall(c)
  BY <1>1, StartArguments DEF Start
<1>2. CASE Fail(c)
  BY <1>2 DEF Fail
<1>3. CASE throwIfShopOwnerDontOwnCompany(c)
  BY <1>3 DEF throwIfShopOwnerDontOwnCompany
<1>4. CASE throwIfItemCategoryMissing(c)
  BY <1>4 DEF throwIfItemCategoryMissing
<1>5. CASE ReadCompanyIds(c)
  BY <1>5 DEF ReadCompanyIds
<1>6. CASE throwIfShopOwnerDontOwnItem(c)
  BY <1>6 DEF throwIfShopOwnerDontOwnItem
<1>7. CASE holdItemCategory(c)
  BY <1>7 DEF holdItemCategory
<1>8. CASE holdCompany(c)
  BY <1>8 DEF holdCompany
<1>9. CASE funItemUpdate(c)
  BY <1>9 DEF funItemUpdate
<1>10. CASE CreateItem(c)
  BY <1>10 DEF CreateItem
<1>11. CASE funItemDelete(c)
  BY <1>11 DEF funItemDelete
<1>12. CASE CountCategoryItems(c)
  BY <1>12 DEF CountCategoryItems
<1>13. CASE MarkCategory(c)
  BY <1>13 DEF MarkCategory
<1>14. QED
  BY <1>1, <1>2, <1>3, <1>4, <1>5, <1>6, <1>7, <1>8, <1>9, <1>10, <1>11, <1>12, <1>13
  DEF Step, Work

(* No step of a call disturbs another's local state.                       *)
LEMMA OthersKept ==
  ASSUME CatalogueInv, NEW c \in Calls, Step(c), NEW x \in Calls \ {c}
  PROVE  Kept(x)
<1> USE DEF CatalogueInv, CallInv
<1>r. ASSUME Refuse(c) PROVE Kept(x)
  BY <1>r, FinishKeepsOthers DEF Refuse
<1>t. ASSUME Retry(c) PROVE Kept(x)
  BY <1>t, RetryKeepsOthers
<1>1. CASE StartCall(c)
  BY <1>1, StartArguments DEF Start, Kept, TypeOK, Go
<1>2. CASE Fail(c)
  BY <1>2, <1>r DEF Fail
<1>3. CASE throwIfShopOwnerDontOwnCompany(c)
  BY <1>3, <1>r DEF throwIfShopOwnerDontOwnCompany, Kept, TypeOK, Go
<1>4. CASE throwIfItemCategoryMissing(c)
  BY <1>4, <1>r DEF throwIfItemCategoryMissing, Kept, TypeOK, Go
<1>5. CASE ReadCompanyIds(c)
  BY <1>5 DEF ReadCompanyIds, Kept, TypeOK, Go
<1>6. CASE throwIfShopOwnerDontOwnItem(c)
  BY <1>6, <1>r DEF throwIfShopOwnerDontOwnItem, Kept, TypeOK, Go
<1>7. CASE holdItemCategory(c)
  <2>1. req[c].category \in Docs
    BY <1>7, OperationOfStep DEF holdItemCategory, WellFormed, Docs
  <2>2. QED
    BY <1>7, <1>r, <2>1, HoldKeepsOthers DEF holdItemCategory, Kept, TypeOK, Go
<1>8. CASE holdCompany(c)
  <2>1. req[c].company \in Docs
    BY <1>8, OperationOfStep DEF holdCompany, WellFormed, Docs
  <2>2. QED
    BY <1>8, <1>r, <1>t, <2>1, HoldKeepsOthers DEF holdCompany, Conflicts, Kept, TypeOK, Go
<1>9. CASE funItemUpdate(c)
  <2>1. req[c].item \in Docs
    BY <1>9, OperationOfStep DEF funItemUpdate, WellFormed, Docs
  <2>2. QED
    BY <1>9, <1>r, <1>t, <2>1, HoldKeepsOthers DEF funItemUpdate, Conflicts, Kept, TypeOK, Go
<1>10. CASE CreateItem(c)
  BY <1>10 DEF CreateItem, Kept, TypeOK, Go
<1>11. CASE CommitItem(c)
  BY <1>11, FinishKeepsOthers DEF CommitItem, Held
<1>12. CASE funItemDelete(c)
  <2>1. {req[c].item} \in SUBSET Docs
    BY <1>12, OperationOfStep DEF funItemDelete, WellFormed, Docs
  <2>2. QED
    BY <1>12, <1>r, <2>1, FinishKeepsOthers DEF funItemDelete
<1>13. CASE funCompanyDelete(c)
  <2>1. {req[c].company} \in SUBSET Docs
    BY <1>13, OperationOfStep DEF funCompanyDelete, WellFormed, Docs
  <2>2. QED
    BY <1>13, <2>1, FinishKeepsOthers DEF funCompanyDelete
<1>14. CASE CountCategoryItems(c)
  BY <1>14, <1>r DEF CountCategoryItems, Kept, TypeOK, Go
<1>15. CASE MarkCategory(c)
  <2>1. req[c].category \in Docs
    BY <1>15, OperationOfStep DEF MarkCategory, WellFormed, Docs
  <2>2. QED
    BY <1>15, <1>t, <2>1, HoldKeepsOthers DEF MarkCategory, Conflicts, Kept, TypeOK, Go
<1>16. CASE CommitCategory(c)
  BY <1>16, FinishKeepsOthers DEF CommitCategory, Held
<1>17. QED
  BY <1>1, <1>2, <1>3, <1>4, <1>5, <1>6, <1>7, <1>8, <1>9, <1>10, <1>11, <1>12, <1>13,
     <1>14, <1>15, <1>16 DEF Step, Work

-------------------------------------------------------------------------------
(* What an item commit is entitled to.                                     *)
LEMMA CommitItemFacts ==
  ASSUME CatalogueInv, NEW c \in Calls, CommitItem(c)
  PROVE  /\ req[c].item \in Items /\ req[c].category \in Categories /\ req[c].company \in Companies
         /\ req[c].category \in Held(c) /\ req[c].category \notin retired
         /\ req[c].op = "itemUpdate" => filed[req[c].item] # None /\ req[c].item \in Held(c)
         /\ req[c].op = "itemAdd" => Minted(c)
         /\ req[c].op \in {"itemAdd", "itemUpdate"}
         /\ filed' = [filed EXCEPT ![req[c].item] =
                        [company |-> req[c].company, category |-> req[c].category]]
         /\ [company |-> req[c].company, category |-> req[c].category] # None
<1>1. pc[c] = "commit" /\ req[c].op \in {"itemAdd", "itemUpdate"} /\ CallInv(c) /\ WellFormed(c)
  BY DEF CommitItem, CatalogueInv, CallInv
<1>2. req[c].item \in Items /\ req[c].category \in Categories /\ req[c].company \in Companies
  BY <1>1 DEF WellFormed, CallInv, ItemKnown, Minted
<1>3. req[c].category \in Held(c) /\ req[c].category \notin retired
  BY <1>1, <1>2 DEF CallInv, CategoryHeld, PastHold, Held, Docs
<1>4. req[c].op = "itemUpdate" => filed[req[c].item] # None /\ req[c].item \in Held(c)
  BY <1>1, <1>2 DEF CallInv, ItemKnown, SnapshotStands, Held, Docs
<1>5. [company |-> req[c].company, category |-> req[c].category] # None
  BY <1>2, NoneIsNothing
<1>6. QED
  BY <1>1, <1>2, <1>3, <1>4, <1>5 DEF CommitItem, Minted

(* The items live in a category only shrink but for an item's commit there. *)
LEMMA LiveInShrinks ==
  ASSUME CatalogueInv, NEW c \in Calls, Step(c), NEW k
  PROVE  LiveIn(k)' \subseteq LiveIn(k) \/ (CommitItem(c) /\ req[c].category = k)
<1>1. CASE UNCHANGED store
  BY <1>1 DEF store, LiveIn
<1>2. CASE CommitItem(c) /\ req[c].category # k
  BY <1>2, CommitItemFacts DEF CommitItem, LiveIn, CatalogueInv, TypeOK
<1>3. CASE /\ itemDeleted' = [itemDeleted EXCEPT ![req[c].item] = c]
           /\ UNCHANGED <<filed, owner, companyDeleted, retired>>
  BY <1>3, NoneIsNothing DEF LiveIn, CatalogueInv, TypeOK
<1>4. CASE funCompanyDelete(c)
  BY <1>4 DEF funCompanyDelete, LiveIn
<1>5. CASE CommitCategory(c)
  BY <1>5 DEF CommitCategory, LiveIn
<1>6. QED
  BY <1>1, <1>2, <1>3, <1>4, <1>5, StoreWrites

(* A company, once founded, keeps its owner; an item, once filed, stays so. *)
LEMMA FiledStays ==
  ASSUME CatalogueInv, NEW c \in Calls, Step(c), NEW i \in Items, filed[i] # None
  PROVE  filed'[i] # None
<1>1. CASE CommitItem(c)
  BY <1>1, CommitItemFacts DEF CatalogueInv, TypeOK
<1>2. CASE filed' = filed
  BY <1>2
<1>3. QED
  BY <1>1, <1>2, StoreWrites DEF store, funItemDelete, funCompanyDelete, CommitCategory

LEMMA OwnerStays ==
  ASSUME CatalogueInv, NEW c \in Calls, Step(c)
  PROVE  owner' = owner
BY StoreWrites DEF store, CommitItem, funCompanyDelete, CommitCategory

(* The item a call minted is its own.                                      *)
LEMMA MintedStep ==
  ASSUME CatalogueInv, NEW c \in Calls, Step(c), Minted(c)'
  PROVE  \/ Minted(c) /\ req'[c] = req[c]
         \/ /\ throwIfItemCategoryMissing(c)
            /\ \E i \in Items : /\ filed[i] = None
                                /\ \A x \in Calls : req[x].item # i
                                /\ req' = [req EXCEPT ![c] = WithItem(req[c], i)]
<1> USE DEF CatalogueInv, CallInv
<1>a. pc[c] # "idle" => WellFormed(c)
  OBVIOUS
<1>f. pc'[c] \in {"holdCategory", "create", "commit"} /\ req'[c].op = "itemAdd"
  BY DEF Minted
<1>n. ~ \E D \in SUBSET Docs : Finish(c, D)
  BY <1>f DEF Finish, Go, TypeOK
<1>r. ~ Refuse(c)
  BY <1>n DEF Refuse
<1>1. ~ StartCall(c)
  <2>1. ASSUME NEW r \in Requests, Start(c, r) PROVE FALSE
    BY <1>f, <2>1 DEF Start, Go, TypeOK, FirstStep, Requests, Ops
  <2>2. QED
    BY <2>1, StartArguments
<1>2. ~ Fail(c)
  BY <1>r DEF Fail
<1>3. ~ throwIfShopOwnerDontOwnCompany(c)
  <2>1. SUFFICES ASSUME throwIfShopOwnerDontOwnCompany(c) PROVE FALSE
    OBVIOUS
  <2>2. pc'[c] = AfterGuardCompany[req[c].op] /\ req' = req
    BY <1>r, <2>1 DEF throwIfShopOwnerDontOwnCompany, Go, TypeOK
  <2>3. QED
    BY <1>f, <2>2 DEF AfterGuardCompany
<1>4. CASE throwIfItemCategoryMissing(c)
  BY <1>4, <1>r DEF throwIfItemCategoryMissing
<1>5. ~ ReadCompanyIds(c)
  BY <1>f DEF ReadCompanyIds, Go, TypeOK
<1>6. ~ throwIfShopOwnerDontOwnItem(c)
  BY <1>f, <1>r DEF throwIfShopOwnerDontOwnItem, Go, TypeOK
<1>7. CASE holdItemCategory(c)
  BY <1>7, <1>f, <1>r DEF holdItemCategory, Minted
<1>8. ~ holdCompany(c)
  BY <1>f, <1>r, OperationOfStep DEF holdCompany, Retry, Go, TypeOK
<1>9. ~ funItemUpdate(c)
  BY <1>f, <1>r, OperationOfStep DEF funItemUpdate, Retry, Go, TypeOK
<1>10. CASE CreateItem(c)
  BY <1>10, <1>f, <1>r DEF CreateItem, Minted
<1>11. ~ CommitItem(c)
  BY <1>n DEF CommitItem, Held
<1>12. ~ funItemDelete(c)
  <2>1. SUFFICES ASSUME funItemDelete(c) PROVE FALSE
    OBVIOUS
  <2>2. {req[c].item} \in SUBSET Docs
    BY <2>1, OperationOfStep DEF funItemDelete, WellFormed, Docs
  <2>3. QED
    BY <1>r, <1>n, <2>1, <2>2 DEF funItemDelete
<1>13. ~ funCompanyDelete(c)
  <2>1. SUFFICES ASSUME funCompanyDelete(c) PROVE FALSE
    OBVIOUS
  <2>2. {req[c].company} \in SUBSET Docs
    BY <2>1, OperationOfStep DEF funCompanyDelete, WellFormed, Docs
  <2>3. QED
    BY <1>n, <2>1, <2>2 DEF funCompanyDelete
<1>14. ~ CountCategoryItems(c)
  BY <1>f, <1>r DEF CountCategoryItems, Go, TypeOK
<1>15. ~ MarkCategory(c)
  BY <1>f, OperationOfStep DEF MarkCategory, Retry, Go, TypeOK
<1>16. ~ CommitCategory(c)
  BY <1>n DEF CommitCategory, Held
<1>17. QED
  BY <1>1, <1>2, <1>3, <1>4, <1>5, <1>6, <1>7, <1>8, <1>9, <1>10, <1>11, <1>12, <1>13,
     <1>14, <1>15, <1>16 DEF Step, Work

-------------------------------------------------------------------------------
(* The invariant of one call survives the steps of every other.            *)
LEMMA OthersInv ==
  ASSUME CatalogueInv, NEW c \in Calls, Step(c), NEW x \in Calls \ {c}
  PROVE  CallInv(x)'
<1>k. Kept(x) /\ (Minted(x)' <=> Minted(x)) /\ (PastHold(x)' <=> PastHold(x))
  BY OthersKept DEF Kept, Minted, PastHold
<1>i. CallInv(x) /\ CallInv(c) /\ TypeOK
  BY DEF CatalogueInv
<1>d. CommitItem(c) /\ pc[x] \in InTransaction => Held(c) \subseteq touched'[x]
  BY <1>i, FinishKeepsOthers DEF CommitItem, Held
<1>1. (pc[x] # "idle" => WellFormed(x))'
  BY <1>k, <1>i DEF CallInv, Kept, WellFormed
<1>2. ItemKnown(x)'
  <2>1. pc[x] # "idle" => WellFormed(x)
    BY <1>i DEF CallInv
  <2>2. req[x].op \in {"itemUpdate", "itemDel"} /\ pc[x] \notin {"idle", "readIds", "countItem"} =>
          filed'[req[x].item] # None
    BY <2>1, <1>i, FiledStays DEF CallInv, ItemKnown, WellFormed
  <2>3. ASSUME Minted(x) PROVE filed'[req[x].item] = None
    <3>1. CASE CommitItem(c)
      <4>1. req[c].item # req[x].item
        BY <1>i, <2>3, <3>1, CommitItemFacts DEF CallInv, ItemKnown
      <4>2. QED
        BY <1>i, <2>3, <3>1, <4>1, CommitItemFacts DEF CallInv, ItemKnown, TypeOK
    <3>2. CASE filed' = filed
      BY <1>i, <2>3, <3>2 DEF CallInv, ItemKnown
    <3>3. QED
      BY <3>1, <3>2, StoreWrites DEF store, funItemDelete, funCompanyDelete, CommitCategory
  <2>4. ASSUME Minted(x), NEW y \in Calls \ {x}, Minted(y)'
        PROVE  req'[y].item # req[x].item
    <3>1. CASE y # c
      <4>1. Kept(y)
        BY <3>1, OthersKept
      <4>2. QED
        BY <4>1, <2>4, <1>i DEF Kept, Minted, CallInv, ItemKnown
    <3>2. CASE y = c /\ Minted(c) /\ req'[c] = req[c]
      BY <3>2, <2>4, <1>i DEF CallInv, ItemKnown
    <3>3. CASE y = c /\ \E i \in Items : /\ \A z \in Calls : req[z].item # i
                                         /\ req' = [req EXCEPT ![c] = WithItem(req[c], i)]
      BY <3>3, <1>i DEF WithItem, Request, TypeOK
    <3>4. QED
      BY <3>1, <3>2, <3>3, <2>4, MintedStep
  <2>5. QED
    BY <1>k, <1>i, <2>2, <2>3, <2>4 DEF ItemKnown, Kept, CallInv
<1>3. CategoryHeld(x)'
  <2>1. SUFFICES ASSUME PastHold(x)
                 PROVE  writer'[req[x].category] = x /\ req[x].category \notin retired'
    BY <1>k DEF CategoryHeld, Kept
  <2>2. /\ req[x].category \in Docs
        /\ writer[req[x].category] = x
        /\ req[x].category \notin retired
    BY <1>i, <2>1, OperationOfStep DEF CallInv, CategoryHeld, PastHold, WellFormed, Docs
  <2>3. CASE CommitCategory(c)
    <3>1. writer[req[c].category] = c
      BY <2>3, <1>i DEF CommitCategory, CallInv, CategoryEmpty
    <3>2. QED
      BY <1>k, <2>2, <2>3, <3>1 DEF Kept, CommitCategory
  <2>4. CASE retired' = retired
    BY <1>k, <2>2, <2>4 DEF Kept
  <2>5. QED
    BY <2>3, <2>4, StoreWrites DEF store, CommitItem, funCompanyDelete
<1>4. CategoryEmpty(x)'
  <2>1. PICK k : k = req[x].category
    OBVIOUS
  <2>2. LiveIn(k)' \subseteq LiveIn(k) \/ (CommitItem(c) /\ req[c].category = k)
    BY LiveInShrinks
  <2>3. ASSUME pc[x] = "mark" PROVE LiveIn(k)' = {} \/ k \in touched'[x]
    <3>1. LiveIn(k) = {} \/ k \in touched[x]
      BY <2>1, <2>3, <1>i DEF CallInv, CategoryEmpty
    <3>2. ASSUME CommitItem(c), req[c].category = k PROVE k \in touched'[x]
      BY <3>2, <2>3, <1>d, CommitItemFacts DEF InTransaction
    <3>3. QED
      BY <2>2, <3>1, <3>2, <1>k DEF Kept
  <2>4. ASSUME pc[x] = "commit", req[x].op = "itemCategoryDel"
        PROVE  writer'[k] = x /\ LiveIn(k)' = {}
    <3>1. k \in Docs /\ writer[k] = x /\ LiveIn(k) = {}
      BY <2>1, <2>4, <1>i DEF CallInv, CategoryEmpty, WellFormed, Docs
    <3>2. ~ (CommitItem(c) /\ req[c].category = k)
      BY <3>1, CommitItemFacts DEF Held
    <3>3. QED
      BY <2>2, <3>1, <3>2, <1>k DEF Kept
  <2>5. k = req'[x].category
    BY <2>1, <1>k DEF Kept
  <2>6. QED
    BY <2>3, <2>4, <2>5, <1>k DEF CategoryEmpty, Kept
<1>5. OwnCompany(x)'
  BY <1>k, <1>i, OwnerStays DEF CallInv, OwnCompany, Kept
<1>6. SnapshotStands(x)'
  <2>1. DEFINE r == req[x]
  <2>2. pc[x] # "idle" => WellFormed(x)
    BY <1>i DEF CallInv
  <2>3. ASSUME pc[x] = "holdCompany", NEW d \in ids[x]
        PROVE  companyDeleted'[d] = None \/ d \in touched'[x]
    <3>1. companyDeleted[d] = None \/ d \in touched[x]
      BY <2>3, <1>i DEF CallInv, SnapshotStands
    <3>2. CASE funCompanyDelete(c)
      <4>1. {req[c].company} \in SUBSET Docs
        BY <3>2, <1>i, OperationOfStep DEF funCompanyDelete, CallInv, WellFormed, Docs
      <4>2. {req[c].company} \subseteq touched'[x]
        BY <3>2, <4>1, <1>i, <2>3, FinishKeepsOthers DEF funCompanyDelete, InTransaction
      <4>3. companyDeleted' = [companyDeleted EXCEPT ![req[c].company] = c]
        BY <3>2 DEF funCompanyDelete
      <4>4. d \in Companies
        BY <1>i, <2>3 DEF TypeOK
      <4>5. QED
        BY <3>1, <4>2, <4>3, <4>4, <1>i, <1>k DEF Kept, TypeOK
    <3>3. CASE companyDeleted' = companyDeleted
      BY <3>1, <3>3, <1>k DEF Kept
    <3>4. QED
      BY <3>2, <3>3, StoreWrites DEF store, CommitItem, CommitCategory
  <2>4. ASSUME r.op = "itemUpdate", pc[x] \in {"save", "commit"}
        PROVE  writer'[r.company] = x /\ companyDeleted'[r.company] = None
    <3>1. r.company \in Companies /\ writer[r.company] = x /\ companyDeleted[r.company] = None
      BY <2>2, <2>4, <1>i DEF CallInv, SnapshotStands, WellFormed
    <3>2. CASE funCompanyDelete(c)
      BY <3>1, <3>2, <1>i, <1>k, NoneIsNothing DEF funCompanyDelete, Kept, TypeOK, Docs
    <3>3. CASE companyDeleted' = companyDeleted
      BY <3>1, <3>3, <1>k DEF Kept, Docs
    <3>4. QED
      BY <3>2, <3>3, StoreWrites DEF store, CommitItem, CommitCategory
  <2>5. ASSUME pc[x] \in {"holdCompany", "save"}
        PROVE  filed'[r.item].company = before[x] \/ r.item \in touched'[x]
    <3>1. filed[r.item].company = before[x] \/ r.item \in touched[x]
      BY <2>5, <1>i DEF CallInv, SnapshotStands
    <3>2. r.op = "itemUpdate" /\ r.item \in Items /\ filed[r.item] # None
      BY <2>2, <2>5, <1>i, OperationOfStep DEF CallInv, WellFormed, ItemKnown
    <3>3. CASE CommitItem(c) /\ req[c].item = r.item
      <4>1. req[c].op = "itemUpdate"
        BY <3>2, <3>3, <1>i, CommitItemFacts DEF CallInv, ItemKnown
      <4>2. QED
        BY <3>3, <4>1, <2>5, <1>d, CommitItemFacts DEF InTransaction
    <3>4. CASE filed'[r.item] = filed[r.item]
      BY <3>1, <3>4, <1>k DEF Kept
    <3>5. CASE CommitItem(c) /\ req[c].item # r.item
      <4>1. filed \in [Items -> Filings \cup {None}]
        BY <1>i DEF TypeOK
      <4>2. filed'[r.item] = filed[r.item]
        <5>1. filed' = [filed EXCEPT ![req[c].item] =
                          [company |-> req[c].company, category |-> req[c].category]]
          BY <3>5, CommitItemFacts
        <5>2. QED
          BY <3>2, <3>5, <4>1, <5>1
      <4>3. QED
        BY <3>4, <4>2
    <3>6. CASE filed' = filed
      BY <3>4, <3>6
    <3>7. QED
      BY <3>3, <3>5, <3>6, StoreWrites DEF store, funItemDelete, funCompanyDelete, CommitCategory
  <2>6. ASSUME r.op = "itemUpdate", pc[x] = "commit"
        PROVE  /\ writer'[r.item] = x
               /\ filed'[r.item].company = before[x]
               /\ owner'[before[x]] = req[x].owner
    <3>1. /\ writer[r.item] = x /\ r.item \in Items
          /\ filed[r.item].company = before[x] /\ owner[before[x]] = r.owner
          /\ filed[r.item] # None
      BY <2>2, <2>6, <1>i DEF CallInv, SnapshotStands, WellFormed, ItemKnown
    <3>o. owner' = owner
      BY OwnerStays
    <3>2. CASE CommitItem(c)
      <4>1. req[c].item # r.item
        BY <3>1, <3>2, <1>i, CommitItemFacts DEF CallInv, ItemKnown, Held
      <4>2. QED
        BY <3>1, <3>2, <3>o, <4>1, <1>i, <1>k, CommitItemFacts DEF Kept, Docs, TypeOK
    <3>3. CASE filed' = filed
      BY <3>1, <3>3, <3>o, <1>k DEF Kept, Docs
    <3>4. QED
      BY <3>2, <3>3, StoreWrites DEF store, funItemDelete, funCompanyDelete, CommitCategory
  <2>7. QED
    BY <2>3, <2>4, <2>5, <2>6, <1>k DEF SnapshotStands, Kept
<1>7. QED
  BY <1>1, <1>2, <1>3, <1>4, <1>5, <1>6 DEF CallInv

-------------------------------------------------------------------------------
(* The invariant of a call survives each of its own steps.                 *)
LEMMA FinishInv ==
  ASSUME TypeOK, NEW c \in Calls, NEW D, Finish(c, D)
  PROVE  CallInv(c)'
BY DEF Finish, Go, TypeOK, NoRequest, Request, CallInv, ItemKnown, Minted, CategoryHeld,
       PastHold, CategoryEmpty, OwnCompany, SnapshotStands

LEMMA RefuseInv ==
  ASSUME TypeOK, NEW c \in Calls, Refuse(c)
  PROVE  CallInv(c)'
BY FinishInv DEF Refuse

LEMMA RetryInv ==
  ASSUME CatalogueInv, NEW c \in Calls, Retry(c), pc[c] \in {"holdCompany", "save", "mark"}
  PROVE  CallInv(c)'
<1> USE DEF CatalogueInv
<1>1. WellFormed(c) /\ CallInv(c)
  BY DEF CallInv
<1>2. /\ pc'[c] = IF req[c].op = "itemCategoryDel" THEN "count" ELSE "holdCategory"
      /\ req' = req /\ ids'[c] = {} /\ UNCHANGED store
  BY DEF Retry, Go, TypeOK
<1>3. CASE pc[c] = "mark"
  BY <1>1, <1>2, <1>3, OperationOfStep DEF store, CallInv, WellFormed, StepsOf, ItemKnown, Minted,
     CategoryHeld, PastHold, CategoryEmpty, OwnCompany, SnapshotStands
<1>4. CASE pc[c] # "mark"
  BY <1>1, <1>2, <1>4, OperationOfStep DEF store, CallInv, WellFormed, StepsOf, ItemKnown, Minted,
     CategoryHeld, PastHold, CategoryEmpty, OwnCompany, SnapshotStands
<1>5. QED
  BY <1>3, <1>4

LEMMA StartInv ==
  ASSUME CatalogueInv, NEW c \in Calls, StartCall(c)
  PROVE  CallInv(c)'
<1>1. PICK r \in Requests :
        /\ Start(c, r)
        /\ r.op \in {"itemAdd", "itemUpdate", "itemCategoryDel"} => r.category \in Categories
        /\ r.op \in {"itemAdd", "itemUpdate", "companyDel"} => r.company \in Companies
        /\ r.op \in {"itemUpdate", "itemDel"} => r.item \in Items
        /\ r.op # "itemCategoryDel" => r.owner \in Owners
  BY StartArguments
<1>2. r.op \in Ops /\ req'[c] = r /\ pc'[c] = FirstStep[r.op] /\ pc[c] = "idle"
      /\ ids' = ids
  BY <1>1 DEF Start, Go, CatalogueInv, TypeOK, Requests
<1>3. pc'[c] \in StepsOf[r.op] /\ pc'[c] \in {"guardCompany", "readIds", "count"}
  <2>1. CASE r.op = "itemAdd"
    BY <1>2, <2>1 DEF FirstStep, StepsOf
  <2>2. CASE r.op = "itemUpdate"
    BY <1>2, <2>2 DEF FirstStep, StepsOf
  <2>3. CASE r.op = "itemDel"
    BY <1>2, <2>3 DEF FirstStep, StepsOf
  <2>4. CASE r.op = "companyDel"
    BY <1>2, <2>4 DEF FirstStep, StepsOf
  <2>5. CASE r.op = "itemCategoryDel"
    BY <1>2, <2>5 DEF FirstStep, StepsOf
  <2>6. QED
    BY <1>2, <2>1, <2>2, <2>3, <2>4, <2>5 DEF Ops
<1>4. pc'[c] = "guardCompany" \/ pc'[c] = "readIds" \/ pc'[c] = "count"
  BY <1>3
<1>6. WellFormed(c)'
  BY <1>1, <1>2, <1>3 DEF WellFormed
<1>7. /\ pc'[c] \notin {"holdCategory", "holdCompany", "create", "save", "commit", "mark"}
      /\ pc'[c] \notin {"guardCategory", "rereadIds", "stampItem", "stampCompany"}
  BY <1>4
<1>8. ~ Minted(c)' /\ ~ PastHold(c)'
  BY <1>7 DEF Minted, PastHold
<1>9. ItemKnown(c)'
  <2>1. r.op \in {"itemUpdate", "itemDel"} => pc'[c] = "readIds"
    BY <1>2 DEF FirstStep
  <2>2. QED
    BY <1>2, <1>8, <2>1 DEF ItemKnown
<1>10. OwnCompany(c)'
  <2>1. r.op \in {"itemAdd", "itemUpdate", "companyDel"} => pc'[c] \in {"guardCompany", "readIds"}
    BY <1>2 DEF FirstStep
  <2>2. QED
    BY <1>2, <2>1 DEF OwnCompany
<1>11. CategoryHeld(c)' /\ CategoryEmpty(c)' /\ SnapshotStands(c)'
  BY <1>7, <1>8 DEF CategoryHeld, CategoryEmpty, SnapshotStands
<1>12. QED
  BY <1>6, <1>9, <1>10, <1>11 DEF CallInv

LEMMA GuardsInv ==
  ASSUME CatalogueInv, NEW c \in Calls,
         \/ throwIfShopOwnerDontOwnCompany(c)
         \/ throwIfItemCategoryMissing(c)
         \/ ReadCompanyIds(c)
         \/ throwIfShopOwnerDontOwnItem(c)
  PROVE  CallInv(c)'
<1> USE DEF CatalogueInv
<1>w. WellFormed(c) /\ CallInv(c) /\ pc[c] # "idle"
  BY DEF CallInv, throwIfShopOwnerDontOwnCompany, throwIfItemCategoryMissing, ReadCompanyIds,
     throwIfShopOwnerDontOwnItem
<1>r. ASSUME Refuse(c) PROVE CallInv(c)'
  BY <1>r, RefuseInv
<1>1. ASSUME throwIfShopOwnerDontOwnCompany(c), ~ Refuse(c) PROVE CallInv(c)'
  <2>1. /\ pc[c] = "guardCompany" /\ pc'[c] = AfterGuardCompany[req[c].op]
        /\ req[c].company \in shopOwnerCompanyIds(req[c].owner)
        /\ UNCHANGED <<store, writer, req, ids, before, touched>>
    BY <1>1 DEF throwIfShopOwnerDontOwnCompany, Go, TypeOK
  <2>2. CASE req[c].op = "itemAdd"
    BY <1>w, <2>1, <2>2 DEF AfterGuardCompany, store, CallInv, WellFormed, StepsOf, ItemKnown,
       Minted, CategoryHeld, PastHold, CategoryEmpty, OwnCompany, SnapshotStands, shopOwnerCompanyIds
  <2>3. CASE req[c].op = "itemUpdate"
    BY <1>w, <2>1, <2>3 DEF AfterGuardCompany, store, CallInv, WellFormed, StepsOf, ItemKnown,
       Minted, CategoryHeld, PastHold, CategoryEmpty, OwnCompany, SnapshotStands, shopOwnerCompanyIds
  <2>4. CASE req[c].op = "companyDel"
    BY <1>w, <2>1, <2>4 DEF AfterGuardCompany, store, CallInv, WellFormed, StepsOf, ItemKnown,
       Minted, CategoryHeld, PastHold, CategoryEmpty, OwnCompany, SnapshotStands, shopOwnerCompanyIds
  <2>5. QED
    BY <1>w, <2>1, <2>2, <2>3, <2>4, OperationOfStep
<1>2. ASSUME throwIfItemCategoryMissing(c), ~ Refuse(c) PROVE CallInv(c)'
  <2>1. PICK i \in Items : /\ filed[i] = None
                           /\ \A x \in Calls : req[x].item # i
                           /\ req' = [req EXCEPT ![c] = WithItem(req[c], i)]
    BY <1>2 DEF throwIfItemCategoryMissing
  <2>2. /\ pc[c] = "guardCategory" /\ pc' = [pc EXCEPT ![c] = "holdCategory"]
        /\ UNCHANGED <<store, writer, ids, before, touched>>
    BY <1>2 DEF throwIfItemCategoryMissing, Go
  <2>3. req[c].op = "itemAdd"
    BY <1>w, <2>2, OperationOfStep
  <2>4. /\ req'[c].op = "itemAdd" /\ req'[c].item = i /\ req'[c].owner = req[c].owner
        /\ req'[c].company = req[c].company /\ req'[c].category = req[c].category
    BY <2>1, <2>3 DEF WithItem, Request, TypeOK
  <2>5. \A x \in Calls \ {c} : req'[x] = req[x]
    BY <2>1 DEF TypeOK
  <2>6. pc'[c] = "holdCategory"
    BY <2>2 DEF TypeOK
  <2>7. ItemKnown(c)'
    BY <2>1, <2>2, <2>4, <2>5, <2>6 DEF ItemKnown, Minted, store
  <2>8. WellFormed(c)'
    BY <1>w, <2>3, <2>4, <2>6 DEF WellFormed, StepsOf
  <2>9. OwnCompany(c)'
    BY <1>w, <2>2, <2>3, <2>4, <2>6 DEF OwnCompany, CallInv, store
  <2>10. QED
    BY <2>4, <2>6, <2>7, <2>8, <2>9 DEF CallInv, CategoryHeld, PastHold, CategoryEmpty,
       SnapshotStands
<1>3. ASSUME ReadCompanyIds(c) PROVE CallInv(c)'
  <2>1. /\ pc[c] \in {"readIds", "rereadIds"}
        /\ pc'[c] = IF pc[c] = "readIds" THEN "countItem" ELSE "stampItem"
        /\ ids'[c] = shopOwnerCompanyIds(req[c].owner)
        /\ UNCHANGED <<store, writer, req, before, touched>>
    BY <1>3 DEF ReadCompanyIds, Go, TypeOK
  <2>2. req[c].owner # None
    BY <1>w, <2>1, OperationOfStep, NoneIsNothing DEF WellFormed
  <2>3. CASE pc[c] = "readIds"
    BY <1>w, <2>1, <2>2, <2>3, OperationOfStep DEF store, CallInv, WellFormed, StepsOf, ItemKnown,
       Minted, CategoryHeld, PastHold, CategoryEmpty, OwnCompany, SnapshotStands, shopOwnerCompanyIds
  <2>4. CASE pc[c] = "rereadIds"
    BY <1>w, <2>1, <2>2, <2>4, OperationOfStep DEF store, CallInv, WellFormed, StepsOf, ItemKnown,
       Minted, CategoryHeld, PastHold, CategoryEmpty, OwnCompany, SnapshotStands, shopOwnerCompanyIds
  <2>5. QED
    BY <2>1, <2>3, <2>4
<1>4. ASSUME throwIfShopOwnerDontOwnItem(c), ~ Refuse(c) PROVE CallInv(c)'
  <2>1. /\ pc[c] = "countItem" /\ ids'[c] = {} /\ OwnsItem(c)
        /\ pc'[c] = IF req[c].op = "itemDel" THEN "rereadIds" ELSE "guardCompany"
        /\ UNCHANGED <<store, writer, req, before, touched>>
    BY <1>4 DEF throwIfShopOwnerDontOwnItem, Go, TypeOK
  <2>2. CASE req[c].op = "itemDel"
    BY <1>w, <2>1, <2>2 DEF store, CallInv, WellFormed, StepsOf, ItemKnown, OwnsItem,
       Minted, CategoryHeld, PastHold, CategoryEmpty, OwnCompany, SnapshotStands
  <2>3. CASE req[c].op = "itemUpdate"
    BY <1>w, <2>1, <2>3 DEF store, CallInv, WellFormed, StepsOf, ItemKnown, OwnsItem,
       Minted, CategoryHeld, PastHold, CategoryEmpty, OwnCompany, SnapshotStands
  <2>4. QED
    BY <1>w, <2>1, <2>2, <2>3, OperationOfStep
<1>5. QED
  BY <1>r, <1>1, <1>2, <1>3, <1>4

LEMMA HoldItemCategoryInv ==
  ASSUME CatalogueInv, NEW c \in Calls, holdItemCategory(c)
  PROVE  CallInv(c)'
<1> USE DEF CatalogueInv
<1>1. WellFormed(c) /\ CallInv(c) /\ pc[c] = "holdCategory"
  BY DEF CallInv, holdItemCategory
<1>2. CASE req[c].category \in retired
  BY <1>2, RefuseInv DEF holdItemCategory
<1>3. CASE req[c].category \notin retired
  <2>1. req[c].category \in Categories /\ req[c].company \in Companies /\ req[c].owner \in Owners
        /\ req[c].op \in {"itemAdd", "itemUpdate"}
    BY <1>1, OperationOfStep DEF WellFormed
  <2>2. writer'[req[c].category] = c /\ UNCHANGED <<store, req, touched>>
    BY <1>3, <2>1 DEF holdItemCategory, Hold, TypeOK, Docs
  <2>3. CASE req[c].op = "itemAdd"
    <3>1. pc' = [pc EXCEPT ![c] = "create"] /\ UNCHANGED <<ids, before>>
      BY <1>3, <2>3 DEF holdItemCategory, Go
    <3>2. QED
      BY <1>1, <1>3, <2>1, <2>2, <2>3, <3>1 DEF TypeOK, store, CallInv, WellFormed, StepsOf,
         ItemKnown,
         Minted, CategoryHeld, PastHold, CategoryEmpty, OwnCompany, SnapshotStands
  <2>4. CASE req[c].op = "itemUpdate"
    <3>1. /\ pc'[c] = "holdCompany"
          /\ ids'[c] = Companies \ Closed
          /\ before'[c] = filed[req[c].item].company
      BY <1>3, <2>4 DEF holdItemCategory, Go, TypeOK
    <3>2. \A d \in ids'[c] : companyDeleted[d] = None
      BY <3>1 DEF Closed
    <3>3. QED
      BY <1>1, <1>3, <2>1, <2>2, <2>4, <3>1, <3>2 DEF store, CallInv, WellFormed, StepsOf,
         ItemKnown,
         Minted, CategoryHeld, PastHold, CategoryEmpty, OwnCompany, SnapshotStands
  <2>5. QED
    BY <2>1, <2>3, <2>4
<1>4. QED
  BY <1>2, <1>3

LEMMA SaveInv ==
  ASSUME CatalogueInv, NEW c \in Calls, holdCompany(c) \/ funItemUpdate(c) \/ CreateItem(c)
  PROVE  CallInv(c)'
<1> USE DEF CatalogueInv
<1>1. WellFormed(c) /\ CallInv(c) /\ pc[c] \in {"holdCompany", "save", "create"}
  BY DEF CallInv, holdCompany, funItemUpdate, CreateItem
<1>r. ASSUME Refuse(c) PROVE CallInv(c)'
  BY <1>r, RefuseInv
<1>t. ASSUME Retry(c), pc[c] # "create" PROVE CallInv(c)'
  BY <1>1, <1>t, RetryInv
<1>2. ASSUME holdCompany(c), ~ Refuse(c), ~ Retry(c) PROVE CallInv(c)'
  <2>1. /\ pc[c] = "holdCompany" /\ req[c].company \in ids[c] /\ ~ Conflicts(c, req[c].company)
        /\ Hold(c, req[c].company) /\ pc'[c] = "save"
        /\ UNCHANGED <<store, req, ids, before, touched>>
    BY <1>2 DEF holdCompany, Go, TypeOK
  <2>2. /\ req[c].op = "itemUpdate" /\ req[c].company \in Docs /\ req[c].category \in Docs
        /\ companyDeleted[req[c].company] = None
    BY <1>1, <2>1, OperationOfStep DEF WellFormed, Docs, Conflicts, CallInv, SnapshotStands
  <2>3. writer'[req[c].company] = c /\ writer'[req[c].category] = c
    BY <1>1, <2>1, <2>2 DEF Hold, TypeOK, CallInv, CategoryHeld, PastHold
  <2>4. QED
    BY <1>1, <2>1, <2>2, <2>3 DEF store, CallInv, WellFormed, StepsOf, ItemKnown,
       Minted, CategoryHeld, PastHold, CategoryEmpty, OwnCompany, SnapshotStands
<1>3. ASSUME funItemUpdate(c), ~ Refuse(c), ~ Retry(c) PROVE CallInv(c)'
  <2>1. /\ pc[c] = "save" /\ owner[before[c]] = req[c].owner /\ ~ Conflicts(c, req[c].item)
        /\ Hold(c, req[c].item) /\ pc'[c] = "commit"
        /\ UNCHANGED <<store, req, ids, before, touched>>
    BY <1>3 DEF funItemUpdate, Go, TypeOK
  <2>2. /\ req[c].op = "itemUpdate" /\ req[c].company \in Docs /\ req[c].category \in Docs
        /\ req[c].item \in Docs /\ filed[req[c].item].company = before[c]
    BY <1>1, <2>1, OperationOfStep DEF WellFormed, Docs, Conflicts, CallInv, SnapshotStands
  <2>3. /\ writer'[req[c].company] = c /\ writer'[req[c].category] = c
        /\ writer'[req[c].item] = c
    BY <1>1, <2>1, <2>2 DEF Hold, TypeOK, CallInv, CategoryHeld, PastHold, SnapshotStands
  <2>4. QED
    BY <1>1, <2>1, <2>2, <2>3 DEF store, CallInv, WellFormed, StepsOf, ItemKnown,
       Minted, CategoryHeld, PastHold, CategoryEmpty, OwnCompany, SnapshotStands
<1>4. ASSUME CreateItem(c) PROVE CallInv(c)'
  <2>1. /\ pc[c] = "create" /\ pc' = [pc EXCEPT ![c] = "commit"] /\ req[c].op = "itemAdd"
        /\ UNCHANGED <<store, writer, req, ids, before, touched>>
    BY <1>1, <1>4, OperationOfStep DEF CreateItem, Go
  <2>2. QED
    BY <1>1, <2>1 DEF TypeOK, store, CallInv, WellFormed, StepsOf, ItemKnown,
       Minted, CategoryHeld, PastHold, CategoryEmpty, OwnCompany, SnapshotStands
<1>5. QED
  BY <1>1, <1>2, <1>3, <1>4, <1>r, <1>t DEF holdCompany, funItemUpdate

LEMMA CategoryDelInv ==
  ASSUME CatalogueInv, NEW c \in Calls, CountCategoryItems(c) \/ MarkCategory(c)
  PROVE  CallInv(c)'
<1> USE DEF CatalogueInv
<1>1. WellFormed(c) /\ CallInv(c) /\ pc[c] \in {"count", "mark"} /\ req[c].op = "itemCategoryDel"
      /\ req[c].category \in Docs
  BY OperationOfStep DEF CallInv, CountCategoryItems, MarkCategory, WellFormed, Docs
<1>2. ASSUME CountCategoryItems(c), ~ Refuse(c) PROVE CallInv(c)'
  <2>1. /\ pc[c] = "count" /\ LiveIn(req[c].category) = {} /\ pc'[c] = "mark"
        /\ UNCHANGED <<store, writer, req, ids, before, touched>>
    BY <1>2 DEF CountCategoryItems, Go, TypeOK
  <2>2. LiveIn(req[c].category)' = {}
    BY <2>1 DEF LiveIn, store
  <2>3. QED
    BY <1>1, <2>1, <2>2 DEF store, CallInv, WellFormed, StepsOf, ItemKnown,
       Minted, CategoryHeld, PastHold, CategoryEmpty, OwnCompany, SnapshotStands
<1>3. ASSUME MarkCategory(c), ~ Retry(c) PROVE CallInv(c)'
  <2>1. /\ pc[c] = "mark" /\ LiveIn(req[c].category) = {} /\ pc'[c] = "commit"
        /\ writer'[req[c].category] = c
        /\ UNCHANGED <<store, req, ids, before, touched>>
    BY <1>1, <1>3 DEF MarkCategory, Conflicts, Hold, Go, TypeOK, CallInv, CategoryEmpty
  <2>2. LiveIn(req[c].category)' = {}
    BY <2>1 DEF LiveIn, store
  <2>3. QED
    BY <1>1, <2>1, <2>2 DEF store, CallInv, WellFormed, StepsOf, ItemKnown,
       Minted, CategoryHeld, PastHold, CategoryEmpty, OwnCompany, SnapshotStands
<1>4. QED
  BY <1>1, <1>2, <1>3, RefuseInv, RetryInv DEF MarkCategory

LEMMA OwnInv ==
  ASSUME CatalogueInv, NEW c \in Calls, Step(c)
  PROVE  CallInv(c)'
BY GuardsInv, HoldItemCategoryInv, SaveInv, CategoryDelInv, StartInv, RefuseInv, FinishInv
DEF CatalogueInv, Step, Work, Fail, CommitItem, funItemDelete, funCompanyDelete, CommitCategory

-------------------------------------------------------------------------------
(* The store part, and the whole, of the invariant.                        *)
LEMMA IntegrityPreserved ==
  ASSUME CatalogueInv, NEW c \in Calls, Step(c)
  PROVE  CategoryIntegrity'
<1>1. SUFFICES ASSUME NEW k \in retired' PROVE LiveIn(k)' = {}
  BY DEF CategoryIntegrity
<1>2. LiveIn(k)' \subseteq LiveIn(k) \/ (CommitItem(c) /\ req[c].category = k)
  BY LiveInShrinks
<1>3. CASE k \in retired
  <2>1. LiveIn(k) = {}
    BY <1>3 DEF CatalogueInv, CategoryIntegrity
  <2>2. ~ (CommitItem(c) /\ req[c].category = k)
    BY <1>3, CommitItemFacts
  <2>3. QED
    BY <1>2, <2>1, <2>2
<1>4. CASE k \notin retired
  <2>1. CommitCategory(c) /\ k = req[c].category
    BY <1>4, StoreWrites DEF store, CommitItem, funCompanyDelete, CommitCategory
  <2>2. LiveIn(k) = {} /\ ~ CommitItem(c)
    BY <2>1 DEF CommitCategory, CommitItem, CatalogueInv, CallInv, CategoryEmpty
  <2>3. QED
    BY <1>2, <2>2
<1>5. QED
  BY <1>3, <1>4

LEMMA CompanyAddInv ==
  ASSUME CatalogueInv, NEW o \in Owners, NEW d \in Companies, companyAdd(o, d), NEW x \in Calls
  PROVE  CategoryIntegrity' /\ CallInv(x)'
<1> USE DEF CatalogueInv
<1>1. /\ owner[d] = None /\ owner' = [owner EXCEPT ![d] = o]
      /\ UNCHANGED <<filed, itemDeleted, companyDeleted, retired,
                     writer, pc, req, ids, before, touched>>
  BY DEF companyAdd
<1>2. CategoryIntegrity'
  BY <1>1 DEF CategoryIntegrity, LiveIn
<1>3. \A e \in Companies : owner[e] # None => owner'[e] = owner[e]
  BY <1>1 DEF TypeOK
<1>4. CallInv(x) /\ req[x].op \in Ops
  BY DEF TypeOK, Requests
<1>5. OwnCompany(x)'
  <2>3. ASSUME req[x].op \in {"itemAdd", "itemUpdate", "companyDel"},
               pc[x] \notin {"idle", "readIds", "countItem", "guardCompany"}
        PROVE  owner'[req[x].company] = req[x].owner
    <3>1. /\ req[x].company \in Companies /\ req[x].owner \in Owners
          /\ owner[req[x].company] = req[x].owner
      BY <1>4, <2>3 DEF CallInv, WellFormed, OwnCompany
    <3>2. QED
      BY <1>3, <3>1, NoneIsNothing
  <2>4. QED
    BY <1>1, <2>3 DEF OwnCompany
<1>6. SnapshotStands(x)'
  <2>1. ASSUME req[x].op = "itemUpdate", pc[x] = "commit"
        PROVE  owner'[before[x]] = req[x].owner
    <3>1. /\ req[x].owner \in Owners /\ req[x].item \in Items
          /\ filed[req[x].item] # None /\ filed[req[x].item].company = before[x]
          /\ owner[before[x]] = req[x].owner
      BY <1>4, <2>1 DEF CallInv, WellFormed, ItemKnown, SnapshotStands
    <3>2. before[x] \in Companies
      BY <3>1 DEF TypeOK, Filings
    <3>3. QED
      BY <1>3, <3>1, <3>2, NoneIsNothing
  <2>2. QED
    BY <1>1, <1>4, <2>1 DEF SnapshotStands, CallInv
<1>7. QED
  BY <1>1, <1>2, <1>4, <1>5, <1>6 DEF CallInv, WellFormed, ItemKnown, Minted, CategoryHeld,
     PastHold,
     CategoryEmpty, LiveIn

LEMMA InitInv == Init => CatalogueInv
<1>1. NoRequest \in Requests
  BY DEF NoRequest, Request, Requests, Ops
<1>2. Init => TypeOK
  BY <1>1 DEF Init, TypeOK, Steps
<1>3. Init => CategoryIntegrity
  BY DEF Init, CategoryIntegrity
<1>4. ASSUME Init, NEW c \in Calls PROVE CallInv(c)
  BY <1>4 DEF Init, NoRequest, Request, CallInv, ItemKnown, Minted, CategoryHeld,
     PastHold, CategoryEmpty, OwnCompany, SnapshotStands
<1>5. QED
  BY <1>2, <1>3, <1>4 DEF CatalogueInv

LEMMA NextInv == CatalogueInv /\ [Next]_vars => CatalogueInv'
<1>1. SUFFICES ASSUME CatalogueInv, [Next]_vars
               PROVE  CategoryIntegrity' /\ \A x \in Calls : CallInv(x)'
  BY TypePreserved DEF CatalogueInv
<1>2. CASE UNCHANGED vars
  BY <1>1, <1>2 DEF vars, CatalogueInv, CategoryIntegrity, LiveIn, CallInv, WellFormed, ItemKnown,
     Minted, CategoryHeld, PastHold, CategoryEmpty, OwnCompany, SnapshotStands
<1>3. ASSUME NEW c \in Calls, Step(c)
      PROVE  CategoryIntegrity' /\ \A x \in Calls : CallInv(x)'
  BY <1>1, <1>3, IntegrityPreserved, OwnInv, OthersInv
<1>4. ASSUME NEW o \in Owners, NEW d \in Companies, companyAdd(o, d)
      PROVE  CategoryIntegrity' /\ \A x \in Calls : CallInv(x)'
  <2>1. CategoryIntegrity'
    BY <1>1, <1>4 DEF companyAdd, CatalogueInv, CategoryIntegrity, LiveIn
  <2>2. QED
    BY <1>1, <1>4, <2>1, CompanyAddInv
<1>5. QED
  BY <1>1, <1>2, <1>3, <1>4 DEF Next, Step

(* CatalogueInv is inductive: what each resolver, the admin's delete and   *)
(* MongoDB's conflicts keep true at every step, for any number of calls.   *)
THEOREM Invariance == Spec => []CatalogueInv
BY InitInv, NextInv, PTL DEF Spec

(* Every variable stays in its type.                                       *)
THEOREM TypeCorrectness == Spec => []TypeOK
<1>1. CatalogueInv => TypeOK
  BY DEF CatalogueInv
<1>2. QED
  BY <1>1, Invariance, PTL

(* holdItemCategory's write closes the write skew with the admin's delete:  *)
(* no live item is ever filed under a retired category.                    *)
THEOREM NoItemInRetiredCategory == Spec => []CategoryIntegrity
<1>1. CatalogueInv => CategoryIntegrity
  BY DEF CatalogueInv
<1>2. QED
  BY <1>1, Invariance, PTL

-------------------------------------------------------------------------------
(* Every step is a step of Filing, or changes nothing Filing speaks of.    *)
LEMMA StepRefines ==
  ASSUME CatalogueInv, NEW c \in Calls, Step(c)
  PROVE  [Abstract!FilingNext]_(Abstract!filingVars)
<1> USE DEF CatalogueInv
<1>1. CASE UNCHANGED store
  BY <1>1 DEF store, Abstract!filingVars, Closed
<1>2. CASE CommitItem(c)
  <2>1. DEFINE i == req[c].item
               d == req[c].company
               k == req[c].category
  <2>2. /\ i \in Items /\ d \in Companies /\ k \in Categories /\ k \notin retired
        /\ filed' = [filed EXCEPT ![i] = [company |-> d, category |-> k]]
        /\ UNCHANGED <<itemDeleted, owner, companyDeleted, retired>>
    BY <1>2, CommitItemFacts DEF CommitItem
  <2>3. /\ CallInv(c) /\ pc[c] = "commit" /\ WellFormed(c)
        /\ req[c].op \in {"itemAdd", "itemUpdate"} /\ req[c].owner \in Owners
    BY <1>2 DEF CommitItem, CallInv, WellFormed
  <2>4. owner[d] = req[c].owner /\ owner[d] # None
    BY <2>3, NoneIsNothing DEF CallInv, OwnCompany
  <2>5. CASE req[c].op = "itemAdd"
    <3>1. filed[i] = None
      BY <2>3, <2>5 DEF CallInv, ItemKnown, Minted
    <3>2. Abstract!Add(i, d, k)
      BY <2>2, <2>4, <3>1 DEF Abstract!Add, Closed
    <3>3. QED
      BY <2>2, <3>2 DEF Abstract!FilingNext
  <2>6. CASE req[c].op = "itemUpdate"
    <3>1. filed[i] # None /\ companyDeleted[d] = None
      BY <2>3, <2>6 DEF CallInv, ItemKnown, SnapshotStands
    <3>2. owner[filed[i].company] = req[c].owner
      BY <2>3, <2>6 DEF CallInv, SnapshotStands
    <3>3. Abstract!Save(i, d, k)
      BY <2>2, <2>4, <3>1, <3>2 DEF Abstract!Save, Closed
    <3>4. QED
      BY <2>2, <3>3 DEF Abstract!FilingNext
  <2>7. QED
    BY <2>3, <2>5, <2>6
<1>3. CASE /\ funItemDelete(c)
           /\ itemDeleted' = [itemDeleted EXCEPT ![req[c].item] = c]
           /\ UNCHANGED <<filed, owner, companyDeleted, retired>>
  <2>1. PICK i \in Items : i = req[c].item /\ filed[i] # None
    BY <1>3, OperationOfStep DEF funItemDelete, CallInv, WellFormed, ItemKnown
  <2>2. {j \in Items : itemDeleted'[j] # None} = {j \in Items : itemDeleted[j] # None} \cup {i}
    BY <1>3, <2>1, NoneIsNothing DEF TypeOK
  <2>3. Abstract!Withdraw(i)
    BY <1>3, <2>1, <2>2 DEF Abstract!Withdraw, Closed
  <2>4. QED
    BY <2>3 DEF Abstract!FilingNext
<1>4. CASE funCompanyDelete(c)
  <2>1. /\ req[c].company \in Companies /\ req[c].owner \in Owners
        /\ owner[req[c].company] = req[c].owner
    BY <1>4, OperationOfStep DEF funCompanyDelete, CallInv, WellFormed, OwnCompany
  <2>2. Closed' = Closed \cup {req[c].company}
    BY <1>4, <2>1, NoneIsNothing DEF funCompanyDelete, Closed, TypeOK
  <2>3. Abstract!Close(req[c].company)
    BY <1>4, <2>1, <2>2, NoneIsNothing DEF Abstract!Close, funCompanyDelete
  <2>4. QED
    BY <2>1, <2>3 DEF Abstract!FilingNext
<1>5. CASE CommitCategory(c)
  <2>1. req[c].category \in Categories /\ LiveIn(req[c].category) = {}
    BY <1>5 DEF CommitCategory, CallInv, WellFormed, CategoryEmpty
  <2>2. Abstract!LiveIn(req[c].category) = {}
    BY <2>1 DEF Abstract!LiveIn, LiveIn
  <2>3. Abstract!RetireCategory(req[c].category)
    BY <1>5, <2>2 DEF Abstract!RetireCategory, CommitCategory, Closed
  <2>4. QED
    BY <2>1, <2>3 DEF Abstract!FilingNext
<1>6. QED
  BY <1>1, <1>2, <1>3, <1>4, <1>5, StoreWrites

LEMMA NextRefines ==
  CatalogueInv /\ [Next]_vars => [Abstract!FilingNext]_(Abstract!filingVars)
<1>1. SUFFICES ASSUME CatalogueInv, [Next]_vars
               PROVE  [Abstract!FilingNext]_(Abstract!filingVars)
  OBVIOUS
<1>2. CASE UNCHANGED vars
  BY <1>2 DEF vars, Abstract!filingVars, Closed
<1>3. ASSUME NEW o \in Owners, NEW d \in Companies, companyAdd(o, d)
      PROVE  [Abstract!FilingNext]_(Abstract!filingVars)
  <2>1. Abstract!Found(d, o)
    BY <1>3 DEF companyAdd, Abstract!Found, Closed
  <2>2. QED
    BY <2>1 DEF Abstract!FilingNext
<1>4. QED
  BY <1>1, <1>2, <1>3, StepRefines DEF Next, Step

(* The calls of the service, of any number and however they interleave, do  *)
(* what the operations of Filing do in one step each.                      *)
THEOREM Refinement == Spec => ImplementsFiling
<1>1. Init => Abstract!FilingInit
  BY DEF Init, Abstract!FilingInit, Closed
<1>2. QED
  BY <1>1, Invariance, NextRefines, PTL DEF Spec, ImplementsFiling, Abstract!FilingSpec

(* An item changes company only within one owner's open companies.         *)
THEOREM TransfersStayWithOwner == Spec => TransferIntegrity
<1>1. ASSUME CatalogueInv, [Next]_vars, NEW i \in Items,
             filed[i] # None, filed'[i].company # filed[i].company
      PROVE  /\ owner'[filed'[i].company] = owner[filed[i].company]
             /\ filed'[i].company \notin Closed'
  <2>1. [Abstract!FilingNext]_(Abstract!filingVars)
    BY <1>1, NextRefines
  <2>2. PICK j \in Items, d \in Companies, k \in Categories : Abstract!Add(j, d, k) \/ Abstract!Save(j, d, k)
    BY <1>1, <2>1 DEF Abstract!FilingNext, Abstract!filingVars, Abstract!Withdraw, Abstract!Found,
       Abstract!Close, Abstract!RetireCategory
  <2>3. filed \in [Items -> Filings \cup {None}]
    BY <1>1 DEF CatalogueInv, TypeOK
  <2>4. j = i /\ filed' = [filed EXCEPT ![j] = [company |-> d, category |-> k]]
    BY <1>1, <2>2, <2>3 DEF Abstract!Add, Abstract!Save
  <2>5. Abstract!Save(i, d, k) /\ filed'[i].company = d
    BY <1>1, <2>2, <2>3, <2>4 DEF Abstract!Add
  <2>6. QED
    BY <2>5 DEF Abstract!Save
<1>2. CatalogueInv /\ [Next]_vars =>
        [\A i \in Items :
           filed[i] # None /\ filed'[i].company # filed[i].company =>
             /\ owner'[filed'[i].company] = owner[filed[i].company]
             /\ filed'[i].company \notin Closed']_vars
  BY <1>1
<1>3. QED
  BY <1>2, Invariance, PTL DEF Spec, TransferIntegrity
===============================================================================
