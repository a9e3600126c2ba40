------------------------------- MODULE Catalogue -------------------------------
(***************************************************************************)
(* Items, companies and categories as this service and its admin sibling   *)
(* write them.  A call (one GraphQL resolver in flight) is a process that  *)
(* takes one step per database round trip, so that two calls interleave    *)
(* wherever the code awaits.                                               *)
(*                                                                         *)
(* MongoDB's transactions are external and modelled as snapshot            *)
(* isolation: a transaction reads the documents committed when its first   *)
(* operation ran; a write of a document that another transaction has       *)
(* written (`writer`) or that was committed since (`touched`) is a         *)
(* WriteConflict, on which withTransaction runs its callback again.  A     *)
(* write outside a transaction waits for the document's writer.            *)
(***************************************************************************)

CONSTANTS Owners, Companies, Categories, Items, Calls, None

Docs == Categories \cup Companies \cup Items

ASSUME NoneIsNothing ==
  None \notin Owners \cup Docs \cup Calls \cup [company : Companies, category : Categories]

VARIABLES
  filed,           \* item -> its idCompany and idCategory, None before it exists
  itemDeleted,     \* item -> the call whose stamp its `deleted` field holds
  owner,           \* company -> its idShopOwner, None before it exists
  companyDeleted,  \* company -> the call whose stamp its `deleted` field holds
  retired,         \* the categories with a `deleted` field
  writer,          \* document -> the transaction that wrote it and is still open
  pc,              \* call -> the round trip it makes next
  req,             \* call -> its arguments
  ids,             \* call -> the companies shopOwnerCompanyIds answered it; in a
                   \*         transaction, the live ones of its snapshot
  before,          \* call -> idCompany of its item in the transaction's snapshot
  touched          \* call -> documents others committed since its snapshot

store == <<filed, itemDeleted, owner, companyDeleted, retired>>
vars == <<filed, itemDeleted, owner, companyDeleted, retired,
          writer, pc, req, ids, before, touched>>

Filings == [company : Companies, category : Categories]
Ops == {"itemAdd", "itemUpdate", "itemDel", "companyDel", "itemCategoryDel"}
Steps == {"idle", "guardCompany", "guardCategory", "readIds", "countItem",
          "holdCategory", "holdCompany", "create", "save", "count", "mark",
          "commit", "rereadIds", "stampItem", "stampCompany"}
InTransaction == {"holdCompany", "create", "save", "mark", "commit"}

Requests == [op : Ops,
             owner : Owners \cup {None},
             item : Items \cup {None},
             company : Companies \cup {None},
             category : Categories \cup {None}]

Request(op, o, i, d, k) == [op |-> op, owner |-> o, item |-> i, company |-> d, category |-> k]

NoRequest == Request("itemAdd", None, None, None, None)

Init ==
  /\ filed = [i \in Items |-> None]
  /\ itemDeleted = [i \in Items |-> None]
  /\ owner = [d \in Companies |-> None]
  /\ companyDeleted = [d \in Companies |-> None]
  /\ retired = {}
  /\ writer = [d \in Docs |-> None]
  /\ pc = [c \in Calls |-> "idle"]
  /\ req = [c \in Calls |-> NoRequest]
  /\ ids = [c \in Calls |-> {}]
  /\ before = [c \in Calls |-> None]
  /\ touched = [c \in Calls |-> {}]

Closed == {d \in Companies : companyDeleted[d] # None}

LiveIn(k) ==
  {i \in Items : filed[i] # None /\ itemDeleted[i] = None /\ filed[i].category = k}

-------------------------------------------------------------------------------
(* What a step of a call does besides its own write. *)

Go(c, step) == pc' = [pc EXCEPT ![c] = step]

Held(c) == {d \in Docs : writer[d] = c}

Release(c) == writer' = [d \in Docs |-> IF writer[d] = c THEN None ELSE writer[d]]

Hold(c, d) == writer' = [writer EXCEPT ![d] = c]

(* The call answers its client, having committed a write of the documents D. *)
Finish(c, D) ==
  /\ Go(c, "idle")
  /\ Release(c)
  /\ req' = [req EXCEPT ![c] = NoRequest]
  /\ ids' = [ids EXCEPT ![c] = {}]
  /\ before' = [before EXCEPT ![c] = None]
  /\ touched' = [x \in Calls |-> IF x = c THEN {}
                                 ELSE IF pc[x] \in InTransaction THEN touched[x] \cup D
                                 ELSE touched[x]]

(* The call answers an error: nothing it wrote is kept. *)
Refuse(c) == Finish(c, {}) /\ UNCHANGED store

Conflicts(c, d) == writer[d] \notin {None, c} \/ d \in touched[c]

(* Mutant: the aborted attempt keeps its documents locked.                 *)
Retry_KeepsLocks(c) ==
  /\ Go(c, IF req[c].op = "itemCategoryDel" THEN "count" ELSE "holdCategory")
  /\ ids' = [ids EXCEPT ![c] = {}]
  /\ before' = [before EXCEPT ![c] = None]
  /\ touched' = [touched EXCEPT ![c] = {}]
  /\ UNCHANGED <<store, writer, req>>

(* WriteConflict carries TransientTransactionError: the callback runs again. *)
Retry(c) ==
  /\ Go(c, IF req[c].op = "itemCategoryDel" THEN "count" ELSE "holdCategory")
  /\ Release(c)
  /\ ids' = [ids EXCEPT ![c] = {}]
  /\ before' = [before EXCEPT ![c] = None]
  /\ touched' = [touched EXCEPT ![c] = {}]
  /\ UNCHANGED <<store, req>>

-------------------------------------------------------------------------------
(* The guards, outside the transactions. *)

shopOwnerCompanyIds(o) == {d \in Companies : owner[d] = o /\ companyDeleted[d] = None}

FirstStep == [itemAdd         |-> "guardCompany",
              itemUpdate      |-> "readIds",
              itemDel         |-> "readIds",
              companyDel      |-> "guardCompany",
              itemCategoryDel |-> "count"]

(* A resolver starts on arguments of the client's choosing: any id, its     *)
(* own or another owner's, live or gone.                                    *)
Start(c, r) ==
  /\ pc[c] = "idle"
  /\ req' = [req EXCEPT ![c] = r]
  /\ Go(c, FirstStep[r.op])
  /\ UNCHANGED <<store, writer, ids, before, touched>>

ItemAdd(o, d, k)       == Request("itemAdd", o, None, d, k)
ItemUpdate(o, i, d, k) == Request("itemUpdate", o, i, d, k)
ItemDel(o, i)          == Request("itemDel", o, i, None, None)
CompanyDel(o, d)       == Request("companyDel", o, None, d, None)
ItemCategoryDel(k)     == Request("itemCategoryDel", None, None, None, k)

AfterGuardCompany == [itemAdd    |-> "guardCategory",
                      itemUpdate |-> "holdCategory",
                      companyDel |-> "stampCompany"]

(* Mutant: the guard asks only that the company be live.                   *)
throwIfShopOwnerDontOwnCompany_AnyOwner(c) ==
  /\ pc[c] = "guardCompany"
  /\ IF req[c].company \notin Closed /\ owner[req[c].company] # None
     THEN /\ Go(c, AfterGuardCompany[req[c].op])
          /\ UNCHANGED <<store, writer, req, ids, before, touched>>
     ELSE Refuse(c)

throwIfShopOwnerDontOwnCompany(c) ==
  /\ pc[c] = "guardCompany"
  /\ IF req[c].company \in shopOwnerCompanyIds(req[c].owner)
     THEN /\ Go(c, AfterGuardCompany[req[c].op])
          /\ UNCHANGED <<store, writer, req, ids, before, touched>>
     ELSE Refuse(c)

WithItem(r, i) == Request(r.op, r.owner, i, r.company, r.category)

(* An _id nobody else has is minted once the category guard has passed. *)
throwIfItemCategoryMissing(c) ==
  /\ pc[c] = "guardCategory"
  /\ IF req[c].category \notin retired
     THEN /\ \E i \in Items : /\ filed[i] = None
                              /\ \A x \in Calls : req[x].item # i
                              /\ req' = [req EXCEPT ![c] = WithItem(req[c], i)]
          /\ Go(c, "holdCategory")
          /\ UNCHANGED <<store, writer, ids, before, touched>>
     ELSE Refuse(c)

(* shopOwnerCompanyIds, the first await of the item guard and of itemDel. *)
ReadCompanyIds(c) ==
  /\ pc[c] \in {"readIds", "rereadIds"}
  /\ ids' = [ids EXCEPT ![c] = shopOwnerCompanyIds(req[c].owner)]
  /\ Go(c, IF pc[c] = "readIds" THEN "countItem" ELSE "stampItem")
  /\ UNCHANGED <<store, writer, req, before, touched>>

OwnsItem(c) ==
  LET i == req[c].item
  IN  filed[i] # None /\ itemDeleted[i] = None /\ filed[i].company \in ids[c]

throwIfShopOwnerDontOwnItem(c) ==
  /\ pc[c] = "countItem"
  /\ IF OwnsItem(c)
     THEN /\ Go(c, IF req[c].op = "itemDel" THEN "rereadIds" ELSE "guardCompany")
          /\ ids' = [ids EXCEPT ![c] = {}]
          /\ UNCHANGED <<store, writer, req, before, touched>>
     ELSE Refuse(c)

-------------------------------------------------------------------------------
(* The transactions of itemAdd and itemUpdate. *)

(* Mutant: the category is read in the transaction, not written.            *)
holdItemCategory_ReadOnly(c) ==
  /\ pc[c] = "holdCategory"
  /\ IF req[c].category \in retired
     THEN Refuse(c)
     ELSE /\ UNCHANGED writer
          /\ IF req[c].op = "itemAdd"
             THEN Go(c, "create") /\ UNCHANGED <<ids, before>>
             ELSE /\ Go(c, "holdCompany")
                  /\ ids' = [ids EXCEPT ![c] = Companies \ Closed]
                  /\ before' = [before EXCEPT ![c] = filed[req[c].item].company]
          /\ UNCHANGED <<store, req, touched>>

(* Mutant: `before` is the whole document rather than its idCompany.        *)
holdItemCategory_WholeBefore(c) ==
  /\ pc[c] = "holdCategory"
  /\ IF req[c].category \in retired
     THEN Refuse(c)
     ELSE /\ writer[req[c].category] = None
          /\ Hold(c, req[c].category)
          /\ IF req[c].op = "itemAdd"
             THEN Go(c, "create") /\ UNCHANGED <<ids, before>>
             ELSE /\ Go(c, "holdCompany")
                  /\ ids' = [ids EXCEPT ![c] = Companies \ Closed]
                  /\ before' = [before EXCEPT ![c] = filed[req[c].item]]
          /\ UNCHANGED <<store, req, touched>>

(* The first operation of the transaction, so it takes the snapshot: what  *)
(* the save will read of it, the live companies and the company of the     *)
(* item, is noted here.  While another transaction holds the category   *)
(* every attempt is a WriteConflict with nothing to undo.                  *)
holdItemCategory(c) ==
  /\ pc[c] = "holdCategory"
  /\ IF req[c].category \in retired
     THEN Refuse(c)
     ELSE /\ writer[req[c].category] = None
          /\ Hold(c, req[c].category)
          /\ IF req[c].op = "itemAdd"
             THEN Go(c, "create") /\ UNCHANGED <<ids, before>>
             ELSE /\ Go(c, "holdCompany")
                  /\ ids' = [ids EXCEPT ![c] = Companies \ Closed]
                  /\ before' = [before EXCEPT ![c] = filed[req[c].item].company]
          /\ UNCHANGED <<store, req, touched>>

(* Mutant: the destination is read in the transaction, not written.         *)
holdCompany_ReadOnly(c) ==
  /\ pc[c] = "holdCompany"
  /\ IF req[c].company \notin ids[c] THEN Refuse(c)
     ELSE /\ Go(c, "save")
          /\ UNCHANGED <<store, writer, req, ids, before, touched>>

holdCompany(c) ==
  /\ pc[c] = "holdCompany"
  /\ IF req[c].company \notin ids[c] THEN Refuse(c)
     ELSE IF Conflicts(c, req[c].company) THEN Retry(c)
     ELSE /\ Hold(c, req[c].company)
          /\ Go(c, "save")
          /\ UNCHANGED <<store, req, ids, before, touched>>

funItemUpdate(c) ==
  /\ pc[c] = "save"
  /\ IF before[c] \notin ids[c] \/ owner[before[c]] # req[c].owner THEN Refuse(c)
     ELSE IF Conflicts(c, req[c].item) THEN Retry(c)
     ELSE /\ Hold(c, req[c].item)
          /\ Go(c, "commit")
          /\ UNCHANGED <<store, req, ids, before, touched>>

(* The uncommitted insert is a document no other transaction can find.     *)
CreateItem(c) ==
  /\ pc[c] = "create"
  /\ Go(c, "commit")
  /\ UNCHANGED <<store, writer, req, ids, before, touched>>

CommitItem(c) ==
  /\ pc[c] = "commit"
  /\ req[c].op \in {"itemAdd", "itemUpdate"}
  /\ filed' = [filed EXCEPT ![req[c].item] =
                 [company |-> req[c].company, category |-> req[c].category]]
  /\ Finish(c, Held(c))
  /\ UNCHANGED <<itemDeleted, owner, companyDeleted, retired>>

-------------------------------------------------------------------------------
(* The writes outside transactions. *)

funItemDelete(c) ==
  /\ pc[c] = "stampItem"
  /\ IF filed[req[c].item].company \notin ids[c] THEN Refuse(c)
     ELSE /\ writer[req[c].item] = None
          /\ itemDeleted' = [itemDeleted EXCEPT ![req[c].item] = c]
          /\ Finish(c, {req[c].item})
          /\ UNCHANGED <<filed, owner, companyDeleted, retired>>

funCompanyDelete(c) ==
  /\ pc[c] = "stampCompany"
  /\ writer[req[c].company] = None
  /\ companyDeleted' = [companyDeleted EXCEPT ![req[c].company] = c]
  /\ Finish(c, {req[c].company})
  /\ UNCHANGED <<filed, itemDeleted, owner, retired>>

companyAdd(o, d) ==
  /\ owner[d] = None
  /\ owner' = [owner EXCEPT ![d] = o]
  /\ UNCHANGED <<filed, itemDeleted, companyDeleted, retired,
                 writer, pc, req, ids, before, touched>>

-------------------------------------------------------------------------------
(* funItemCategoryDelete of the admin service, external: what the comment   *)
(* of holdItemCategory says of it.  One transaction counts the live items  *)
(* of the category and stamps it.                                          *)

CountCategoryItems(c) ==
  /\ pc[c] = "count"
  /\ IF LiveIn(req[c].category) # {} \/ req[c].category \in retired THEN Refuse(c)
     ELSE /\ Go(c, "mark")
          /\ UNCHANGED <<store, writer, req, ids, before, touched>>

(* Mutant: only open writers conflict, not commits since the snapshot.      *)
MarkCategory_IgnoresSnapshot(c) ==
  /\ pc[c] = "mark"
  /\ writer[req[c].category] = None
  /\ Hold(c, req[c].category)
  /\ Go(c, "commit")
  /\ UNCHANGED <<store, req, ids, before, touched>>

MarkCategory(c) ==
  /\ pc[c] = "mark"
  /\ IF Conflicts(c, req[c].category) THEN Retry(c)
     ELSE /\ Hold(c, req[c].category)
          /\ Go(c, "commit")
          /\ UNCHANGED <<store, req, ids, before, touched>>

CommitCategory(c) ==
  /\ pc[c] = "commit"
  /\ req[c].op = "itemCategoryDel"
  /\ retired' = retired \cup {req[c].category}
  /\ Finish(c, Held(c))
  /\ UNCHANGED <<filed, itemDeleted, owner, companyDeleted>>

-------------------------------------------------------------------------------
(* A call may also fail anywhere between two round trips: a duplicate slug, *)
(* the driver, withTransaction out of time, the death of its process.      *)
Fail(c) == pc[c] # "idle" /\ Refuse(c)

Work(c) ==
  \/ throwIfShopOwnerDontOwnCompany(c)
  \/ throwIfItemCategoryMissing(c)
  \/ ReadCompanyIds(c)
  \/ throwIfShopOwnerDontOwnItem(c)
  \/ holdItemCategory(c)
  \/ holdCompany(c)
  \/ funItemUpdate(c)
  \/ CreateItem(c)
  \/ CommitItem(c)
  \/ funItemDelete(c)
  \/ funCompanyDelete(c)
  \/ CountCategoryItems(c)
  \/ MarkCategory(c)
  \/ CommitCategory(c)

StartCall(c) ==
  \/ \E o \in Owners, d \in Companies, k \in Categories :
       \/ Start(c, ItemAdd(o, d, k))
       \/ \E i \in Items : Start(c, ItemUpdate(o, i, d, k))
  \/ \E o \in Owners, i \in Items : Start(c, ItemDel(o, i))
  \/ \E o \in Owners, d \in Companies : Start(c, CompanyDel(o, d))
  \/ \E k \in Categories : Start(c, ItemCategoryDel(k))

Next ==
  \/ \E c \in Calls : StartCall(c) \/ Work(c) \/ Fail(c)
  \/ \E o \in Owners, d \in Companies : companyAdd(o, d)

Spec == Init /\ [][Next]_vars

(* The event loop and the driver keep a call in flight moving. *)
FairSpec == Spec /\ \A c \in Calls : WF_vars(Work(c))
-------------------------------------------------------------------------------
(* Every variable keeps the shape its collection, or the resolver's local   *)
(* variable, has.                                                          *)
TypeOK ==
  /\ filed \in [Items -> Filings \cup {None}]
  /\ itemDeleted \in [Items -> Calls \cup {None}]
  /\ owner \in [Companies -> Owners \cup {None}]
  /\ companyDeleted \in [Companies -> Calls \cup {None}]
  /\ retired \subseteq Categories
  /\ writer \in [Docs -> Calls \cup {None}]
  /\ pc \in [Calls -> Steps]
  /\ req \in [Calls -> Requests]
  /\ ids \in [Calls -> SUBSET Companies]
  /\ before \in [Calls -> Companies \cup {None}]
  /\ touched \in [Calls -> SUBSET Docs]

(* No live item is filed under a retired category, whatever the order in    *)
(* which an item write and the admin's delete count, hold, stamp and       *)
(* commit: the write skew that holdItemCategory closes.                    *)
CategoryIntegrity == \A k \in retired : LiveIn(k) = {}

(* Why it holds.  A call carries the arguments its resolver needs, and     *)
(* makes only the round trips of its resolver ...                          *)
StepsOf ==
  [itemAdd         |-> {"guardCompany", "guardCategory", "holdCategory", "create", "commit"},
   itemUpdate      |-> {"readIds", "countItem", "guardCompany", "holdCategory",
                        "holdCompany", "save", "commit"},
   itemDel         |-> {"readIds", "countItem", "rereadIds", "stampItem"},
   companyDel      |-> {"guardCompany", "stampCompany"},
   itemCategoryDel |-> {"count", "mark", "commit"}]

WellFormed(c) ==
  LET r == req[c]
  IN  /\ pc[c] \in StepsOf[r.op]
      /\ r.op \in {"itemAdd", "itemUpdate", "itemCategoryDel"} => r.category \in Categories
      /\ r.op \in {"itemAdd", "itemUpdate", "companyDel"} => r.company \in Companies
      /\ r.op \in {"itemUpdate", "itemDel"} => r.item \in Items
      /\ r.op # "itemCategoryDel" => r.owner \in Owners

(* ... past its guard the item of a save or a delete exists, and that of an *)
(* itemAdd, once minted, does not and is its own ...                       *)
Minted(c) == req[c].op = "itemAdd" /\ pc[c] \in {"holdCategory", "create", "commit"}

ItemKnown(c) ==
  /\ req[c].op \in {"itemUpdate", "itemDel"} /\ pc[c] \notin {"idle", "readIds", "countItem"} =>
       filed[req[c].item] # None
  /\ Minted(c) => /\ req[c].item \in Items
                  /\ filed[req[c].item] = None
                  /\ \A x \in Calls \ {c} : Minted(x) => req[x].item # req[c].item

(* ... past holdItemCategory the category stays live and the call its only  *)
(* writer ...                                                              *)
PastHold(c) == \/ pc[c] \in {"holdCompany", "create", "save"}
               \/ pc[c] = "commit" /\ req[c].op \in {"itemAdd", "itemUpdate"}

CategoryHeld(c) ==
  PastHold(c) => writer[req[c].category] = c /\ req[c].category \notin retired

(* ... past its count the admin's delete has an empty category, or the      *)
(* category among the documents that make its stamp a WriteConflict ...    *)
CategoryEmpty(c) ==
  LET k == req[c].category
  IN  /\ pc[c] = "mark" => LiveIn(k) = {} \/ k \in touched[c]
      /\ pc[c] = "commit" /\ req[c].op = "itemCategoryDel" =>
           writer[k] = c /\ LiveIn(k) = {}

(* ... the company its guard matched is its owner's, since a company never  *)
(* changes hands ...                                                       *)
OwnCompany(c) ==
  /\ req[c].op \in {"itemAdd", "itemUpdate", "companyDel"}
  /\ pc[c] \notin {"idle", "readIds", "countItem", "guardCompany"}
  => owner[req[c].company] = req[c].owner

(* ... and what a save read in its snapshot stands, or is a conflict: the   *)
(* destination is open, the item is where `before` says.                   *)
SnapshotStands(c) ==
  LET r == req[c]
  IN  /\ pc[c] = "holdCompany" =>
           \A d \in ids[c] : companyDeleted[d] = None \/ d \in touched[c]
      /\ r.op = "itemUpdate" /\ pc[c] \in {"save", "commit"} =>
           writer[r.company] = c /\ companyDeleted[r.company] = None
      /\ pc[c] \in {"holdCompany", "save"} =>
           filed[r.item].company = before[c] \/ r.item \in touched[c]
      /\ r.op = "itemUpdate" /\ pc[c] = "commit" =>
           /\ writer[r.item] = c
           /\ filed[r.item].company = before[c]
           /\ owner[before[c]] = req[c].owner

CallInv(c) ==
  /\ pc[c] # "idle" => WellFormed(c)
  /\ ItemKnown(c)
  /\ CategoryHeld(c)
  /\ CategoryEmpty(c)
  /\ OwnCompany(c)
  /\ SnapshotStands(c)

(* The inductive invariant, from which CategoryIntegrity, TransferIntegrity *)
(* and ImplementsFiling follow.                                            *)
CatalogueInv == TypeOK /\ CategoryIntegrity /\ \A c \in Calls : CallInv(c)

-------------------------------------------------------------------------------
(* An item changes company only to an open one of the same owner: the two  *)
(* ownership guards of itemUpdate run outside its transaction, holdCompany *)
(* and the filter of funItemUpdate have to make up for what changes after. *)
TransferIntegrity ==
  [][\A i \in Items :
       filed[i] # None /\ filed'[i].company # filed[i].company =>
         /\ owner'[filed'[i].company] = owner[filed[i].company]
         /\ filed'[i].company \notin Closed']_vars

(* Every call, however its round trips interleave with the others', has the *)
(* effect of one indivisible operation of Filing or none.                  *)
Abstract == INSTANCE Filing WITH
  withdrawn <- {i \in Items : itemDeleted[i] # None},
  closed <- Closed

ImplementsFiling == Abstract!FilingSpec

(* No document stays locked: a transaction ends, or gives up what it holds  *)
(* to run again, whatever the conflicts it meets.                          *)
LocksReleased == \A d \in Docs, c \in Calls : writer[d] = c ~> writer[d] # c

-------------------------------------------------------------------------------
(* What the repository says of the program and the code does not do.        *)

(* companyDel: a second call on the same company answers 403 rather than    *)
(* repeating the stamp.                                                    *)
CompanyStampedOnce ==
  [][\A d \in Closed : companyDeleted'[d] = companyDeleted[d]]_vars
===============================================================================
