------------------------------- MODULE Storefront -------------------------------
(***************************************************************************)
(* What the public site shows: the `published` flags of companies and      *)
(* items, the mutations that write them, and the closing of an owner's     *)
(* account, whose transaction takes the whole storefront off air.          *)
(*                                                                         *)
(* Calls, transactions and conflicts are those of module Catalogue.  An    *)
(* update that changes nothing writes nothing, so it neither waits nor     *)
(* conflicts.                                                              *)
(***************************************************************************)
EXTENDS FiniteSets, Naturals, SequencesExt

CONSTANTS
  Owners, Companies, Items, Calls, None,
  idShopOwner,         \* company -> its owner, for good
  MAX_ITEMS_PER_CALL

Docs == Owners \cup Companies \cup Items

ASSUME StorefrontAssumption ==
  /\ idShopOwner \in [Companies -> Owners]
  /\ Owners \cap Companies = {} /\ (Owners \cup Companies) \cap Items = {}
  /\ MAX_ITEMS_PER_CALL \in Nat
  /\ None \notin Owners \cup Companies \cup Items \cup Calls

VARIABLES
  deletedBy,      \* owner -> the call whose stamp its `deleted` field holds
  published,      \* the companies and items with `published: true`
  linkable,       \* the companies with a slug and a publicName
  gone,           \* the companies and items with a `deleted` field
  idCompany,      \* item -> its company
  writer,         \* document -> the transaction that wrote it and is still open
  pc, req,        \* call -> its next round trip, its arguments
  ids,            \* call -> what shopOwnerCompanyIds answered it
  todo,           \* call -> the items its updateMany has still to visit
  lit, touched,   \* call -> storefront published in its snapshot, changes since
  late            \* history: published since the owner's closing took its snapshot

front == <<deletedBy, published, linkable, gone, idCompany, late>>
local == <<pc, req, ids, todo, lit, touched>>
vars == <<deletedBy, published, linkable, gone, idCompany, late, writer,
          pc, req, ids, todo, lit, touched>>

Steps == {"idle", "guardCompany", "flagCompany", "saveCompany", "readIds", "countItems",
          "rereadIds", "flagItems", "stamp", "darkCompanies", "darkItems", "commit"}
InTransaction == {"darkCompanies", "darkItems", "commit"}

(* items and count: the list of ids as the queries and as itemIds.length see *)
(* it.                                                                     *)
Request(op, o, d, I, n, b) ==
  [op |-> op, owner |-> o, company |-> d, items |-> I, count |-> n, flag |-> b]
NoRequest == Request("none", None, None, {}, 0, FALSE)

Requests == [op : {"none", "flagCompany", "saveCompany", "flagItems", "shopOwnerDel"},
             owner : Owners \cup {None}, company : Companies \cup {None},
             items : SUBSET Items, count : Nat, flag : BOOLEAN]

Init ==
  /\ deletedBy = [o \in Owners |-> None]
  /\ published = {}
  /\ linkable = {}
  /\ gone = {}
  /\ idCompany \in [Items -> Companies]
  /\ late = {}
  /\ writer = [d \in Docs |-> None]
  /\ pc = [c \in Calls |-> "idle"]
  /\ req = [c \in Calls |-> NoRequest]
  /\ ids = [c \in Calls |-> {}]
  /\ todo = [c \in Calls |-> {}]
  /\ lit = [c \in Calls |-> {}]
  /\ touched = [c \in Calls |-> {}]

-------------------------------------------------------------------------------
OwnerOf(d) == IF d \in Items THEN idShopOwner[idCompany[d]] ELSE idShopOwner[d]

StorefrontOf(o) == {d \in Companies \cup Items : OwnerOf(d) = o}

(* Mutant: the companies of every owner.                                   *)
shopOwnerCompanyIds_AnyOwner(o) == Companies \ gone

shopOwnerCompanyIds(o) == {d \in Companies \ gone : idShopOwner[d] = o}

Go(c, step) == pc' = [pc EXCEPT ![c] = step]

Release(c) == writer' = [d \in Docs |-> IF writer[d] = c THEN None ELSE writer[d]]

Held(c) == {d \in Docs : writer[d] = c}

(* Documents D changed: of what the snapshots of the other calls have still *)
(* to darken, lit, this much is behind.                                    *)
Behind(c, D) == [x \in Calls |-> IF x = c THEN touched[x] ELSE touched[x] \cup (D \cap lit[x])]

Touch(c, D) == touched' = Behind(c, D)

Finish(c, D) ==
  /\ Go(c, "idle")
  /\ Release(c)
  /\ req' = [req EXCEPT ![c] = NoRequest]
  /\ ids' = [ids EXCEPT ![c] = {}]
  /\ todo' = [todo EXCEPT ![c] = {}]
  /\ lit' = [lit EXCEPT ![c] = {}]
  /\ touched' = [Behind(c, D) EXCEPT ![c] = {}]

(* A closing that gives up its snapshot makes nothing late.                 *)
NotLate(c) == late' = IF pc[c] \in InTransaction THEN late \ StorefrontOf(req[c].owner) ELSE late

Refuse(c) ==
  /\ Finish(c, {})
  /\ NotLate(c)
  /\ UNCHANGED <<deletedBy, published, linkable, gone, idCompany>>

(* A failure anywhere: what an updateMany has flagged so far stays flagged. *)
Fail(c) == pc[c] # "idle" /\ Refuse(c)

(* The owner's closing has read the storefront, or is done.                *)
Closing(o) == \/ deletedBy[o] # None
              \/ \E x \in Calls : pc[x] \in InTransaction /\ req[x].owner = o

Flag(D, b) ==
  /\ published' = IF b THEN published \cup D ELSE published \ D
  /\ late' = IF b THEN late \cup {d \in D : Closing(OwnerOf(d))} ELSE late \ D

-------------------------------------------------------------------------------
Start(c, r, step) ==
  /\ pc[c] = "idle"
  /\ req' = [req EXCEPT ![c] = r]
  /\ Go(c, step)
  /\ UNCHANGED <<front, writer, ids, todo, lit, touched>>

(* companyUpdatePublished, and companyUpdate as far as the flag's rule sees *)
(* it: with the slug and the publicName present, or one of them cleared.   *)
StartCompany(c) ==
  \E op \in {"flagCompany", "saveCompany"}, o \in Owners, d \in Companies, b \in BOOLEAN :
    Start(c, Request(op, o, d, {}, 0, b), "guardCompany")

(* Mutant: a repeated id counts twice.                                     *)
uniqueIds_Repeated(list) == DOMAIN list

(* Where each id of the list first arrived.                                *)
uniqueIds(list) == {k \in DOMAIN list : \A j \in 1..(k - 1) : list[j] # list[k]}

ItemLists == BoundedSeq(Items, MAX_ITEMS_PER_CALL + 1)

(* itemsUpdatePublished; itemUpdatePublished is the call with one item.     *)
StartItems(c) ==
  \E o \in Owners, list \in ItemLists, b \in BOOLEAN :
    LET n == Cardinality(uniqueIds(list))
    IN  /\ n \in 1..MAX_ITEMS_PER_CALL
        /\ Start(c, Request("flagItems", o, None, ToSet(list), n, b), "readIds")

shopOwnerDel(c) == \E o \in Owners : Start(c, Request("shopOwnerDel", o, None, {}, 0, FALSE), "stamp")

throwIfShopOwnerDontOwnCompany(c) ==
  /\ pc[c] = "guardCompany"
  /\ IF req[c].company \in shopOwnerCompanyIds(req[c].owner)
     THEN Go(c, req[c].op) /\ UNCHANGED <<front, writer, req, ids, todo, lit, touched>>
     ELSE Refuse(c)

(* The collection's $expr refuses a published company that is not linkable. *)
funCompanyUpdatePublished(c) ==
  LET d == req[c].company
  IN  /\ pc[c] = "flagCompany"
      /\ IF req[c].flag = (d \in published) \/ (req[c].flag /\ d \notin linkable)
         THEN Refuse(c)
         ELSE /\ writer[d] = None
              /\ Flag({d}, req[c].flag)
              /\ Finish(c, {d})
              /\ UNCHANGED <<deletedBy, linkable, gone, idCompany>>

(* A save of the card writes slug and publicName, never `published`.        *)
funCompanyUpdate(c) ==
  LET d == req[c].company
  IN  /\ pc[c] = "saveCompany"
      /\ IF d \in published /\ ~ req[c].flag
         THEN Refuse(c)
         ELSE /\ writer[d] = None
              /\ linkable' = IF req[c].flag THEN linkable \cup {d} ELSE linkable \ {d}
              /\ Finish(c, {d})
              /\ UNCHANGED <<deletedBy, published, gone, idCompany, late>>

-------------------------------------------------------------------------------
ReadCompanyIds(c) ==
  /\ pc[c] \in {"readIds", "rereadIds"}
  /\ ids' = [ids EXCEPT ![c] = shopOwnerCompanyIds(req[c].owner)]
  /\ IF pc[c] = "readIds"
     THEN Go(c, "countItems") /\ UNCHANGED todo
     ELSE Go(c, "flagItems") /\ todo' = [todo EXCEPT ![c] = req[c].items]
  /\ UNCHANGED <<front, writer, req, lit, touched>>

throwIfShopOwnerDontOwnAllItems(c) ==
  /\ pc[c] = "countItems"
  /\ IF Cardinality({i \in req[c].items : i \notin gone /\ idCompany[i] \in ids[c]}) = req[c].count
     THEN /\ Go(c, "rereadIds")
          /\ ids' = [ids EXCEPT ![c] = {}]
          /\ UNCHANGED <<front, writer, req, todo, lit, touched>>
     ELSE Refuse(c)

(* The updateMany of funItemsUpdatePublished, one document at a time: it is *)
(* one command, and not a transaction.                                     *)
FlagItem(c) ==
  /\ pc[c] = "flagItems"
  /\ \E i \in todo[c] :
       LET noop == idCompany[i] \notin ids[c] \/ req[c].flag = (i \in published)
       IN  /\ todo' = [todo EXCEPT ![c] = @ \ {i}]
           /\ IF noop
              THEN UNCHANGED <<published, late, touched>>
              ELSE writer[i] = None /\ Flag({i}, req[c].flag) /\ Touch(c, {i})
  /\ UNCHANGED <<deletedBy, linkable, gone, idCompany, writer, pc, req, ids, lit>>

(* true when matchedCount is the number of ids, 500 otherwise.             *)
AnswerItems(c) == pc[c] = "flagItems" /\ todo[c] = {} /\ Refuse(c)

-------------------------------------------------------------------------------
(* Mutant: a closing stamps an account that is already closed again.        *)
StampOwner_Again(c) ==
  LET o == req[c].owner
  IN  /\ pc[c] = "stamp"
      /\ writer[o] = None
      /\ writer' = [writer EXCEPT ![o] = c]
      /\ lit' = [lit EXCEPT ![c] = published \cap StorefrontOf(o)]
      /\ Go(c, "darkCompanies")
      /\ UNCHANGED <<front, req, ids, todo, touched>>

(* Mutant: the stamp is written outside of the transaction.                 *)
StampOwner_Outside(c) ==
  LET o == req[c].owner
  IN  /\ pc[c] = "stamp"
      /\ deletedBy[o] = None /\ writer[o] = None
      /\ deletedBy' = [deletedBy EXCEPT ![o] = c]
      /\ lit' = [lit EXCEPT ![c] = published \cap StorefrontOf(o)]
      /\ Go(c, "darkCompanies")
      /\ UNCHANGED <<published, linkable, gone, idCompany, late, writer, req, ids, todo, touched>>

(* funShopOwnerDel: the stamp, the transaction's first operation, ...       *)
StampOwner(c) ==
  LET o == req[c].owner
  IN  /\ pc[c] = "stamp"
      /\ IF deletedBy[o] # None
         THEN Refuse(c)
         ELSE /\ writer[o] = None
              /\ writer' = [writer EXCEPT ![o] = c]
              /\ lit' = [lit EXCEPT ![c] = published \cap StorefrontOf(o)]
              /\ Go(c, "darkCompanies")
              /\ UNCHANGED <<front, req, ids, todo, touched>>

(* Mutant: the aborted attempt keeps what it wrote.                        *)
Retry_KeepsLocks(c) ==
  /\ Go(c, "stamp")
  /\ lit' = [lit EXCEPT ![c] = {}]
  /\ touched' = [touched EXCEPT ![c] = {}]
  /\ NotLate(c)
  /\ UNCHANGED <<deletedBy, published, linkable, gone, idCompany, writer, req, ids, todo>>

Retry(c) ==
  /\ Go(c, "stamp")
  /\ Release(c)
  /\ lit' = [lit EXCEPT ![c] = {}]
  /\ touched' = [touched EXCEPT ![c] = {}]
  /\ NotLate(c)
  /\ UNCHANGED <<deletedBy, published, linkable, gone, idCompany, req, ids, todo>>

(* ... then unpublishOwnerStorefront, external: `published: false` on the   *)
(* owner's companies and on the items filed under them, in that order.     *)
Darken(c, D, step) ==
  IF \E d \in D : writer[d] \notin {None, c} \/ d \in touched[c]
  THEN Retry(c)
  ELSE /\ writer' = [d \in Docs |-> IF d \in D THEN c ELSE writer[d]]
       /\ Go(c, step)
       /\ UNCHANGED <<front, req, ids, todo, lit, touched>>

DarkenCompanies(c) == pc[c] = "darkCompanies" /\ Darken(c, lit[c] \cap Companies, "darkItems")

(* Mutant: the items' flags are left to the company's.                     *)
DarkenItems_Skipped(c) == pc[c] = "darkItems" /\ Darken(c, {}, "commit")

DarkenItems(c) == pc[c] = "darkItems" /\ Darken(c, lit[c] \cap Items, "commit")

CommitClosure(c) ==
  /\ pc[c] = "commit"
  /\ deletedBy' = [deletedBy EXCEPT ![req[c].owner] = c]
  /\ Flag(Held(c) \ Owners, FALSE)
  /\ Finish(c, Held(c))
  /\ UNCHANGED <<linkable, gone, idCompany>>

-------------------------------------------------------------------------------
(* companyDel, itemDel and itemUpdate, each in one step: module Catalogue   *)
(* has them in full.                                                       *)
Delete(d) ==
  /\ d \notin gone
  /\ writer[d] = None
  /\ gone' = gone \cup {d}
  /\ Touch(None, {d})
  /\ UNCHANGED <<deletedBy, published, linkable, idCompany, late, writer,
                 pc, req, ids, todo, lit>>

Move(i, d) ==
  /\ d \notin gone /\ d # idCompany[i] /\ idShopOwner[d] = OwnerOf(i)
  /\ writer[i] = None /\ writer[d] = None
  /\ idCompany' = [idCompany EXCEPT ![i] = d]
  /\ Touch(None, {i, d})
  /\ UNCHANGED <<deletedBy, published, linkable, gone, late, writer,
                 pc, req, ids, todo, lit>>

Call(c) ==
  \/ StartCompany(c)
  \/ StartItems(c)
  \/ shopOwnerDel(c)
  \/ throwIfShopOwnerDontOwnCompany(c)
  \/ funCompanyUpdatePublished(c)
  \/ funCompanyUpdate(c)
  \/ ReadCompanyIds(c)
  \/ throwIfShopOwnerDontOwnAllItems(c)
  \/ FlagItem(c)
  \/ AnswerItems(c)
  \/ StampOwner(c)
  \/ DarkenCompanies(c)
  \/ DarkenItems(c)
  \/ CommitClosure(c)
  \/ Fail(c)

Next ==
  \/ \E c \in Calls : Call(c)
  \/ \E d \in Companies \cup Items : Delete(d)
  \/ \E i \in Items, d \in Companies : Move(i, d)

Spec == Init /\ [][Next]_vars

-------------------------------------------------------------------------------
(* The variables keep their shape; a bulk call counts documents, not the    *)
(* entries of its list; and only a call inside its transaction holds        *)
(* documents: an attempt that aborts lets go of what it wrote.             *)
TypeOK ==
  /\ deletedBy \in [Owners -> Calls \cup {None}]
  /\ published \subseteq Companies \cup Items
  /\ linkable \subseteq Companies
  /\ gone \subseteq Companies \cup Items
  /\ late \subseteq Companies \cup Items
  /\ idCompany \in [Items -> Companies]
  /\ writer \in [Docs -> Calls \cup {None}]
  /\ pc \in [Calls -> Steps]
  /\ req \in [Calls -> Requests]
  /\ \A c \in Calls : req[c].count = Cardinality(req[c].items)
  /\ ids \in [Calls -> SUBSET Companies]
  /\ todo \in [Calls -> SUBSET Items]
  /\ lit \in [Calls -> SUBSET (Companies \cup Items)]
  /\ touched \in [Calls -> SUBSET Docs]
  /\ \A c \in Calls : pc[c] \notin InTransaction => Held(c) = {} /\ lit[c] = {}

(* Whatever is published of a closed owner was published by a call that     *)
(* overlapped the closing or came after it: the closing itself, however it  *)
(* is interrupted, retried or raced, leaves nothing behind it that it read  *)
(* as published (funShopOwnerDel, the cascade in one transaction).         *)
ClosedDarkUnlessLate ==
  \A o \in Owners : deletedBy[o] # None => published \cap StorefrontOf(o) \subseteq late

(* The stamp of a closed account is never written again: it starts the     *)
(* retention clock, and two closings in flight at once must not restart it. *)
ClosedOnce ==
  [][\A o \in Owners : deletedBy[o] # None => deletedBy'[o] = deletedBy[o]]_deletedBy

(* No call changes a flag of another owner's company or item, wherever the  *)
(* items move and whatever is retired between its guard and its write.     *)
OnlyOwnFlags ==
  [][\A d \in Companies \cup Items :
       (d \in published) # (d \in published') =>
         \E c \in Calls : /\ <<pc[c], todo[c]>> # <<pc'[c], todo'[c]>>
                         /\ req[c].owner = OwnerOf(d)]_published

InClosing == {o \in Owners : \E c \in Calls : pc[c] \in InTransaction /\ req[c].owner = o}

Closed == {o \in Owners : deletedBy[o] # None}

Abstract == INSTANCE Showcase WITH
  ownerOf <- [d \in Companies \cup Items |-> OwnerOf(d)],
  shown <- published, closing <- InClosing, closed <- Closed, fresh <- late

(* The guards, the bulk command and the four steps of the closing, with its *)
(* conflicts and retries, do what each operation of Showcase does at once:  *)
(* a closing hides exactly what its snapshot found and nobody has shown     *)
(* since, at its commit and not before, and one that aborts nothing.        *)
ImplementsShowcase == Abstract!ShowcaseSpec

-------------------------------------------------------------------------------
(* funShopOwnerDel: a closed owner with a live shop is the one failure the  *)
(* cascade exists to prevent.                                              *)
ClosedIsDark == \A o \in Owners : deletedBy[o] # None => published \cap StorefrontOf(o) = {}
===============================================================================
