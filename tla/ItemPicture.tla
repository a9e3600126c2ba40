------------------------------ MODULE ItemPicture ------------------------------
(***************************************************************************)
(* An item and its picture: the card is a document, the picture a file     *)
(* that the card names, and no transaction spans the two.                  *)
(*                                                                         *)
(* The file is named after the item's _id, so a file is known by the item  *)
(* it belongs to and the folder it is in: the temp directory, or           *)
(* STATIC_FOLDER/item/<idCompany>.  The calls are those of one owner past   *)
(* their guards, and a transaction is one step: module Catalogue has both.  *)
(***************************************************************************)
CONSTANTS Companies, Items, Calls, None

ASSUME NoneIsNothing == None \notin Companies \cup Items

VARIABLES
  idCompany,   \* item -> its company, None before it exists
  image,       \* the items whose card names a picture
  temp,        \* the items with a file in the temp directory
  static,      \* the files publicly reachable, <<folder's company, item>>
  pc, req,     \* call -> its next step, its arguments
  before,      \* call -> the folder its move takes the file from, None: temp
  crossed,     \* history: the items whose moves overlapped
  failed,      \* history: the items a move of which never ran
  reclaimed    \* history: the items whose temp file the system took

vars == <<idCompany, image, temp, static, pc, req, before, crossed, failed, reclaimed>>

Request(op, i, d, p) == [op |-> op, item |-> i, company |-> d, picture |-> p]
NoRequest == Request("none", None, None, FALSE)

Requests == [op : {"none", "itemAdd", "itemUpdate"}, item : Items \cup {None},
             company : Companies \cup {None}, picture : BOOLEAN]

Init ==
  /\ idCompany = [i \in Items |-> None]
  /\ image = {}
  /\ temp = {}
  /\ static = {}
  /\ pc = [c \in Calls |-> "idle"]
  /\ req = [c \in Calls |-> NoRequest]
  /\ before = [c \in Calls |-> None]
  /\ crossed = {}
  /\ failed = {}
  /\ reclaimed = {}

Moving(i) == {c \in Calls : pc[c] = "move" /\ req[c].item = i}

(* The call answers, be it a result or an error.                           *)
Answer(c) ==
  /\ pc' = [pc EXCEPT ![c] = "idle"]
  /\ req' = [req EXCEPT ![c] = NoRequest]
  /\ before' = [before EXCEPT ![c] = None]

-------------------------------------------------------------------------------
(* Mutant: the name comes from the client, so two calls may bring the same.  *)
itemAdd_ClientName(c) ==
  /\ pc[c] = "idle"
  /\ \E i \in Items, d \in Companies, p \in BOOLEAN :
       /\ idCompany[i] = None
       /\ req' = [req EXCEPT ![c] = Request("itemAdd", i, d, p)]
       /\ pc' = [pc EXCEPT ![c] = IF p THEN "upload" ELSE "create"]
  /\ UNCHANGED <<idCompany, image, temp, static, before, crossed, failed, reclaimed>>

(* The _id is minted: no other call has it, and no failed one had it.       *)
itemAdd(c) ==
  /\ pc[c] = "idle"
  /\ \E i \in Items, d \in Companies, p \in BOOLEAN :
       /\ idCompany[i] = None
       /\ i \notin temp \cup reclaimed
       /\ \A x \in Calls : req[x].item # i
       /\ req' = [req EXCEPT ![c] = Request("itemAdd", i, d, p)]
       /\ pc' = [pc EXCEPT ![c] = IF p THEN "upload" ELSE "create"]
  /\ UNCHANGED <<idCompany, image, temp, static, before, crossed, failed, reclaimed>>

(* Mutant: the picture goes straight to the folder the site serves.         *)
storeItemImage_Public(c) ==
  /\ pc[c] = "upload"
  /\ static' = static \cup {<<req[c].company, req[c].item>>}
  /\ pc' = [pc EXCEPT ![c] = "create"]
  /\ UNCHANGED <<idCompany, image, temp, req, before, crossed, failed, reclaimed>>

storeItemImage(c) ==
  /\ pc[c] = "upload"
  /\ temp' = temp \cup {req[c].item}
  /\ pc' = [pc EXCEPT ![c] = "create"]
  /\ UNCHANGED <<idCompany, image, static, req, before, crossed, failed, reclaimed>>

(* Mutant: the call answers with its document and forgets the file.         *)
CreateItem_NoMove(c) ==
  /\ pc[c] = "create"
  /\ idCompany' = [idCompany EXCEPT ![req[c].item] = req[c].company]
  /\ image' = IF req[c].picture THEN image \cup {req[c].item} ELSE image
  /\ Answer(c)
  /\ UNCHANGED <<temp, static, crossed, failed, reclaimed>>

CreateItem(c) ==
  /\ pc[c] = "create"
  /\ idCompany' = [idCompany EXCEPT ![req[c].item] = req[c].company]
  /\ IF req[c].picture
     THEN /\ image' = image \cup {req[c].item}
          /\ pc' = [pc EXCEPT ![c] = "move"]
          /\ UNCHANGED <<req, before>>
     ELSE Answer(c) /\ UNCHANGED image
  /\ UNCHANGED <<temp, static, crossed, failed, reclaimed>>

itemUpdate(c) ==
  /\ pc[c] = "idle"
  /\ \E i \in Items, d \in Companies :
       /\ idCompany[i] # None
       /\ req' = [req EXCEPT ![c] = Request("itemUpdate", i, d, i \in image)]
       /\ pc' = [pc EXCEPT ![c] = "save"]
  /\ UNCHANGED <<idCompany, image, temp, static, before, crossed, failed, reclaimed>>

(* Mutant: the company the save leaves is forgotten.                       *)
funItemUpdate_NoMove(c) ==
  LET i == req[c].item
  IN  /\ pc[c] = "save"
      /\ idCompany' = [idCompany EXCEPT ![i] = req[c].company]
      /\ Answer(c)
      /\ UNCHANGED <<image, temp, static, crossed, failed, reclaimed>>

(* The save answers the company and the image the card held before it, and  *)
(* never writes `image`.  The file follows only a card that moved.          *)
funItemUpdate(c) ==
  LET i == req[c].item
  IN  /\ pc[c] = "save"
      /\ idCompany' = [idCompany EXCEPT ![i] = req[c].company]
      /\ IF i \in image /\ idCompany[i] # req[c].company
         THEN /\ before' = [before EXCEPT ![c] = idCompany[i]]
              /\ pc' = [pc EXCEPT ![c] = "move"]
              /\ crossed' = IF Moving(i) = {} THEN crossed ELSE crossed \cup {i}
              /\ UNCHANGED req
         ELSE Answer(c) /\ UNCHANGED crossed
      /\ UNCHANGED <<image, temp, static, failed, reclaimed>>

Filed(c) == <<req[c].company, req[c].item>>

(* External: a rename, which fails, changing nothing, when there is no file  *)
(* by that name.                                                           *)
moveFileStaticDomain(c) ==
  LET i == req[c].item
      from == <<before[c], i>>
  IN  /\ pc[c] = "move"
      /\ IF before[c] = None
         THEN /\ temp' = temp \ {i}
              /\ static' = IF i \in temp THEN static \cup {Filed(c)} ELSE static
         ELSE /\ static' = IF from \in static THEN (static \ {from}) \cup {Filed(c)} ELSE static
              /\ UNCHANGED temp
      /\ Answer(c)
      /\ UNCHANGED <<idCompany, image, crossed, failed, reclaimed>>

(* The scanner, the database, the disk, or the process: between any two     *)
(* steps.  What was written stays, a temp file until it is reclaimed.       *)
Fail(c) ==
  /\ pc[c] # "idle"
  /\ failed' = IF pc[c] = "move" THEN failed \cup {req[c].item} ELSE failed
  /\ Answer(c)
  /\ UNCHANGED <<idCompany, image, temp, static, crossed, reclaimed>>

(* External: the operating system clears the temp directory when it likes,  *)
(* the file of a call in flight included.                                  *)
Reclaim(i) ==
  /\ i \in temp
  /\ temp' = temp \ {i}
  /\ reclaimed' = reclaimed \cup {i}
  /\ UNCHANGED <<idCompany, image, static, pc, req, before, crossed, failed>>

Work(c) ==
  \/ storeItemImage(c)
  \/ CreateItem(c)
  \/ funItemUpdate(c)
  \/ moveFileStaticDomain(c)

Next ==
  \/ \E c \in Calls : itemAdd(c) \/ itemUpdate(c) \/ Work(c) \/ Fail(c)
  \/ \E i \in Items : Reclaim(i)

Spec == Init /\ [][Next]_vars

-------------------------------------------------------------------------------
Places(i) == {d \in Companies : <<d, i>> \in static}

(* The variables keep their shape, and a call its _id: the two calls that   *)
(* add an item never have the same one.                                    *)
TypeOK ==
  /\ idCompany \in [Items -> Companies \cup {None}]
  /\ image \subseteq Items
  /\ temp \subseteq Items
  /\ static \subseteq Companies \X Items
  /\ pc \in [Calls -> {"idle", "upload", "create", "save", "move"}]
  /\ req \in [Calls -> Requests]
  /\ before \in [Calls -> Companies \cup {None}]
  /\ crossed \subseteq Items
  /\ failed \subseteq Items
  /\ reclaimed \subseteq Items
  /\ \A c, x \in Calls : x # c /\ {req[c].op, req[x].op} = {"itemAdd"} => req[c].item # req[x].item

(* A picture that a card names is in one folder and nowhere else, but for   *)
(* the two cases itemAdd writes down: it waits in the temp directory for    *)
(* the move of its itemAdd, or because a move failed, and from there the    *)
(* system may take it.  No transfer loses or doubles one, whatever other    *)
(* calls do, and no other card names a file that is not there.             *)
PictureKept ==
  \A i \in image :
    \/ i \notin temp \cup reclaimed /\ \E d \in Companies : Places(i) = {d}
    \/ /\ i \in temp /\ Places(i) = {}
       /\ i \in failed \/ \E c \in Moving(i) : before[c] = None
    \/ i \in reclaimed \ temp /\ Places(i) = {}

(* A picture becomes publicly reachable only with its card committed: never *)
(* that of an itemAdd whose transaction aborts (itemAdd, the move after the  *)
(* insert).                                                                *)
PublicIsCommitted == \A f \in static : f[2] \in image

(* With no move of the item outstanding, its picture is in the folder its   *)
(* card says, unless two of its moves overlapped, one never ran or the      *)
(* system took the file.                                                   *)
InPlaceUnlessCrossed ==
  \A i \in image \ (crossed \cup failed \cup reclaimed) :
    Moving(i) = {} => <<idCompany[i], i>> \in static
===============================================================================
