--------------------------- MODULE ItemPictureProofs ---------------------------
(***************************************************************************)
(* Proofs about ItemPicture for any companies, any items and any number of *)
(* calls in flight, from the one assumption that None is none of them.     *)
(***************************************************************************)
EXTENDS ItemPicture, TLAPS

(* What a call knows of its item, by its next step.                        *)
CallInv(c) ==
  /\ pc[c] = "idle" => req[c] = NoRequest
  /\ pc[c] # "idle" => req[c].item \in Items /\ req[c].company \in Companies
  /\ pc[c] \in {"upload", "create"} => req[c].op = "itemAdd" /\ idCompany[req[c].item] = None
  /\ pc[c] = "upload" => req[c].picture /\ req[c].item \notin temp \cup reclaimed
  /\ pc[c] = "create" /\ req[c].picture => req[c].item \in temp \cup reclaimed
  /\ pc[c] = "save" => req[c].op = "itemUpdate" /\ idCompany[req[c].item] # None
  /\ pc[c] = "move" => req[c].item \in image
  /\ pc[c] = "move" /\ before[c] = None =>
       req[c].op = "itemAdd" /\ req[c].item \in temp \cup reclaimed
  /\ pc[c] = "move" /\ before[c] # None => req[c].op = "itemUpdate"
  /\ pc[c] # "move" => before[c] = None

CardsExist == \A i \in image : idCompany[i] # None

TakenIsGone == temp \cap reclaimed = {}

(* The one move of an item that never crossed another takes its file to the *)
(* folder of its card, from where the file is.                             *)
OneMove ==
  \A i \in image \ (crossed \cup failed \cup reclaimed) : \A c \in Moving(i) :
    /\ Moving(i) = {c}
    /\ req[c].company = idCompany[i]
    /\ before[c] # None => <<before[c], i>> \in static

PictureInv ==
  /\ TypeOK
  /\ \A c \in Calls : CallInv(c)
  /\ CardsExist
  /\ TakenIsGone
  /\ PictureKept
  /\ PublicIsCommitted
  /\ OneMove
  /\ InPlaceUnlessCrossed

(* Two calls that add, as TypeOK says it.                                   *)
LEMMA BothAdd == ASSUME NEW a, NEW b PROVE {a, b} = {"itemAdd"} <=> a = "itemAdd" /\ b = "itemAdd"
OBVIOUS

(* Answering forgets the call's arguments: no call's item becomes another's. *)
LEMMA AnswerType ==
  ASSUME TypeOK, NEW c \in Calls, Answer(c)
  PROVE  /\ pc' \in [Calls -> {"idle", "upload", "create", "save", "move"}]
         /\ req' \in [Calls -> Requests]
         /\ before' \in [Calls -> Companies \cup {None}]
         /\ \A x, y \in Calls :
              x # y /\ {req'[y].op, req'[x].op} = {"itemAdd"} => req'[y].item # req'[x].item
<1>1. NoRequest \in Requests /\ NoRequest.op # "itemAdd"
  BY DEF NoRequest, Request, Requests
<1>2. \A x, y \in Calls :
        x # y /\ req'[y].op = "itemAdd" /\ req'[x].op = "itemAdd" => req'[y].item # req'[x].item
  BY <1>1, BothAdd DEF TypeOK, Answer
<1>3. /\ pc' \in [Calls -> {"idle", "upload", "create", "save", "move"}]
      /\ req' \in [Calls -> Requests]
      /\ before' \in [Calls -> Companies \cup {None}]
  BY <1>1 DEF TypeOK, Answer
<1>4. QED
  BY <1>2, <1>3, BothAdd

(* PictureKept, of one picture.                                            *)
Placed(i) ==
  \/ i \notin temp \cup reclaimed /\ \E d \in Companies : Places(i) = {d}
  \/ /\ i \in temp /\ Places(i) = {}
     /\ i \in failed \/ \E c \in Moving(i) : before[c] = None
  \/ i \in reclaimed \ temp /\ Places(i) = {}

(* A step of a call that moves nothing, and touches no file, loses none.     *)
LEMMA OthersKept ==
  ASSUME PictureInv, NEW c \in Calls, pc[c] # "move",
         \A x \in Calls \ {c} : pc'[x] = pc[x] /\ req'[x] = req[x] /\ before'[x] = before[x],
         UNCHANGED <<image, temp, static, reclaimed>>, failed \subseteq failed'
  PROVE  PictureKept'
<1>1. \A i : Places(i)' = Places(i)
  BY DEF Places
<1>2. \A i : \A x \in Moving(i) : x \in Moving(i)' /\ before'[x] = before[x]
  BY DEF Moving
<1>3. QED
  BY <1>1, <1>2 DEF PictureInv, PictureKept

(* A new item is no call's yet, and its card is not there to name a picture. *)
LEMMA itemAddKeeps ==
  ASSUME PictureInv, NEW c \in Calls, itemAdd(c)
  PROVE  PictureInv'
<1> USE NoneIsNothing DEF PictureInv
<1>1. /\ req' \in [Calls -> Requests]
      /\ pc' \in [Calls -> {"idle", "upload", "create", "save", "move"}]
      /\ UNCHANGED <<idCompany, image, temp, static, before, crossed, failed, reclaimed>>
  BY DEF TypeOK, itemAdd, Request, Requests
<1>2. \A x, y \in Calls :
        x # y /\ req'[y].op = "itemAdd" /\ req'[x].op = "itemAdd" => req'[y].item # req'[x].item
  BY DEF TypeOK, CallInv, itemAdd, Request
<1>3. TypeOK'
  BY <1>1, <1>2, BothAdd DEF TypeOK
<1>4. (\A x \in Calls : CallInv(x))'
  BY DEF TypeOK, CallInv, itemAdd, Request
<1>5. (CardsExist /\ TakenIsGone /\ PictureKept /\ PublicIsCommitted)'
  BY OthersKept DEF itemAdd, CardsExist, TakenIsGone, PublicIsCommitted
<1>6. (OneMove /\ InPlaceUnlessCrossed)'
  BY DEF TypeOK, CallInv, itemAdd, Request, OneMove, InPlaceUnlessCrossed, Moving
<1>7. QED
  BY <1>3, <1>4, <1>5, <1>6

(* The upload is in the temp directory, where no card looks for it yet.      *)
LEMMA storeItemImageKeeps ==
  ASSUME PictureInv, NEW c \in Calls, storeItemImage(c)
  PROVE  PictureInv'
<1> USE NoneIsNothing DEF PictureInv, TypeOK, CallInv, storeItemImage
<1>1. TypeOK'
  OBVIOUS
<1>2. (\A x \in Calls : CallInv(x))'
  BY DEF NoRequest, Request
<1>3. PictureKept'
  BY DEF PictureKept, Moving, Places, CardsExist
<1>4. (CardsExist /\ TakenIsGone /\ PublicIsCommitted)'
  BY DEF CardsExist, TakenIsGone, PublicIsCommitted
<1>5. (OneMove /\ InPlaceUnlessCrossed)'
  BY DEF OneMove, InPlaceUnlessCrossed, Moving
<1>6. QED
  BY <1>1, <1>2, <1>3, <1>4, <1>5

(* The card names a picture only when the file is in the temp directory, and *)
(* nothing of that item was public before.                                 *)
LEMMA CreateItemKeeps ==
  ASSUME PictureInv, NEW c \in Calls, CreateItem(c)
  PROVE  PictureInv'
<1> DEFINE i == req[c].item
<1> USE NoneIsNothing DEF PictureInv
<1>1. /\ pc[c] = "create" /\ req[c].op = "itemAdd" /\ i \in Items /\ req[c].company \in Companies
      /\ idCompany[i] = None /\ i \notin image /\ before[c] = None
      /\ idCompany' = [idCompany EXCEPT ![i] = req[c].company]
      /\ UNCHANGED <<temp, static, crossed, failed, reclaimed>>
  BY DEF CreateItem, CallInv, CardsExist
<1>2. \A x \in Calls : x # c /\ req[x].op \in {"itemAdd"} => req[x].item # i
  BY <1>1 DEF TypeOK
<1>3. Places(i) = {}
  BY <1>1 DEF PublicIsCommitted, Places
<1>4. CASE req[c].picture
  <2>1. /\ image' = image \cup {i} /\ pc' = [pc EXCEPT ![c] = "move"]
        /\ UNCHANGED <<req, before>> /\ i \in temp \cup reclaimed
    BY <1>1, <1>4 DEF CreateItem, CallInv
  <2>2. TypeOK'
    BY <1>1, <2>1 DEF TypeOK
  <2>3. (\A x \in Calls : CallInv(x))'
    BY <1>1, <1>2, <2>1 DEF TypeOK, CallInv, NoRequest, Request
  <2>4. CardsExist' /\ TakenIsGone' /\ PublicIsCommitted'
    BY <1>1, <2>1 DEF TypeOK, CardsExist, TakenIsGone, PublicIsCommitted
  <2>5. Moving(i)' = {c} /\ \A j \in Items \ {i} : Moving(j)' = Moving(j)
    BY <1>1, <2>1 DEF TypeOK, CallInv, Moving
  <2>6. PictureKept'
    <3>1. \A j \in Items : Places(j)' = Places(j)
      BY <1>1 DEF Places
    <3>2. Placed(i)'
      <4>1. c \in Moving(i)' /\ before'[c] = None
        BY <1>1, <2>1, <2>5
      <4>2. (i \in temp /\ i \notin reclaimed) \/ i \in reclaimed \ temp
        BY <2>1 DEF TakenIsGone
      <4>3. QED
        BY <1>1, <1>3, <2>1, <3>1, <4>1, <4>2 DEF Placed
    <3>3. ASSUME NEW j \in image, j # i
          PROVE  Placed(j)'
      BY <3>3, <1>1, <2>1, <2>5, <3>1 DEF PictureKept, Placed, TypeOK
    <3>4. QED
      BY <3>2, <3>3, <1>1, <2>1 DEF PictureKept, Placed
  <2>7. OneMove'
    BY <1>1, <2>1, <2>5 DEF TypeOK, CallInv, OneMove, Moving
  <2>8. InPlaceUnlessCrossed'
    BY <1>1, <2>1, <2>5 DEF TypeOK, InPlaceUnlessCrossed
  <2>9. QED
    BY <2>2, <2>3, <2>4, <2>6, <2>7, <2>8
<1>5. CASE ~ req[c].picture
  <2>1. Answer(c) /\ UNCHANGED image
    BY <1>5 DEF CreateItem
  <2>2. TypeOK'
    BY <1>1, <2>1, AnswerType DEF TypeOK
  <2>3. (\A x \in Calls : CallInv(x))'
    BY <1>1, <1>2, <2>1 DEF TypeOK, CallInv, Answer, NoRequest, Request
  <2>4. (CardsExist /\ TakenIsGone /\ PublicIsCommitted)' /\ PictureKept'
    BY <1>1, <2>1, OthersKept DEF TypeOK, CardsExist, TakenIsGone, PublicIsCommitted, Answer
  <2>5. (OneMove /\ InPlaceUnlessCrossed)'
    BY <1>1, <2>1 DEF TypeOK, Answer, OneMove, InPlaceUnlessCrossed, Moving
  <2>6. QED
    BY <2>2, <2>3, <2>4, <2>5
<1>6. QED
  BY <1>4, <1>5 DEF TypeOK, Requests

LEMMA itemUpdateKeeps ==
  ASSUME PictureInv, NEW c \in Calls, itemUpdate(c)
  PROVE  PictureInv'
<1> USE NoneIsNothing DEF PictureInv
<1>1. /\ req' \in [Calls -> Requests]
      /\ pc' \in [Calls -> {"idle", "upload", "create", "save", "move"}]
      /\ UNCHANGED <<idCompany, image, temp, static, before, crossed, failed, reclaimed>>
  BY DEF TypeOK, itemUpdate, Request, Requests
<1>2. \A x, y \in Calls :
        x # y /\ req'[y].op = "itemAdd" /\ req'[x].op = "itemAdd" => req'[y].item # req'[x].item
  BY DEF TypeOK, CallInv, itemUpdate, Request
<1>3. TypeOK'
  BY <1>1, <1>2, BothAdd DEF TypeOK
<1>4. (\A x \in Calls : CallInv(x))'
  BY DEF TypeOK, CallInv, itemUpdate, Request
<1>5. (CardsExist /\ TakenIsGone /\ PictureKept /\ PublicIsCommitted)'
  BY OthersKept DEF itemUpdate, CardsExist, TakenIsGone, PublicIsCommitted
<1>6. (OneMove /\ InPlaceUnlessCrossed)'
  BY DEF TypeOK, CallInv, itemUpdate, Request, OneMove, InPlaceUnlessCrossed, Moving
<1>7. QED
  BY <1>3, <1>4, <1>5, <1>6

(* A save that moves the card either is the item's only move, and knows      *)
(* where the file is, or crosses another.                                  *)
LEMMA funItemUpdateKeeps ==
  ASSUME PictureInv, NEW c \in Calls, funItemUpdate(c)
  PROVE  PictureInv'
<1> DEFINE i == req[c].item
           d == req[c].company
<1> USE NoneIsNothing DEF PictureInv
<1>1. /\ pc[c] = "save" /\ req[c].op = "itemUpdate" /\ i \in Items /\ d \in Companies
      /\ idCompany[i] \in Companies /\ before[c] = None
      /\ idCompany' = [idCompany EXCEPT ![i] = d]
      /\ UNCHANGED <<image, temp, static, failed, reclaimed>>
  BY DEF funItemUpdate, CallInv, TypeOK
<1>2. (CardsExist /\ TakenIsGone /\ PublicIsCommitted)' /\ PictureKept'
  BY <1>1, OthersKept DEF TypeOK, CardsExist, TakenIsGone, PublicIsCommitted, funItemUpdate, Answer
<1>3. CASE i \in image /\ idCompany[i] # d
  <2>1. /\ before' = [before EXCEPT ![c] = idCompany[i]]
        /\ pc' = [pc EXCEPT ![c] = "move"]
        /\ crossed' = IF Moving(i) = {} THEN crossed ELSE crossed \cup {i}
        /\ UNCHANGED req
    BY <1>3 DEF funItemUpdate
  <2>2. TypeOK'
    BY <1>1, <2>1 DEF TypeOK
  <2>3. (\A x \in Calls : CallInv(x))'
    BY <1>1, <1>3, <2>1 DEF TypeOK, CallInv, NoRequest, Request
  <2>4. Moving(i)' = Moving(i) \cup {c} /\ \A j \in Items \ {i} : Moving(j)' = Moving(j)
    BY <1>1, <2>1 DEF TypeOK, Moving
  <2>5. OneMove'
    BY <1>1, <1>3, <2>1, <2>4 DEF TypeOK, OneMove, InPlaceUnlessCrossed, Moving
  <2>6. InPlaceUnlessCrossed'
    BY <1>1, <2>1, <2>4 DEF TypeOK, InPlaceUnlessCrossed
  <2>7. QED
    BY <1>2, <2>2, <2>3, <2>5, <2>6
<1>4. CASE ~ (i \in image /\ idCompany[i] # d)
  <2>1. Answer(c) /\ UNCHANGED crossed
    BY <1>4 DEF funItemUpdate
  <2>2. TypeOK'
    BY <1>1, <2>1, AnswerType DEF TypeOK
  <2>3. (\A x \in Calls : CallInv(x))'
    BY <1>1, <2>1 DEF TypeOK, CallInv, Answer, NoRequest, Request
  <2>4. (OneMove /\ InPlaceUnlessCrossed)'
    BY <1>1, <1>4, <2>1 DEF TypeOK, Answer, OneMove, InPlaceUnlessCrossed, Moving
  <2>5. QED
    BY <1>2, <2>2, <2>3, <2>4
<1>5. QED
  BY <1>3, <1>4

(* The rename takes the file from the one place it is in, or does nothing.  *)
LEMMA moveFileStaticDomainKeeps ==
  ASSUME PictureInv, NEW c \in Calls, moveFileStaticDomain(c)
  PROVE  PictureInv'
<1> USE NoneIsNothing DEF PictureInv
<1>0. PICK i \in Items : i = req[c].item
  BY DEF moveFileStaticDomain, CallInv
<1>1. /\ i = req[c].item
      /\ pc[c] = "move" /\ i \in image /\ i \in Items /\ req[c].company \in Companies
      /\ Answer(c) /\ UNCHANGED <<idCompany, image, crossed, failed, reclaimed>>
      /\ IF before[c] = None
         THEN /\ temp' = temp \ {i}
              /\ static' = IF i \in temp THEN static \cup {Filed(c)} ELSE static
         ELSE /\ static' = IF <<before[c], i>> \in static
                           THEN (static \ {<<before[c], i>>}) \cup {Filed(c)} ELSE static
              /\ UNCHANGED temp
  BY <1>0 DEF moveFileStaticDomain, CallInv
<1>2. TypeOK'
  <2>1. static' \subseteq Companies \X Items /\ temp' \subseteq Items
    BY <1>1 DEF TypeOK, Filed
  <2>2. QED
    BY <1>1, <2>1, AnswerType DEF TypeOK
<1>3. (\A x \in Calls : CallInv(x))'
  BY <1>1 DEF TypeOK, CallInv, Answer, NoRequest, Request
<1>4. (CardsExist /\ TakenIsGone /\ PublicIsCommitted)'
  BY <1>1 DEF CardsExist, TakenIsGone, PublicIsCommitted, Filed
<1>5. PictureKept'
  <2>1. ASSUME NEW j \in image, j # i
        PROVE  Places(j)' = Places(j) /\ (j \in temp' <=> j \in temp) /\ Moving(j)' = Moving(j)
    BY <1>1, <2>1 DEF TypeOK, Answer, Places, Filed, Moving
  <2>2. ASSUME NEW j \in image, j # i, NEW x \in Moving(j)
        PROVE  before'[x] = before[x]
    BY <1>1, <2>2 DEF TypeOK, Answer, Moving
  <2>3. TakenIsGone /\ pc[c] = "move" /\ c \in Calls
    BY <1>1
  <2>4. \A x \in Moving(i) \ {c} : x \in Moving(i)' /\ before'[x] = before[x]
    BY <1>1 DEF TypeOK, Answer, Moving
  <2>5. /\ before[c] = None => i \in temp \cup reclaimed
        /\ i \in image
        /\ \/ i \notin temp \cup reclaimed /\ \E d \in Companies : Places(i) = {d}
           \/ /\ i \in temp /\ Places(i) = {}
              /\ i \in failed \/ \E x \in Moving(i) : before[x] = None
           \/ i \in reclaimed \ temp /\ Places(i) = {}
    BY <1>1 DEF CallInv, PictureKept
  <2>6. Placed(i)'
    <3>1. CASE before[c] = None /\ i \in temp
      <4>1. Places(i) = {} /\ i \notin reclaimed
        BY <2>3, <2>5, <3>1 DEF TakenIsGone
      <4>2. temp' = temp \ {i} /\ static' = static \cup {Filed(c)}
        BY <1>1, <3>1
      <4>3. Places(i)' = {req[c].company}
        BY <1>1, <4>1, <4>2 DEF Places, Filed
      <4>4. QED
        BY <1>1, <4>1, <4>2, <4>3 DEF Placed
    <3>2. CASE before[c] = None /\ i \notin temp
      <4>1. temp' = temp /\ static' = static
        BY <1>1, <3>2
      <4>2. Places(i)' = Places(i)
        BY <4>1 DEF Places
      <4>3. QED
        BY <1>1, <2>5, <3>2, <4>1, <4>2 DEF Placed
    <3>3. CASE before[c] # None
      <4>1. \/ static' = static
            \/ <<before[c], i>> \in static /\ static' = (static \ {<<before[c], i>>}) \cup {Filed(c)}
        BY <1>1, <3>3
      <4>2. \/ Places(i)' = Places(i)
            \/ before[c] \in Places(i) /\ Places(i)' = (Places(i) \ {before[c]}) \cup {req[c].company}
        BY <1>1, <4>1 DEF TypeOK, Places, Filed
      <4>3. temp' = temp
        BY <1>1, <3>3
      <4>4. QED
        BY <1>1, <2>4, <2>5, <3>3, <4>2, <4>3 DEF Placed
    <3>4. QED
      BY <3>1, <3>2, <3>3
  <2>7. ASSUME NEW j \in image, j # i
        PROVE  Placed(j)'
    BY <1>1, <2>1, <2>2, <2>7 DEF PictureKept, Placed
  <2>8. QED
    BY <1>1, <2>6, <2>7 DEF PictureKept, Placed
<1>6. (OneMove /\ InPlaceUnlessCrossed)'
  BY <1>1 DEF TypeOK, CallInv, Answer, Filed, OneMove, InPlaceUnlessCrossed, Moving
<1>7. QED
  BY <1>2, <1>3, <1>4, <1>5, <1>6

(* The system takes a file from the temp directory only: no card but one    *)
(* that waits for its first move is the poorer for it.                     *)
LEMMA ReclaimKeeps ==
  ASSUME PictureInv, NEW i \in Items, Reclaim(i)
  PROVE  PictureInv'
<1> USE NoneIsNothing DEF PictureInv, Reclaim
<1>1. TypeOK'
  BY DEF TypeOK
<1>2. (\A x \in Calls : CallInv(x))'
  BY DEF CallInv, NoRequest, Request
<1>3. (CardsExist /\ TakenIsGone /\ PublicIsCommitted)'
  BY DEF CardsExist, TakenIsGone, PublicIsCommitted
<1>4. PictureKept'
  BY DEF PictureKept, Moving, Places, Moving, TakenIsGone
<1>5. (OneMove /\ InPlaceUnlessCrossed)'
  BY DEF OneMove, InPlaceUnlessCrossed, Moving
<1>6. QED
  BY <1>1, <1>2, <1>3, <1>4, <1>5

LEMMA FailKeeps ==
  ASSUME PictureInv, NEW c \in Calls, Fail(c)
  PROVE  PictureInv'
<1> USE NoneIsNothing DEF PictureInv, Fail
<1>1. TypeOK'
  BY AnswerType DEF TypeOK, CallInv
<1>2. (\A x \in Calls : CallInv(x))'
  BY DEF TypeOK, CallInv, Answer, NoRequest, Request
<1>3. (CardsExist /\ TakenIsGone /\ PublicIsCommitted)'
  BY DEF CardsExist, TakenIsGone, PublicIsCommitted
<1>4. PictureKept'
  <2>1. CASE pc[c] = "move"
    BY <2>1 DEF TypeOK, CallInv, Answer, PictureKept, Moving, Places
  <2>2. CASE pc[c] # "move"
    BY <2>2, OthersKept DEF Answer
  <2>3. QED
    BY <2>1, <2>2
<1>5. (OneMove /\ InPlaceUnlessCrossed)'
  BY DEF TypeOK, CallInv, Answer, NoRequest, Request, OneMove, InPlaceUnlessCrossed, Moving
<1>6. QED
  BY <1>1, <1>2, <1>3, <1>4, <1>5

(* The invariant holds in every reachable state.                           *)
THEOREM PictureInvariance == Spec => []PictureInv
<1>1. ASSUME Init
      PROVE  PictureInv
  <2>1. \A c \in Calls : pc[c] = "idle" /\ req[c] = NoRequest /\ before[c] = None
    BY <1>1 DEF Init
  <2>2. NoRequest \in Requests /\ NoRequest.op # "itemAdd"
    BY DEF NoRequest, Request, Requests
  <2>3. TypeOK
    BY <1>1, <2>1, <2>2, BothAdd DEF Init, TypeOK
  <2>4. \A c \in Calls : CallInv(c)
    BY <2>1 DEF CallInv
  <2>5. CardsExist /\ TakenIsGone /\ PictureKept /\ PublicIsCommitted /\ OneMove /\ InPlaceUnlessCrossed
    BY <1>1 DEF Init, CardsExist, TakenIsGone, PictureKept, PublicIsCommitted, OneMove,
       InPlaceUnlessCrossed
  <2>6. QED
    BY <2>3, <2>4, <2>5 DEF PictureInv
<1>2. ASSUME PictureInv, [Next]_vars
      PROVE  PictureInv'
  <2>1. CASE UNCHANGED vars
    <3>1. TypeOK' /\ (\A x \in Calls : CallInv(x))'
      BY <1>2, <2>1 DEF vars, PictureInv, TypeOK, CallInv
    <3>2. (CardsExist /\ TakenIsGone /\ PictureKept /\ PublicIsCommitted)'
      BY <1>2, <2>1 DEF vars, PictureInv, CardsExist, TakenIsGone, PictureKept, Moving, Places,
         PublicIsCommitted
    <3>3. (OneMove /\ InPlaceUnlessCrossed)'
      BY <1>2, <2>1 DEF vars, PictureInv, OneMove, InPlaceUnlessCrossed, Moving
    <3>4. QED
      BY <3>1, <3>2, <3>3 DEF PictureInv
  <2>2. CASE Next
    BY <1>2, <2>2, itemAddKeeps, storeItemImageKeeps, CreateItemKeeps, itemUpdateKeeps,
       funItemUpdateKeeps, moveFileStaticDomainKeeps, FailKeeps, ReclaimKeeps DEF Next, Work
  <2>3. QED
    BY <1>2, <2>1, <2>2
<1>3. QED
  BY <1>1, <1>2, PTL DEF Spec

(* The variables keep their shape, and no two calls add the same item.      *)
THEOREM PictureTypes == Spec => []TypeOK
BY PictureInvariance, PTL DEF PictureInv

(* A picture that a card names is in one folder, or still in the temp       *)
(* directory with its move ahead or failed, or taken from there: no transfer *)
(* loses one or leaves a copy behind.                                      *)
THEOREM LostOnlyFromTemp == Spec => []PictureKept
BY PictureInvariance, PTL DEF PictureInv

(* The site serves no file whose card was not committed.                   *)
THEOREM NothingPublicBeforeItsCard == Spec => []PublicIsCommitted
BY PictureInvariance, PTL DEF PictureInv

(* Between moves a picture is in the folder its card says, unless its moves *)
(* overlapped, one failed or the system took the file.                     *)
THEOREM PictureFollowsItsCard == Spec => []InPlaceUnlessCrossed
BY PictureInvariance, PTL DEF PictureInv
===============================================================================
