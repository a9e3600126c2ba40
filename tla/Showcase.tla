-------------------------------- MODULE Showcase --------------------------------
(***************************************************************************)
(* What the public site is promised of its shops, with every operation one *)
(* indivisible step: a company or an item is shown or hidden, a company's  *)
(* card is edited, and an account is closed, which takes all that its shop *)
(* shows off the site at once.  Module Storefront is the code's way of     *)
(* keeping this promise with guards, a bulk command that yields and a      *)
(* transaction of several writes.                                          *)
(***************************************************************************)

CONSTANTS Owners, Companies, Items

VARIABLES
  ownerOf,    \* company or item -> its owner
  shown,      \* the companies and items on the public site
  linkable,   \* the companies whose card a link can be made of
  closing,    \* the owners whose closing has looked at what is shown
  closed,     \* the owners whose account is closed
  fresh       \* what was shown since the owner's closing looked

showcaseVars == <<ownerOf, shown, linkable, closing, closed, fresh>>

ShopOf(o) == {d \in Companies \cup Items : ownerOf[d] = o}

ShowcaseInit ==
  /\ ownerOf \in [Companies \cup Items -> Owners]
  /\ shown = {}
  /\ linkable = {}
  /\ closing = {}
  /\ closed = {}
  /\ fresh = {}

(* Nothing stops an owner from showing what is theirs, not even a closing.  *)
Show(d) ==
  /\ d \notin shown
  /\ d \in Companies => d \in linkable
  /\ shown' = shown \cup {d}
  /\ fresh' = IF ownerOf[d] \in closing \cup closed THEN fresh \cup {d} ELSE fresh
  /\ UNCHANGED <<ownerOf, linkable, closing, closed>>

Hide(d) ==
  /\ d \in shown
  /\ shown' = shown \ {d}
  /\ fresh' = fresh \ {d}
  /\ UNCHANGED <<ownerOf, linkable, closing, closed>>

(* A card that is shown stays one that can be linked to.                    *)
Edit(d) ==
  /\ linkable' = linkable \cup {d} \/ (d \notin shown /\ linkable' = linkable \ {d})
  /\ UNCHANGED <<ownerOf, shown, closing, closed, fresh>>

Look(o) ==
  /\ o \notin closing \cup closed
  /\ closing' = closing \cup {o}
  /\ UNCHANGED <<ownerOf, shown, linkable, closed, fresh>>

(* A closing that is given up has changed nothing.                          *)
GiveUp(o) ==
  /\ o \in closing
  /\ closing' = closing \ {o}
  /\ fresh' = fresh \ ShopOf(o)
  /\ UNCHANGED <<ownerOf, shown, linkable, closed>>

(* All of the shop goes, but for what was shown after the look, and nothing *)
(* of that does.                                                           *)
Close(o) ==
  /\ o \in closing
  /\ closing' = closing \ {o}
  /\ closed' = closed \cup {o}
  /\ shown' = shown \ (ShopOf(o) \ fresh)
  /\ UNCHANGED <<ownerOf, linkable, fresh>>

ShowcaseNext ==
  \/ \E d \in Companies \cup Items : Show(d) \/ Hide(d)
  \/ \E d \in Companies : Edit(d)
  \/ \E o \in Owners : Look(o) \/ GiveUp(o) \/ Close(o)

ShowcaseSpec == ShowcaseInit /\ [][ShowcaseNext]_showcaseVars
===============================================================================
