--------------------------------- MODULE Cards ---------------------------------
(***************************************************************************)
(* The card of a company and of an item, from what the owner types to what *)
(* the collection holds: validateCompany, validateItem, and the writes     *)
(* that follow them.                                                       *)
(*                                                                         *)
(* The collections are external, and modelled by the bounds that the       *)
(* validators say they copy from them.  A write that the collection's      *)
(* schema refuses is the 500 the validators exist to prevent.              *)
(***************************************************************************)
EXTENDS Fields

CONSTANTS CompanyInputs, ItemInputs   \* what the owner's forms may send

VARIABLES
  company,     \* field -> what the document holds, Undefined for no such field
  item,
  published,   \* the company's flag
  typed,       \* history: the input of the last save of the company, of the item
  refused,     \* history: what a write just refused would have the company be
  answer       \* what the last call answered

vars == <<company, item, published, typed, refused, answer>>

CompanyFields == {"legalName", "vatNumber", "taxCode", "uniqueCode", "certifiedEmail", "street",
                  "postalCode", "province", "position", "publicName", "slug"}
ItemFields == {"name", "slug"}
Cleared == {"taxCode", "uniqueCode", "publicName", "slug"}   \* the fields that may be

ASSUME CardsAssumption ==
  /\ \A c \in CompanyInputs : /\ \A f \in CompanyFields \ {"position"} : c[f] \in Texts
                              /\ c.position \in Positions
  /\ \A i \in ItemInputs : \A f \in ItemFields : i[f] \in Texts

NoCompany == [f \in CompanyFields |-> Undefined]
NoItem == [f \in ItemFields |-> Undefined]
NoWrite == [company |-> NoCompany, published |-> FALSE]

Init ==
  /\ company = NoCompany
  /\ item = NoItem
  /\ published = FALSE
  /\ typed = [company |-> NoCompany, item |-> NoItem]
  /\ refused = NoWrite
  /\ answer = "none"

-------------------------------------------------------------------------------
toUpperCase(t) == IF t.kind = "letters" THEN [t EXCEPT !.kind = "LETTERS"] ELSE t

(* The address: street to position; `city` is checked as `street` is.       *)
validateAddress(c) ==
  [street     |-> requiredText(c.street, 100),
   postalCode |-> textWithFormat(c.postalCode, SHAPE_POSTAL_CODE),
   province   |-> toUpperCase(textWithFormat(c.province, SHAPE_PROVINCE)),
   position   |-> coordinate(c.position)]

(* contactPerson, administrator and registryExtract are checked as legalName *)
(* is, and description as publicName.                                      *)
validateCompany(c) ==
  [f \in CompanyFields |->
     CASE f = "legalName"      -> requiredText(c.legalName, 100)
       [] f = "vatNumber"      -> textWithFormat(c.vatNumber, SHAPE_VAT_NUMBER)
       [] f = "taxCode"        -> optionalTextExactLength(c.taxCode, 11)
       [] f = "uniqueCode"     -> optionalTextWithFormat(c.uniqueCode, SHAPE_UNIQUE_CODE)
       [] f = "certifiedEmail" -> requiredEmail(c.certifiedEmail)
       [] f = "publicName"     -> optionalText(c.publicName, 100)
       [] f = "slug"           -> optionalSlug(c.slug, 120)
       [] OTHER                -> validateAddress(c)[f]]

(* `description` is checked as `name` is.                                   *)
validateItem(i) ==
  [name |-> requiredText(i.name, 150), slug |-> requiredSlug(i.slug, 160)]

-------------------------------------------------------------------------------
(* The collections, external: what their schemas take.  minLength and        *)
(* maxLength count characters, of which a surrogate pair is one.           *)
Fits(t, min, max) == t.kind \notin {"null", "undefined"} /\ t.length - t.pairs + t.pad \in min .. max

CompanySchema(c) ==
  /\ Fits(c.legalName, 1, 100)
  /\ Test(SHAPE_VAT_NUMBER, c.vatNumber)
  /\ c.taxCode = Undefined \/ Fits(c.taxCode, 11, 11)
  /\ c.uniqueCode = Undefined \/ Test(SHAPE_UNIQUE_CODE, c.uniqueCode)
  /\ Fits(c.certifiedEmail, 1, 250)
  /\ Fits(c.street, 1, 100)
  /\ Test(SHAPE_POSTAL_CODE, c.postalCode)
  /\ Test(SHAPE_PROVINCE, c.province)
  /\ c.position.size = 2 /\ c.position.lng \in -180 .. 180 /\ c.position.lat \in -90 .. 90
  /\ c.publicName = Undefined \/ Fits(c.publicName, 1, 100)
  /\ c.slug = Undefined \/ (Fits(c.slug, 2, 120) /\ Test(SHAPE_SLUG, c.slug))

ItemSchema(i) == Fits(i.name, 1, 150) /\ Fits(i.slug, 2, 160) /\ Test(SHAPE_SLUG, i.slug)

(* Its $expr: a published company has a slug and a publicName.              *)
Linkable(c) == c.slug # Undefined /\ c.publicName # Undefined

-------------------------------------------------------------------------------
Valid(doc, flag) == CompanySchema(doc) /\ (flag => Linkable(doc))

Answer(a) == answer' = a /\ refused' = NoWrite

Reply400 == Answer("400") /\ UNCHANGED <<company, item, published, typed>>

(* A write that the collection refuses, for whatever clause, is a driver's   *)
(* error, which tryCatchRethrow turns into a 500.                          *)
Reply500(doc, flag) ==
  /\ answer' = "500"
  /\ refused' = [company |-> doc, published |-> flag]
  /\ UNCHANGED <<company, item, published, typed>>

WriteCompany(c, doc) ==
  \/ ~ Valid(doc, published) /\ Reply500(doc, published)
  \/ /\ Valid(doc, published)
     /\ company' = doc
     /\ typed' = [typed EXCEPT !.company = c]
     /\ Answer("true")
     /\ UNCHANGED <<item, published>>

(* `published: false` is stamped, which is what it is before there is one.  *)
companyAdd(c) ==
  /\ company = NoCompany
  /\ LET validated == validateCompany(c)
     IN  IF \E f \in CompanyFields : validated[f] = Refused THEN Reply400
         ELSE WriteCompany(c, validated)

(* Mutant: what is undefined is left out of the update.                    *)
funCompanyUpdate_NoUnset(data) ==
  [f \in CompanyFields |-> IF data[f] = Undefined THEN company[f] ELSE data[f]]

(* The document after $set of what data defines and $unset of the rest.     *)
funCompanyUpdate(data) ==
  [f \in CompanyFields |-> IF data[f] = Undefined THEN Undefined ELSE data[f]]

companyUpdate(c) ==
  /\ company # NoCompany
  /\ LET data == validateCompany(c)
     IN  IF \E f \in CompanyFields : data[f] = Refused THEN Reply400
         ELSE WriteCompany(c, funCompanyUpdate(data))

companyUpdatePublished(b) ==
  /\ company # NoCompany
  /\ \/ ~ Valid(company, b) /\ Reply500(company, b)
     \/ Valid(company, b) /\ published' = b /\ Answer("true") /\ UNCHANGED <<company, item, typed>>

(* itemAdd and itemUpdate: the input is complete, and nothing in it optional. *)
SaveItem(i) ==
  LET validated == validateItem(i)
  IN  IF \E f \in ItemFields : validated[f] = Refused THEN Reply400
      ELSE IF ~ ItemSchema(validated) THEN Reply500(company, published)
      ELSE /\ item' = validated
           /\ typed' = [typed EXCEPT !.item = i]
           /\ Answer("true")
           /\ UNCHANGED <<company, published>>

Next ==
  \/ \E c \in CompanyInputs : companyAdd(c) \/ companyUpdate(c)
  \/ \E b \in BOOLEAN : companyUpdatePublished(b)
  \/ \E i \in ItemInputs : SaveItem(i)

Spec == Init /\ [][Next]_vars

-------------------------------------------------------------------------------
(* A document holds trimmed texts, no 400 among them, and every field that   *)
(* cannot be cleared; and a published company is linkable.                 *)
TypeOK ==
  /\ DOMAIN company = CompanyFields /\ DOMAIN item = ItemFields
  /\ \A f \in CompanyFields \ {"position"} : company[f].pad = 0 /\ company[f].kind \notin {"null", "400"}
  /\ company # NoCompany => \A f \in CompanyFields \ Cleared : company[f] # Undefined
  /\ \A f \in ItemFields : item[f].pad = 0 /\ item[f].kind \notin {"null", "400"}
  /\ published => Linkable(company)

(* What the validators let through and the database refuses, a 500 that     *)
(* names no field, is one of two things, whatever was typed and saved       *)
(* before: a published company without a link, the rule that                *)
(* validateCompany leaves to the collection; or a tax code of 11 units that *)
(* are fewer characters.  Every other field's fault is a 400.              *)
ServerErrorsAreKnown ==
  answer = "500" =>
    \/ refused.published /\ ~ Linkable(refused.company)
    \/ refused.company.taxCode.pairs > 0

Wanted(f, t) ==
  IF f = "position" THEN t
  ELSE IF trim(t).length = 0 THEN Undefined
  ELSE IF f = "province" THEN toUpperCase(trim(t)) ELSE trim(t)

(* What a card holds is what was typed last and nothing older: a field that *)
(* was cleared is gone, whatever the saves and refusals before (funCompany-  *)
(* Update, the $unset half).                                               *)
HoldsWhatWasTyped ==
  /\ \A f \in CompanyFields : company[f] = Wanted(f, typed.company[f])
  /\ \A f \in ItemFields : item[f] = Wanted(f, typed.item[f])

(* A card opened and saved as it stands is accepted and does not change.    *)
SavingAgainChangesNothing ==
  /\ company # NoCompany => validateCompany(company) = company
  /\ item # NoItem => validateItem(item) = item
===============================================================================
