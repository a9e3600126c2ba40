------------------------------- MODULE CardsProofs ------------------------------
(***************************************************************************)
(* Proofs about Fields and Cards for any text and any position an owner may *)
(* type, on top of any earlier saves.                                      *)
(***************************************************************************)
EXTENDS Cards, TLAPS

(* What the helpers store, or leave out.                                    *)
Trimmed == {t \in [length : Nat, pairs : Nat, pad : {0}, kind : Kinds] : Typable(t)}
Storable == Trimmed \cup {Undefined}

-------------------------------------------------------------------------------
LEMMA TrimmedText ==
  ASSUME NEW t \in Texts
  PROVE  trim(t) \in Trimmed
BY DEF Texts, Trimmed, Typable, trim, Nothing, Null, Undefined, Text, Kinds

(* Trimming again changes nothing; what is trimmed is no 400 and defined.    *)
LEMMA TrimmedAgain ==
  ASSUME NEW t \in Trimmed
  PROVE  /\ trim(t) = t /\ t \in Texts
         /\ t # Refused /\ t # Undefined /\ t.kind \notin {"null", "undefined", "400"}
<1>1. t.kind \notin {"null", "undefined", "400"} /\ t.pad = 0
  BY DEF Trimmed, Kinds
<1>2. t # Refused /\ t # Undefined /\ t # Null
  BY <1>1 DEF Refused, Undefined, Null, Text
<1>3. trim(t) = t
  BY <1>1, <1>2 DEF trim, Nothing, Trimmed
<1>4. QED
  BY <1>1, <1>2, <1>3 DEF Trimmed, Texts

LEMMA NothingTyped == Undefined \in Texts /\ trim(Undefined).length = 0 /\ Undefined # Refused
BY DEF Texts, Nothing, trim, Undefined, Refused, Text

(* Each helper stores the trimmed text within its bounds, and takes what it  *)
(* stored as it is.                                                        *)
LEMMA requiredTextStores ==
  ASSUME NEW t \in Texts, NEW max \in Nat, requiredText(t, max) # Refused
  PROVE  /\ requiredText(t, max) = trim(t) /\ trim(t).length \in 1..max
         /\ requiredText(trim(t), max) = trim(t)
<1>1. trim(t) \in Trimmed
  BY TrimmedText
<1>2. trim(trim(t)) = trim(t)
  BY <1>1, TrimmedAgain
<1>3. trim(t).length \in Nat
  BY <1>1 DEF Trimmed
<1>4. QED
  BY <1>2, <1>3 DEF requiredText

LEMMA textWithFormatStores ==
  ASSUME NEW t \in Texts, NEW shape, textWithFormat(t, shape) # Refused
  PROVE  /\ textWithFormat(t, shape) = trim(t) /\ Test(shape, trim(t))
         /\ textWithFormat(trim(t), shape) = trim(t)
<1>1. trim(trim(t)) = trim(t)
  BY TrimmedText, TrimmedAgain
<1>2. QED
  BY <1>1 DEF textWithFormat

LEMMA requiredSlugStores ==
  ASSUME NEW t \in Texts, NEW max \in Nat, requiredSlug(t, max) # Refused
  PROVE  /\ requiredSlug(t, max) = trim(t) /\ trim(t).length \in MIN_SLUG..max /\ Test(SHAPE_SLUG, trim(t))
         /\ requiredSlug(trim(t), max) = trim(t)
<1> DEFINE clean == requiredText(t, max)
<1>1. clean # Refused /\ ~ (clean.length < MIN_SLUG) /\ requiredSlug(t, max) = textWithFormat(clean, SHAPE_SLUG)
  BY DEF requiredSlug
<1>2. clean = trim(t) /\ trim(t).length \in 1..max /\ requiredText(trim(t), max) = trim(t)
  BY <1>1, requiredTextStores
<1>3. trim(t) \in Trimmed /\ trim(t) \in Texts /\ trim(trim(t)) = trim(t)
  BY TrimmedText, TrimmedAgain
<1>4. textWithFormat(trim(t), SHAPE_SLUG) = trim(t) /\ Test(SHAPE_SLUG, trim(t))
  BY <1>1, <1>2, <1>3, textWithFormatStores
<1>5. trim(t).length \in MIN_SLUG..max
  BY <1>1, <1>2 DEF MIN_SLUG
<1>6. requiredSlug(trim(t), max) = trim(t)
  BY <1>1, <1>2, <1>4 DEF requiredSlug
<1>7. QED
  BY <1>1, <1>2, <1>4, <1>5, <1>6

LEMMA requiredEmailStores ==
  ASSUME NEW t \in Texts, requiredEmail(t) # Refused
  PROVE  /\ requiredEmail(t) = trim(t) /\ trim(t).length \in 1..MAX_EMAIL
         /\ requiredEmail(trim(t)) = trim(t)
<1> DEFINE clean == requiredText(t, MAX_EMAIL)
<1>1. clean # Refused /\ requiredEmail(t) = textWithFormat(clean, SHAPE_EMAIL)
  BY DEF requiredEmail
<1>2. clean = trim(t) /\ trim(t).length \in 1..MAX_EMAIL /\ requiredText(trim(t), MAX_EMAIL) = trim(t)
  BY <1>1, requiredTextStores DEF MAX_EMAIL
<1>3. trim(t) \in Texts /\ trim(trim(t)) = trim(t)
  BY TrimmedText, TrimmedAgain
<1>4. textWithFormat(trim(t), SHAPE_EMAIL) = trim(t)
  BY <1>1, <1>2, <1>3, textWithFormatStores
<1>5. QED
  BY <1>1, <1>2, <1>4 DEF requiredEmail

(* An optional field is left out when nothing is typed, and only then.       *)
LEMMA optionalTextStores ==
  ASSUME NEW t \in Texts, NEW max \in Nat, optionalText(t, max) # Refused
  PROVE  /\ optionalText(t, max) = IF trim(t).length = 0 THEN Undefined ELSE trim(t)
         /\ trim(t).length \in 0..max
         /\ optionalText(optionalText(t, max), max) = optionalText(t, max)
<1>1. trim(t) \in Trimmed /\ trim(trim(t)) = trim(t) /\ trim(t).length \in Nat
  BY TrimmedText, TrimmedAgain DEF Trimmed
<1>2. CASE trim(t).length = 0
  BY <1>2, NothingTyped DEF optionalText
<1>3. CASE trim(t).length # 0
  BY <1>1, <1>3, requiredTextStores DEF optionalText
<1>4. QED
  BY <1>2, <1>3

LEMMA optionalTextExactLengthStores ==
  ASSUME NEW t \in Texts, NEW n \in Nat, optionalTextExactLength(t, n) # Refused
  PROVE  /\ optionalTextExactLength(t, n) = IF trim(t).length = 0 THEN Undefined ELSE trim(t)
         /\ trim(t).length \in {0, n}
         /\ optionalTextExactLength(optionalTextExactLength(t, n), n) = optionalTextExactLength(t, n)
<1>1. trim(trim(t)) = trim(t)
  BY TrimmedText, TrimmedAgain
<1>2. QED
  BY <1>1, NothingTyped DEF optionalTextExactLength

LEMMA optionalTextWithFormatStores ==
  ASSUME NEW t \in Texts, NEW shape, optionalTextWithFormat(t, shape) # Refused
  PROVE  /\ optionalTextWithFormat(t, shape) = IF trim(t).length = 0 THEN Undefined ELSE trim(t)
         /\ trim(t).length # 0 => Test(shape, trim(t))
         /\ optionalTextWithFormat(optionalTextWithFormat(t, shape), shape) = optionalTextWithFormat(t, shape)
<1>1. trim(trim(t)) = trim(t)
  BY TrimmedText, TrimmedAgain
<1>2. CASE trim(t).length = 0
  BY <1>2, NothingTyped DEF optionalTextWithFormat
<1>3. CASE trim(t).length # 0
  BY <1>1, <1>3, textWithFormatStores DEF optionalTextWithFormat
<1>4. QED
  BY <1>2, <1>3

LEMMA optionalSlugStores ==
  ASSUME NEW t \in Texts, NEW max \in Nat, optionalSlug(t, max) # Refused
  PROVE  /\ optionalSlug(t, max) = IF trim(t).length = 0 THEN Undefined ELSE trim(t)
         /\ trim(t).length # 0 => trim(t).length \in MIN_SLUG..max /\ Test(SHAPE_SLUG, trim(t))
         /\ optionalSlug(optionalSlug(t, max), max) = optionalSlug(t, max)
<1>1. trim(trim(t)) = trim(t)
  BY TrimmedText, TrimmedAgain
<1>2. CASE trim(t).length = 0
  BY <1>2, NothingTyped DEF optionalSlug
<1>3. CASE trim(t).length # 0
  BY <1>1, <1>3, requiredSlugStores DEF optionalSlug
<1>4. QED
  BY <1>2, <1>3

(* A position is stored as it is or refused; it is no text.                 *)
LEMMA coordinateStores ==
  ASSUME NEW p \in Positions
  PROVE  p # Refused /\ p # Undefined
<1>1. DOMAIN p = {"size", "lng", "lat"}
  BY DEF Positions
<1>2. /\ DOMAIN Refused = {"length", "pairs", "pad", "kind"}
        /\ DOMAIN Undefined = {"length", "pairs", "pad", "kind"}
  BY DEF Refused, Undefined, Text
<1>3. QED
  BY <1>1, <1>2

(* A province is stored in capitals, which are taken as they are.            *)
LEMMA provinceStores ==
  ASSUME NEW t \in Texts, toUpperCase(textWithFormat(t, SHAPE_PROVINCE)) # Refused
  PROVE  LET r == toUpperCase(textWithFormat(t, SHAPE_PROVINCE))
         IN  /\ r = toUpperCase(trim(t)) /\ r \in Trimmed /\ Test(SHAPE_PROVINCE, r)
             /\ trim(t).length # 0
             /\ toUpperCase(textWithFormat(r, SHAPE_PROVINCE)) = r
<1> DEFINE v == trim(t)
           r == toUpperCase(v)
<1>1. textWithFormat(t, SHAPE_PROVINCE) # Refused
  BY DEF toUpperCase, Refused, Text
<1>2. textWithFormat(t, SHAPE_PROVINCE) = v /\ Test(SHAPE_PROVINCE, v)
  BY <1>1, textWithFormatStores
<1>3. v \in Trimmed
  BY TrimmedText
<1> HIDE DEF v
<1>4. r \in Trimmed /\ r.length = v.length /\ r.kind \in {"letters", "LETTERS"} /\ r.kind # "letters"
  BY <1>2, <1>3 DEF toUpperCase, Trimmed, Typable, Wide, Kinds, Test, SHAPE_PROVINCE
<1>5. Test(SHAPE_PROVINCE, r) /\ v.length # 0
  BY <1>2, <1>3, <1>4 DEF Trimmed, Test, SHAPE_PROVINCE
<1>6. toUpperCase(r) = r
  BY <1>4 DEF toUpperCase
<1> HIDE DEF r
<1>7. toUpperCase(textWithFormat(r, SHAPE_PROVINCE)) = r
  BY <1>4, <1>5, <1>6, TrimmedAgain DEF textWithFormat
<1>8. QED
  BY <1>2, <1>4, <1>5, <1>7 DEF v, r

-------------------------------------------------------------------------------
(* What validateCompany says of each field.                                 *)
LEMMA ValidatedFields ==
  ASSUME NEW c
  PROVE  LET r == validateCompany(c)
         IN  /\ r = [f \in CompanyFields |-> r[f]]
             /\ r["legalName"] = requiredText(c["legalName"], 100)
             /\ r["vatNumber"] = textWithFormat(c["vatNumber"], SHAPE_VAT_NUMBER)
             /\ r["taxCode"] = optionalTextExactLength(c["taxCode"], 11)
             /\ r["uniqueCode"] = optionalTextWithFormat(c["uniqueCode"], SHAPE_UNIQUE_CODE)
             /\ r["certifiedEmail"] = requiredEmail(c["certifiedEmail"])
             /\ r["street"] = requiredText(c["street"], 100)
             /\ r["postalCode"] = textWithFormat(c["postalCode"], SHAPE_POSTAL_CODE)
             /\ r["province"] = toUpperCase(textWithFormat(c["province"], SHAPE_PROVINCE))
             /\ r["position"] = coordinate(c["position"])
             /\ r["publicName"] = optionalText(c["publicName"], 100)
             /\ r["slug"] = optionalSlug(c["slug"], 120)
BY DEF validateCompany, validateAddress, CompanyFields

Accepted(c) == \A f \in CompanyFields : validateCompany(c)[f] # Refused

WellTyped(c) == (\A f \in CompanyFields \ {"position"} : c[f] \in Texts) /\ c["position"] \in Positions

(* An accepted form is stored as Wanted says, field by field, ...           *)
LEMMA StoredAsWanted ==
  ASSUME NEW c, WellTyped(c), Accepted(c)
  PROVE  \A f \in CompanyFields : validateCompany(c)[f] = Wanted(f, c[f])
<1> DEFINE r == validateCompany(c)
<1>1. \A f \in CompanyFields : r[f] # Refused
  BY DEF Accepted
<1>2. \A f \in CompanyFields \ {"position"} : c[f] \in Texts
  BY DEF WellTyped
<1> HIDE DEF r
<1>3. ASSUME NEW f \in {"legalName", "street"}
      PROVE  r[f] = trim(c[f]) /\ trim(c[f]).length # 0
  BY <1>1, <1>2, ValidatedFields, requiredTextStores DEF CompanyFields, r
<1>4. ASSUME NEW f \in {"vatNumber", "postalCode"}
      PROVE  r[f] = trim(c[f]) /\ trim(c[f]).length # 0
  BY <1>1, <1>2, ValidatedFields, textWithFormatStores DEF CompanyFields, Test, r
<1>5. r["certifiedEmail"] = trim(c["certifiedEmail"]) /\ trim(c["certifiedEmail"]).length # 0
  BY <1>1, <1>2, ValidatedFields, requiredEmailStores DEF CompanyFields, MAX_EMAIL, r
<1>6. r["province"] = toUpperCase(trim(c["province"])) /\ trim(c["province"]).length # 0
  BY <1>1, <1>2, ValidatedFields, provinceStores DEF CompanyFields, r
<1>7. ASSUME NEW f \in Cleared
      PROVE  r[f] = IF trim(c[f]).length = 0 THEN Undefined ELSE trim(c[f])
  BY <1>1, <1>2, ValidatedFields, optionalTextExactLengthStores, optionalTextWithFormatStores,
     optionalTextStores,
     optionalSlugStores DEF CompanyFields, Cleared, r
<1>8. r["position"] = c["position"]
  BY <1>1, ValidatedFields DEF CompanyFields, coordinate, r
<1>9. QED
  BY <1>3, <1>4, <1>5, <1>6, <1>7, <1>8 DEF Wanted, CompanyFields, Cleared, r

(* ... is well typed and accepted again, unchanged, ...                     *)
LEMMA AcceptedAgain ==
  ASSUME NEW c, WellTyped(c), Accepted(c)
  PROVE  validateCompany(validateCompany(c)) = validateCompany(c)
<1> DEFINE r == validateCompany(c)
           s == validateCompany(r)
<1>1. \A f \in CompanyFields : r[f] # Refused
  BY DEF Accepted
<1>2. \A f \in CompanyFields \ {"position"} : c[f] \in Texts
  BY DEF WellTyped
<1> HIDE DEF r, s
<1>3. s["legalName"] = r["legalName"] /\ s["street"] = r["street"]
  BY <1>1, <1>2, ValidatedFields, requiredTextStores DEF CompanyFields, r, s
<1>4. s["vatNumber"] = r["vatNumber"] /\ s["postalCode"] = r["postalCode"]
  BY <1>1, <1>2, ValidatedFields, textWithFormatStores DEF CompanyFields, r, s
<1>5. s["certifiedEmail"] = r["certifiedEmail"]
  BY <1>1, <1>2, ValidatedFields, requiredEmailStores DEF CompanyFields, r, s
<1>6. s["province"] = r["province"]
  BY <1>1, <1>2, ValidatedFields, provinceStores DEF CompanyFields, r, s
<1>7. s["taxCode"] = r["taxCode"] /\ s["uniqueCode"] = r["uniqueCode"]
  BY <1>1, <1>2, ValidatedFields, optionalTextExactLengthStores, optionalTextWithFormatStores DEF
     CompanyFields, r, s
<1>8. s["publicName"] = r["publicName"] /\ s["slug"] = r["slug"]
  BY <1>1, <1>2, ValidatedFields, optionalTextStores, optionalSlugStores DEF CompanyFields, r, s
<1>9. s["position"] = r["position"]
  BY <1>1, ValidatedFields DEF CompanyFields, coordinate, r, s
<1>10. \A f \in CompanyFields : s[f] = r[f]
  BY <1>3, <1>4, <1>5, <1>6, <1>7, <1>8, <1>9 DEF CompanyFields
<1>11. s = [f \in CompanyFields |-> s[f]] /\ r = [f \in CompanyFields |-> r[f]]
  BY ValidatedFields DEF r, s
<1>12. QED
  BY <1>10, <1>11 DEF s, r

(* A slug has no surrogate pair.                                            *)
LEMMA SlugUnits ==
  ASSUME NEW t \in Trimmed, Test(SHAPE_SLUG, t)
  PROVE  t.pairs = 0
BY DEF Test, SHAPE_SLUG, Trimmed, Typable, Wide

(* A text of so many units has no more characters, and one at least if it is  *)
(* not empty: what is within a bound of units is within that of characters. *)
LEMMA UnitsFit ==
  ASSUME NEW t \in Trimmed, NEW max \in Nat, t.length \in 1 .. max
  PROVE  Fits(t, 1, max)
<1>1. /\ t.length \in Nat /\ t.pairs \in Nat /\ t.pad = 0 /\ 2 * t.pairs <= t.length
      /\ t.kind \notin {"null", "undefined"}
  BY TrimmedAgain DEF Trimmed, Typable
<1>2. t.length - t.pairs + t.pad \in 1 .. max
  BY <1>1
<1>3. QED
  BY <1>1, <1>2 DEF Fits

(* ... and is what the collection takes, if every unit of its tax code is a  *)
(* character.                                                              *)
LEMMA AcceptedFits ==
  ASSUME NEW c, WellTyped(c), Accepted(c), validateCompany(c)["taxCode"].pairs = 0
  PROVE  CompanySchema(validateCompany(c))
<1> DEFINE r == validateCompany(c)
<1>1. \A f \in CompanyFields : r[f] # Refused
  BY DEF Accepted
<1>2. \A f \in CompanyFields \ {"position"} : c[f] \in Texts
  BY DEF WellTyped
<1>3. \A f \in CompanyFields \ {"position"} : trim(c[f]) \in Trimmed
  BY <1>2, TrimmedText
<1>4. ASSUME NEW t \in Trimmed, NEW min \in Nat, NEW max \in Nat, t.length \in min .. max, t.pairs = 0
      PROVE  Fits(t, min, max)
  BY <1>4, TrimmedAgain DEF Fits, Trimmed
<1>5. r["taxCode"].pairs = 0
  OBVIOUS
<1> HIDE DEF r
<1>6. Fits(r["legalName"], 1, 100) /\ Fits(r["street"], 1, 100)
  BY <1>1, <1>2, <1>3, UnitsFit, ValidatedFields, requiredTextStores DEF CompanyFields, r
<1>7. Test(SHAPE_VAT_NUMBER, r["vatNumber"]) /\ Test(SHAPE_POSTAL_CODE, r["postalCode"])
  BY <1>1, <1>2, ValidatedFields, textWithFormatStores DEF CompanyFields, r
<1>8. r["taxCode"] = Undefined \/ Fits(r["taxCode"], 11, 11)
  BY <1>1, <1>2, <1>3, <1>4, <1>5, ValidatedFields, optionalTextExactLengthStores DEF CompanyFields, r
<1>9. r["uniqueCode"] = Undefined \/ Test(SHAPE_UNIQUE_CODE, r["uniqueCode"])
  BY <1>1, <1>2, ValidatedFields, optionalTextWithFormatStores DEF CompanyFields, r
<1>10. Fits(r["certifiedEmail"], 1, 250)
  <2> DEFINE v == r["certifiedEmail"]
  <2>1. v = trim(c["certifiedEmail"]) /\ v.length \in 1..250
    BY <1>1, <1>2, ValidatedFields, requiredEmailStores DEF CompanyFields, MAX_EMAIL, r
  <2>2. v \in Trimmed
    BY <1>3, <2>1 DEF CompanyFields
  <2> HIDE DEF v
  <2>3. Fits(v, 1, 250)
    BY UnitsFit, <2>1, <2>2
  <2>4. QED
    BY <2>3 DEF v
<1>11. Test(SHAPE_PROVINCE, r["province"])
  BY <1>1, <1>2, ValidatedFields, provinceStores DEF CompanyFields, r
<1>12. LET p == r["position"]
       IN  p["size"] = 2 /\ p["lng"] \in -180 .. 180 /\ p["lat"] \in -90 .. 90
  BY <1>1, ValidatedFields DEF CompanyFields, coordinate, r
<1>13. r["publicName"] = Undefined \/ Fits(r["publicName"], 1, 100)
  <2> DEFINE v == trim(c["publicName"])
  <2>1. /\ r["publicName"] = IF v.length = 0 THEN Undefined ELSE v
        /\ v.length \in 0..100 /\ v \in Trimmed
    BY <1>1, <1>2, <1>3, ValidatedFields, optionalTextStores DEF CompanyFields, r
  <2> HIDE DEF v
  <2>2. QED
    BY UnitsFit, <2>1 DEF Trimmed
<1>14. r["slug"] = Undefined \/ (Fits(r["slug"], 2, 120) /\ Test(SHAPE_SLUG, r["slug"]))
  <2> DEFINE v == trim(c["slug"])
  <2>1. /\ r["slug"] = IF v.length = 0 THEN Undefined ELSE v
        /\ v.length # 0 => v.length \in 2..120 /\ Test(SHAPE_SLUG, v)
        /\ v \in Trimmed
    BY <1>1, <1>2, <1>3, ValidatedFields, optionalSlugStores DEF CompanyFields, MIN_SLUG, r
  <2> HIDE DEF v
  <2>2. ASSUME v.length # 0
        PROVE  Fits(v, 2, 120)
    BY <1>4, <2>1, <2>2, SlugUnits
  <2>3. QED
    BY <2>1, <2>2
<1>15. QED
  BY <1>6, <1>7, <1>8, <1>9, <1>10, <1>11, <1>12, <1>13, <1>14 DEF CompanySchema, r

-------------------------------------------------------------------------------
(* The same of an item's card.                                              *)
ItemAccepted(i) == \A f \in ItemFields : validateItem(i)[f] # Refused

ItemWellTyped(i) == \A f \in ItemFields : i[f] \in Texts

LEMMA ItemStored ==
  ASSUME NEW i, ItemWellTyped(i), ItemAccepted(i)
  PROVE  /\ \A f \in ItemFields : validateItem(i)[f] = Wanted(f, i[f]) /\ validateItem(i)[f] \in Trimmed
         /\ validateItem(validateItem(i)) = validateItem(i)
         /\ ItemSchema(validateItem(i))
<1> DEFINE r == validateItem(i)
           s == validateItem(r)
<1>1. /\ r = [name |-> requiredText(i["name"], 150), slug |-> requiredSlug(i["slug"], 160)]
      /\ s = [name |-> requiredText(r["name"], 150), slug |-> requiredSlug(r["slug"], 160)]
  BY DEF validateItem
<1>2. /\ i["name"] \in Texts /\ i["slug"] \in Texts
      /\ requiredText(i["name"], 150) # Refused /\ requiredSlug(i["slug"], 160) # Refused
  BY <1>1 DEF ItemWellTyped, ItemAccepted, ItemFields
<1>3. trim(i["name"]) \in Trimmed /\ trim(i["slug"]) \in Trimmed
  BY <1>2, TrimmedText
<1> HIDE DEF r, s
<1>4. /\ r["name"] = trim(i["name"]) /\ r["name"].length \in 1..150
      /\ requiredText(r["name"], 150) = r["name"]
  BY <1>1, <1>2, requiredTextStores
<1>5. /\ r["slug"] = trim(i["slug"]) /\ r["slug"].length \in 2..160 /\ Test(SHAPE_SLUG, r["slug"])
      /\ requiredSlug(r["slug"], 160) = r["slug"]
  BY <1>1, <1>2, requiredSlugStores DEF MIN_SLUG
<1>6. \A f \in ItemFields : r[f] = Wanted(f, i[f]) /\ r[f] \in Trimmed
  BY <1>3, <1>4, <1>5 DEF ItemFields, Wanted
<1>7. s = r
  BY <1>1, <1>4, <1>5
<1>8. Fits(r["name"], 1, 150) /\ Fits(r["slug"], 2, 160)
  <2>1. r["name"] \in Trimmed /\ r["slug"] \in Trimmed
    BY <1>3, <1>4, <1>5
  <2>2. Fits(r["name"], 1, 150)
    BY <2>1, <1>4, UnitsFit
  <2>3. r["slug"].pairs = 0 /\ r["slug"].pad = 0 /\ r["slug"].kind \notin {"null", "undefined"}
    BY <2>1, <1>5, SlugUnits, TrimmedAgain DEF Trimmed
  <2>4. QED
    BY <2>2, <2>3, <1>5 DEF Fits
<1>9. QED
  BY <1>5, <1>6, <1>7, <1>8 DEF ItemSchema, r, s

-------------------------------------------------------------------------------
(* A tax code is stored as text or left out; either way its pairs are counted. *)
LEMMA StoredTaxCode ==
  ASSUME NEW c, WellTyped(c), Accepted(c)
  PROVE  validateCompany(c)["taxCode"].pairs \in Nat
<1>1. validateCompany(c)["taxCode"] = Wanted("taxCode", c["taxCode"])
  BY StoredAsWanted DEF CompanyFields
<1>2. trim(c["taxCode"]) \in Trimmed
  BY TrimmedText DEF WellTyped, CompanyFields
<1>3. Undefined.pairs = 0 /\ \A t \in Trimmed : t.pairs \in Nat
  BY DEF Undefined, Text, Trimmed
<1>4. QED
  BY <1>1, <1>2, <1>3 DEF Wanted

(* A card is none yet, or what the validator made of what was typed last.    *)
CompanyInv ==
  \/ company = NoCompany /\ typed.company = NoCompany
  \/ WellTyped(typed.company) /\ Accepted(typed.company) /\ company = validateCompany(typed.company)

ItemInv ==
  \/ item = NoItem /\ typed.item = NoItem
  \/ ItemWellTyped(typed.item) /\ ItemAccepted(typed.item) /\ item = validateItem(typed.item)

CardsInv ==
  /\ CompanyInv
  /\ ItemInv
  /\ DOMAIN typed = {"company", "item"}
  /\ published => Linkable(company)
  /\ ServerErrorsAreKnown

(* A save of a well-typed form: an accepted one fits the collection but for   *)
(* its tax code, or lacks the link that its shop is published by.          *)
LEMMA WriteKeeps ==
  ASSUME CardsInv, NEW c \in CompanyInputs, Accepted(c), WriteCompany(c, validateCompany(c))
  PROVE  CardsInv'
<1>1. WellTyped(c)
  BY CardsAssumption DEF WellTyped
<1>2. ASSUME validateCompany(c)["taxCode"].pairs = 0
      PROVE  CompanySchema(validateCompany(c))
  BY <1>1, <1>2, AcceptedFits
<1>3. CASE ~ Valid(validateCompany(c), published) /\ Reply500(validateCompany(c), published)
  <2>1. validateCompany(c)["taxCode"].pairs \in Nat
    BY <1>1, StoredTaxCode
  <2>2. ServerErrorsAreKnown'
    BY <1>2, <1>3, <2>1 DEF Reply500, Valid, ServerErrorsAreKnown
  <2>3. QED
    BY <1>3, <2>2 DEF Reply500, CardsInv, CompanyInv, ItemInv
<1>4. CASE /\ Valid(validateCompany(c), published)
           /\ company' = validateCompany(c) /\ typed' = [typed EXCEPT !.company = c]
           /\ Answer("true") /\ UNCHANGED <<item, published>>
  <2>1. typed'.company = c /\ typed'.item = typed.item /\ DOMAIN typed' = {"company", "item"}
    BY <1>4 DEF CardsInv
  <2>2. CompanyInv' /\ ItemInv'
    BY <1>1, <1>4, <2>1 DEF CardsInv, CompanyInv, ItemInv
  <2>3. QED
    BY <1>4, <2>1, <2>2 DEF CardsInv, ServerErrorsAreKnown, Answer, Valid
<1>5. QED
  BY <1>3, <1>4 DEF WriteCompany

LEMMA ReplyKeeps ==
  ASSUME CardsInv, Reply400
  PROVE  CardsInv'
BY DEF Reply400, Answer, CardsInv, CompanyInv, ItemInv, ServerErrorsAreKnown

LEMMA companyAddKeeps ==
  ASSUME CardsInv, NEW c \in CompanyInputs, companyAdd(c)
  PROVE  CardsInv'
<1>1. CASE Reply400
  BY <1>1, ReplyKeeps
<1>2. CASE Accepted(c) /\ WriteCompany(c, validateCompany(c))
  BY <1>2, WriteKeeps
<1>3. QED
  BY <1>1, <1>2 DEF companyAdd, Accepted

LEMMA companyUpdateKeeps ==
  ASSUME CardsInv, NEW c \in CompanyInputs, companyUpdate(c)
  PROVE  CardsInv'
<1>1. funCompanyUpdate(validateCompany(c)) = validateCompany(c)
  <2> DEFINE r == validateCompany(c)
  <2>1. r = [f \in CompanyFields |-> r[f]]
    BY ValidatedFields
  <2> HIDE DEF r
  <2>2. funCompanyUpdate(r) = r
    BY <2>1 DEF funCompanyUpdate
  <2>3. QED
    BY <2>2 DEF r
<1>2. CASE Reply400
  BY <1>2, ReplyKeeps
<1>3. CASE Accepted(c) /\ WriteCompany(c, validateCompany(c))
  BY <1>3, WriteKeeps
<1>4. QED
  BY <1>1, <1>2, <1>3 DEF companyUpdate, Accepted

LEMMA companyUpdatePublishedKeeps ==
  ASSUME CardsInv, NEW b \in BOOLEAN, companyUpdatePublished(b)
  PROVE  CardsInv'
<1>1. company # NoCompany
  BY DEF companyUpdatePublished
<1>2. CASE ~ Valid(company, b) /\ Reply500(company, b)
  <2>1. WellTyped(typed.company) /\ Accepted(typed.company) /\ company = validateCompany(typed.company)
    BY <1>1 DEF CardsInv, CompanyInv
  <2>2. company["taxCode"].pairs \in Nat
    BY <2>1, StoredTaxCode
  <2>3. company["taxCode"].pairs = 0 => CompanySchema(company)
    BY <2>1, AcceptedFits
  <2>4. ServerErrorsAreKnown'
    BY <1>2, <2>2, <2>3 DEF Reply500, Valid, ServerErrorsAreKnown
  <2>5. QED
    BY <1>2, <2>4 DEF Reply500, CardsInv, CompanyInv, ItemInv
<1>3. CASE /\ Valid(company, b) /\ published' = b /\ Answer("true") /\ UNCHANGED <<company, item, typed>>
  BY <1>3 DEF Valid, Answer, CardsInv, CompanyInv, ItemInv, ServerErrorsAreKnown
<1>4. QED
  BY <1>2, <1>3 DEF companyUpdatePublished

LEMMA SaveItemKeeps ==
  ASSUME CardsInv, NEW i \in ItemInputs, SaveItem(i)
  PROVE  CardsInv'
<1>1. ItemWellTyped(i)
  BY CardsAssumption DEF ItemWellTyped
<1>2. CASE Reply400
  BY <1>2, ReplyKeeps
<1>3. CASE /\ ItemAccepted(i) /\ item' = validateItem(i) /\ typed' = [typed EXCEPT !.item = i]
           /\ Answer("true") /\ UNCHANGED <<company, published>>
  <2>1. typed'.item = i /\ typed'.company = typed.company /\ DOMAIN typed' = {"company", "item"}
    BY <1>3 DEF CardsInv
  <2>2. CompanyInv' /\ ItemInv'
    BY <1>1, <1>3, <2>1 DEF CardsInv, CompanyInv, ItemInv
  <2>3. QED
    BY <1>3, <2>1, <2>2 DEF CardsInv, ServerErrorsAreKnown, Answer
<1>4. ItemAccepted(i) => ItemSchema(validateItem(i))
  BY <1>1, ItemStored
<1>5. QED
  BY <1>2, <1>3, <1>4 DEF SaveItem, ItemAccepted

(* The inductive invariant, of every behaviour.                             *)
THEOREM CardsInvariance == Spec => []CardsInv
<1>1. Init => CardsInv
  BY DEF Init, CardsInv, CompanyInv, ItemInv, ServerErrorsAreKnown
<1>2. ASSUME CardsInv, [Next]_vars
      PROVE  CardsInv'
  <2>1. CASE UNCHANGED vars
    BY <1>2, <2>1 DEF vars, CardsInv, CompanyInv, ItemInv, ServerErrorsAreKnown
  <2>2. QED
    BY <1>2, <2>1, companyAddKeeps, companyUpdateKeeps, companyUpdatePublishedKeeps, SaveItemKeeps
       DEF Next
<1>3. QED
  BY <1>1, <1>2, PTL DEF Spec

(* Whatever was typed and saved before, what the validators let through the   *)
(* collection refuses for its $expr only, or for a tax code with surrogate  *)
(* pairs: every other field that is accepted is within its bounds.         *)
THEOREM RefusalsAreKnown == Spec => []ServerErrorsAreKnown
<1>1. CardsInv => ServerErrorsAreKnown
  BY DEF CardsInv
<1>2. QED
  BY <1>1, CardsInvariance, PTL

(* What is stored of an accepted form, and that nothing required is missing.  *)
LEMMA StoredText ==
  ASSUME NEW c, WellTyped(c), Accepted(c)
  PROVE  /\ \A f \in CompanyFields \ {"position"} : validateCompany(c)[f] \in Storable
         /\ \A f \in CompanyFields \ Cleared : validateCompany(c)[f] # Undefined
<1> DEFINE r == validateCompany(c)
<1>1. \A f \in CompanyFields : r[f] = Wanted(f, c[f])
  BY StoredAsWanted
<1>2. \A f \in CompanyFields \ {"position"} : trim(c[f]) \in Trimmed
  BY TrimmedText DEF WellTyped
<1>3. \A f \in CompanyFields : r[f] # Refused
  BY DEF Accepted
<1> HIDE DEF r
<1>4. \A t \in Trimmed : toUpperCase(t) \in Trimmed
  BY DEF toUpperCase, Trimmed, Typable, Wide, Kinds
<1>5. \A f \in CompanyFields \ {"position"} : r[f] \in Storable
  BY <1>1, <1>2, <1>4 DEF Wanted, Storable
<1>6. r["position"] # Undefined
  BY <1>1, coordinateStores DEF Wanted, CompanyFields, WellTyped
<1>7. Undefined \notin Trimmed
  BY DEF Undefined, Text, Trimmed, Kinds
<1>8. \A f \in CompanyFields \ {"position"} : c[f] \in Texts
  BY DEF WellTyped
<1>9. r["legalName"] \in Trimmed /\ r["street"] \in Trimmed
  BY <1>2, <1>3, <1>8, ValidatedFields, requiredTextStores DEF CompanyFields, r
<1>10. r["vatNumber"] \in Trimmed /\ r["postalCode"] \in Trimmed
  BY <1>2, <1>3, <1>8, ValidatedFields, textWithFormatStores DEF CompanyFields, r
<1>11. r["certifiedEmail"] \in Trimmed
  BY <1>2, <1>3, <1>8, ValidatedFields, requiredEmailStores DEF CompanyFields, r
<1>12. r["province"] \in Trimmed
  BY <1>3, <1>8, ValidatedFields, provinceStores DEF CompanyFields, r
<1>13. /\ r["legalName"] # Undefined /\ r["certifiedEmail"] # Undefined /\ r["street"] # Undefined
      /\ r["vatNumber"] # Undefined /\ r["postalCode"] # Undefined /\ r["province"] # Undefined
  BY <1>7, <1>9, <1>10, <1>11, <1>12
<1>14. QED
  BY <1>5, <1>6, <1>13 DEF CompanyFields, Cleared, r

(* TypeOK: trimmed texts, no 400 stored, nothing required left out, and a     *)
(* published company that is linkable.                                     *)
THEOREM CardsTypes == Spec => []TypeOK
<1>1. ASSUME CardsInv
      PROVE  TypeOK
  <2>1. \A t \in Storable : t.pad = 0 /\ t.kind \notin {"null", "400"}
    BY TrimmedAgain DEF Storable, Trimmed, Undefined, Text
  <2>2. company = NoCompany \/ (WellTyped(typed.company) /\ Accepted(typed.company))
    BY <1>1 DEF CardsInv, CompanyInv
  <2>3. /\ DOMAIN company = CompanyFields
        /\ \A f \in CompanyFields \ {"position"} : company[f] \in Storable
        /\ company # NoCompany => \A f \in CompanyFields \ Cleared : company[f] # Undefined
    <3>1. CASE company = NoCompany
      BY <3>1 DEF NoCompany, Storable
    <3>2. CASE company # NoCompany
      BY <1>1, <2>2, <3>2, StoredText, ValidatedFields DEF CardsInv, CompanyInv
    <3>3. QED
      BY <3>1, <3>2
  <2>4. DOMAIN item = ItemFields /\ \A f \in ItemFields : item[f] \in Storable
    <3>1. CASE item = NoItem
      BY <3>1 DEF NoItem, Storable
    <3>2. CASE item # NoItem
      <4>1. ItemWellTyped(typed.item) /\ ItemAccepted(typed.item) /\ item = validateItem(typed.item)
        BY <1>1, <3>2 DEF CardsInv, ItemInv
      <4>2. \A f \in ItemFields : item[f] \in Trimmed
        BY <4>1, ItemStored
      <4>3. DOMAIN item = ItemFields
        BY <4>1 DEF validateItem, ItemFields
      <4>4. QED
        BY <4>2, <4>3 DEF Storable
    <3>3. QED
      BY <3>1, <3>2
  <2>5. QED
    BY <1>1, <2>1, <2>3, <2>4 DEF TypeOK, CardsInv
<1>2. QED
  BY <1>1, CardsInvariance, PTL

(* A card holds, field by field, what was typed in the last accepted save, and *)
(* nothing of an older one.                                                *)
THEOREM CardsHoldTheLastSave == Spec => []HoldsWhatWasTyped
<1>1. ASSUME CardsInv
      PROVE  HoldsWhatWasTyped
  <2>1. \A f \in CompanyFields \cup ItemFields : Wanted(f, Undefined) = Undefined
    BY NothingTyped DEF Wanted
  <2>2. \A f \in CompanyFields : company[f] = Wanted(f, typed.company[f])
    BY <1>1, <2>1, StoredAsWanted DEF CardsInv, CompanyInv, NoCompany
  <2>3. \A f \in ItemFields : item[f] = Wanted(f, typed.item[f])
    BY <1>1, <2>1, ItemStored DEF CardsInv, ItemInv, NoItem
  <2>4. QED
    BY <2>2, <2>3 DEF HoldsWhatWasTyped
<1>2. QED
  BY <1>1, CardsInvariance, PTL

(* What a card holds is a form the validators accept and leave as it is.     *)
THEOREM SavingIsIdempotent == Spec => []SavingAgainChangesNothing
<1>1. CardsInv => SavingAgainChangesNothing
  BY AcceptedAgain, ItemStored DEF CardsInv, CompanyInv, ItemInv, SavingAgainChangesNothing
<1>2. QED
  BY <1>1, CardsInvariance, PTL
===============================================================================
