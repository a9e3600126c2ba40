--------------------------------- MODULE Fields ---------------------------------
(***************************************************************************)
(* The field helpers of validate/fields.mts.                               *)
(*                                                                         *)
(* A text is what they look at: the length it has once trimmed, which       *)
(* JavaScript counts in UTF-16 units, how many pairs of these are one       *)
(* character to MongoDB, the spaces around it and the kind of its           *)
(* characters.  A helper answers the text to store, Undefined for a field   *)
(* to clear, or Refused for a 400.                                         *)
(***************************************************************************)
EXTENDS Integers

Text(n, pad, kind) == [length |-> n, pairs |-> 0, pad |-> pad, kind |-> kind]

Null      == Text(0, 0, "null")
Undefined == Text(0, 0, "undefined")
Refused   == Text(0, 0, "400")
Nothing   == {Null, Undefined}

(* What may be typed: a text of any length, spaces and kind, and a field     *)
(* left out or cleared.  A surrogate pair is no digit, letter or slug.      *)
Kinds == {"blank", "digits", "letters", "LETTERS", "email", "slug", "other"}
Wide == {"email", "other"}
Typable(t) == 2 * t.pairs <= t.length /\ (t.kind \in Wide \/ t.pairs = 0)
Texts == Nothing \cup {t \in [length : Nat, pairs : Nat, pad : Nat, kind : Kinds] : Typable(t)}

trim(t) == IF t \in Nothing THEN Text(0, 0, "blank") ELSE [t EXCEPT !.pad = 0]

MAX_EMAIL == 250
MIN_SLUG == 2

(* A shape is an anchored pattern: the kinds of characters it takes, and    *)
(* how many of them, 0 for any number.                                     *)
SHAPE_EMAIL       == [kinds |-> {"email"}, length |-> 0]
SHAPE_SLUG        == [kinds |-> {"digits", "slug"}, length |-> 0]
SHAPE_POSTAL_CODE == [kinds |-> {"digits"}, length |-> 5]

SHAPE_PROVINCE    == [kinds |-> {"letters", "LETTERS"}, length |-> 2]
SHAPE_VAT_NUMBER  == [kinds |-> {"digits"}, length |-> 11]
SHAPE_UNIQUE_CODE == [kinds |-> {"digits", "letters", "LETTERS"}, length |-> 7]

Test(shape, t) ==
  /\ t.pad = 0 /\ t.length > 0
  /\ t.kind \in shape.kinds
  /\ shape.length \in {0, t.length}

(* Mutant: the text is stored as it was typed.                             *)
requiredText_AsTyped(t, max) ==
  IF trim(t).length = 0 \/ trim(t).length > max THEN Refused ELSE t

requiredText(t, max) ==
  IF trim(t).length = 0 \/ trim(t).length > max THEN Refused ELSE trim(t)

optionalText(t, max) ==
  IF trim(t).length = 0 THEN Undefined ELSE requiredText(t, max)

textWithFormat(t, shape) == IF Test(shape, trim(t)) THEN trim(t) ELSE Refused

optionalTextExactLength(t, n) ==
  IF trim(t).length = 0 THEN Undefined
  ELSE IF trim(t).length # n THEN Refused ELSE trim(t)

optionalTextWithFormat(t, shape) ==
  IF trim(t).length = 0 THEN Undefined ELSE textWithFormat(t, shape)

requiredSlug(t, max) ==
  LET clean == requiredText(t, max)
  IN  IF clean = Refused \/ clean.length < MIN_SLUG THEN Refused
      ELSE textWithFormat(clean, SHAPE_SLUG)

optionalSlug(t, max) ==
  IF trim(t).length = 0 THEN Undefined ELSE requiredSlug(t, max)

requiredEmail(t) ==
  LET clean == requiredText(t, MAX_EMAIL)
  IN  IF clean = Refused THEN Refused ELSE textWithFormat(clean, SHAPE_EMAIL)

(* A position: how many coordinates, and the first two of them.             *)
Position(n, lng, lat) == [size |-> n, lng |-> lng, lat |-> lat]

Positions == [size : Nat, lng : Int, lat : Int]

(* Mutant: one bound for both axes.                                        *)
coordinate_OneBound(p) ==
  IF p.size = 2 /\ p.lng \in -180 .. 180 /\ p.lat \in -180 .. 180 THEN p ELSE Refused

(* Mutant: the latitude first.                                             *)
coordinate_LatitudeFirst(p) ==
  IF p.size = 2 /\ p.lng \in -180 .. 180 /\ p.lat \in -90 .. 90 THEN Position(2, p.lat, p.lng) ELSE Refused

coordinate(p) ==
  IF p.size = 2 /\ p.lng \in -180 .. 180 /\ p.lat \in -90 .. 90 THEN p ELSE Refused
===============================================================================
