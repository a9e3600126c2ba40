-------------------------------- MODULE MCCards --------------------------------
EXTENDS Cards, TLC

(* Texts at the bounds of a field of at most n characters of these kinds,    *)
(* plain or with surrogate pairs.                                          *)
Around(n, kinds) ==
  {Null, Text(0, 1, "blank")} \cup
  {Text(l, p, k) : l \in {1, n, n + 1}, p \in {0, 1}, k \in kinds} \cup
  {[Text(l, 0, k) EXCEPT !.pairs = n \div 2] : l \in {n, n + 1}, k \in kinds \cap Wide}

(* What may be typed into a company's field.                               *)
Typed == [legalName      |-> Around(100, {"other"}),
          vatNumber      |-> Around(11, {"digits", "letters"}),
          taxCode        |-> Around(11, {"digits", "other"}),
          uniqueCode     |-> Around(7, {"digits", "letters", "other"}),
          certifiedEmail |-> Around(250, {"email", "other"}),
          street         |-> Around(100, {"other"}),
          postalCode     |-> Around(5, {"digits", "letters"}),
          province       |-> Around(2, {"letters", "LETTERS", "digits"}),
          position       |-> {Position(2, lng, lat) : lng \in {-181, -180, 180, 181},
                                                      lat \in {-91, -90, 90, 91, 120}}
                           \cup {Position(n, 12, 41) : n \in {1, 3}},
          publicName     |-> Around(100, {"other"}),
          slug           |-> Around(120, {"slug", "digits", "other"})]

Form == [legalName      |-> Text(9, 0, "other"),
         vatNumber      |-> Text(11, 0, "digits"),
         taxCode        |-> Null,
         uniqueCode     |-> Null,
         certifiedEmail |-> Text(12, 0, "email"),
         street         |-> Text(20, 0, "other"),
         postalCode     |-> Text(5, 0, "digits"),
         province       |-> Text(2, 0, "LETTERS"),
         position       |-> Position(2, 12, 41),
         publicName     |-> Null,
         slug           |-> Null]

(* One field away from the form, with or without what publishing requires.  *)
Inputs ==
  LET Linked == [Form EXCEPT !.slug = Text(4, 0, "slug"), !.publicName = Text(9, 0, "other")]
  IN  UNION {{[g EXCEPT ![f] = t] : t \in Typed[f], g \in {Form, Linked}} : f \in CompanyFields}

Items ==
  LET Item == [name |-> Text(9, 0, "other"), slug |-> Text(4, 0, "slug")]
  IN  {[Item EXCEPT !.name = t] : t \in Around(150, {"other"})}
      \cup {[Item EXCEPT !.slug = t] : t \in Around(160, {"slug"})}
===============================================================================
