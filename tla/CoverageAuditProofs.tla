-------------------------- MODULE CoverageAuditProofs --------------------------
(***************************************************************************)
(* Proofs about CoverageAudit for configs of any length, with any globs and *)
(* comments in them.                                                       *)
(*                                                                         *)
(* The script's loops are functions on the numbers of turns taken; what     *)
(* they compute is proved by induction, over sets of numbers.              *)
(***************************************************************************)
EXTENDS CoverageAudit, TLAPS, FiniteSetTheorems, WellFoundedInduction

LEMMA LeastElement ==
  ASSUME NEW T, T \subseteq Nat, T # {}
  PROVE  \E x \in T : \A y \in T : x <= y
<1> DEFINE R == {ss \in Nat \X Nat : ss[1] < ss[2]}
<1>1. IsWellFoundedOn(R, Nat)
  <2>1. R = OpToRel(<, Nat)
    BY DEF OpToRel
  <2>2. QED
    BY <2>1, NatLessThanWellFounded
<1>2. PICK x \in T : \A y \in T : ~ (<<y, x>> \in R)
  <2> HIDE DEF R
  <2>1. QED
    BY <1>1, WFMin
<1>3. ASSUME NEW y \in T
      PROVE  x <= y
  <2>1. ~ (<<y, x>> \in R)
    BY <1>2
  <2>2. y \in Nat /\ x \in Nat
    OBVIOUS
  <2>3. ~ (y < x)
    BY <2>1
  <2>4. QED
    BY <2>3
<1>4. QED
  BY <1>3

(* Induction, over a set of numbers.                                       *)
LEMMA Induction ==
  ASSUME NEW T, 0 \in T, \A n \in T : n \in Nat => n + 1 \in T
  PROVE  Nat \subseteq T
<1>1. SUFFICES ASSUME Nat \ T # {}
               PROVE  FALSE
  OBVIOUS
<1>2. PICK x \in Nat \ T : \A y \in Nat \ T : x <= y
  BY <1>1, LeastElement
<1>3. x \in Nat /\ x \notin T /\ x # 0
  BY <1>2
<1>4. x - 1 \in Nat /\ ~ (x <= x - 1) /\ (x - 1) + 1 = x
  BY <1>3
<1>5. x - 1 \in T
  BY <1>2, <1>4
<1>6. QED
  BY <1>3, <1>4, <1>5

(* A function on the numbers, from its first value and its steps.           *)
Repeats(f, S, first, step) ==
  f \in [Nat -> S] /\ f[0] = first /\ \A n \in Nat : f[n + 1] = step[n][f[n]]

LEMMA Recursion ==
  ASSUME NEW S, NEW first \in S, NEW step \in [Nat -> [S -> S]]
  PROVE  \E f : Repeats(f, S, first, step)
<1> DEFINE Upto(n, g) == g[0] = first /\ \A m \in Nat : m < n => g[m + 1] = step[m][g[m]]
           Got == {n \in Nat : \E g \in [Nat -> S] : Upto(n, g)}
<1>1. Nat \subseteq Got
  <2>1. 0 \in Got
    <3>1. [m \in Nat |-> first] \in [Nat -> S] /\ Upto(0, [m \in Nat |-> first])
      OBVIOUS
    <3>2. QED
      BY <3>1
  <2>2. ASSUME NEW n \in Got, n \in Nat
        PROVE  n + 1 \in Got
    <3>1. PICK g \in [Nat -> S] : Upto(n, g)
      OBVIOUS
    <3> DEFINE h == [g EXCEPT ![n + 1] = step[n][g[n]]]
    <3>2. h \in [Nat -> S] /\ h[n + 1] = step[n][g[n]] /\ \A m \in Nat : m # n + 1 => h[m] = g[m]
      OBVIOUS
    <3> HIDE DEF h
    <3>3. Upto(n + 1, h)
      BY <3>1, <3>2
    <3>4. QED
      BY <3>2, <3>3
  <2> HIDE DEF Got
  <2>3. QED
    BY <2>1, <2>2, Induction
<1>2. ASSUME NEW n \in Nat, NEW g \in [Nat -> S], NEW h \in [Nat -> S], Upto(n, g), Upto(n + 1, h)
      PROVE  g[n] = h[n]
  <2> DEFINE T == {m \in Nat : m <= n => g[m] = h[m]}
  <2>1. 0 \in T
    BY <1>2
  <2>2. ASSUME NEW m \in T, m \in Nat
        PROVE  m + 1 \in T
    BY <1>2
  <2>3. Nat \subseteq T
    <3> HIDE DEF T
    <3>1. QED
      BY <2>1, <2>2, Induction
  <2>4. QED
    BY <2>3
<1> DEFINE F(n) == CHOOSE g : g \in [Nat -> S] /\ Upto(n, g)
           f == [n \in Nat |-> F(n)[n]]
<1>3. ASSUME NEW n \in Nat
      PROVE  F(n) \in [Nat -> S] /\ Upto(n, F(n))
  <2>1. \E g : g \in [Nat -> S] /\ Upto(n, g)
    BY <1>1
  <2> HIDE DEF Upto
  <2>2. QED
    BY <2>1
<1> HIDE DEF F
<1>4. f \in [Nat -> S] /\ f[0] = first
  BY <1>3
<1>5. ASSUME NEW n \in Nat
      PROVE  f[n + 1] = step[n][f[n]]
  <2>1. Upto(n, F(n)) /\ Upto(n + 1, F(n + 1))
    BY <1>3
  <2>2. F(n)[n] = F(n + 1)[n]
    <3> HIDE DEF Upto
    <3>1. QED
      BY <2>1, <1>2, <1>3
  <2>3. F(n + 1)[n + 1] = step[n][F(n + 1)[n]]
    BY <2>1
  <2>4. QED
    BY <2>2, <2>3
<1> HIDE DEF f
<1>6. QED
  BY <1>4, <1>5 DEF Repeats


LEMMA MinIsLeast ==
  ASSUME NEW T, T \subseteq Nat, T # {}
  PROVE  Min(T) \in T /\ \A y \in T : Min(T) <= y
<1>1. \E x \in T : \A y \in T : x <= y
  BY LeastElement
<1>2. QED
  BY <1>1 DEF Min

LEMMA LeastIsMin ==
  ASSUME NEW T, T \subseteq Nat, NEW x \in T, \A y \in T : x <= y
  PROVE  Min(T) = x
<1>1. Min(T) \in T /\ \A y \in T : Min(T) <= y
  BY MinIsLeast
<1>2. Min(T) <= x /\ x <= Min(T) /\ Min(T) \in Nat /\ x \in Nat
  BY <1>1
<1>3. QED
  BY <1>2

-------------------------------------------------------------------------------
(* FlattenSeq puts the parts one after the other.                           *)
LEMMA FlattenIsConcat ==
  ASSUME NEW S, NEW parts \in Seq(Seq(S))
  PROVE  \E g \in [Nat -> Seq(S)] :
           /\ g[0] = <<>> /\ FlattenSeq(parts) = g[Len(parts)]
           /\ \A k \in 1..Len(parts) : g[k] = g[k - 1] \o parts[k]
<1> DEFINE n == Len(parts)
           step == [m \in Nat |-> [t \in Seq(S) |-> IF m < n THEN t \o parts[m + 1] ELSE t]]
           flatten == CHOOSE g : g = [i \in 1..n |-> IF i = 1 THEN parts[i] ELSE g[i - 1] \o parts[i]]
<1>1. n \in Nat /\ \A k \in 1..n : parts[k] \in Seq(S)
  OBVIOUS
<1> HIDE DEF n
<1>2. step \in [Nat -> [Seq(S) -> Seq(S)]] /\ <<>> \in Seq(S)
  <2>1. ASSUME NEW m \in Nat, NEW t \in Seq(S), m < n
        PROVE  t \o parts[m + 1] \in Seq(S)
    <3>1. m + 1 \in 1..n
      BY <1>1, <2>1
    <3>2. QED
      BY <1>1, <3>1
  <2>2. QED
    BY <2>1
<1>3. PICK f : f \in [Nat -> Seq(S)] /\ f[0] = <<>> /\ \A m \in Nat : f[m + 1] = step[m][f[m]]
  <2> HIDE DEF step
  <2>1. \E f : Repeats(f, Seq(S), <<>>, step)
    BY <1>2, Recursion
  <2>2. QED
    BY <2>1 DEF Repeats
<1>4. ASSUME NEW k \in 1..n
      PROVE  f[k] = f[k - 1] \o parts[k]
  <2>1. k - 1 \in Nat /\ k - 1 < n /\ (k - 1) + 1 = k
    BY <1>1
  <2>2. f[k] = step[k - 1][f[k - 1]] /\ f[k - 1] \in Seq(S)
    BY <1>3, <2>1
  <2>3. step[k - 1][f[k - 1]] = f[k - 1] \o parts[k]
    BY <2>1, <2>2
  <2>4. QED
    BY <2>2, <2>3
<1> HIDE DEF step
<1>5. \A t \in Seq(S) : <<>> \o t = t
  OBVIOUS
<1>6. \A k \in 1..n : f[k] = IF k = 1 THEN parts[k] ELSE f[k - 1] \o parts[k]
  <2>1. \A k \in 1..n : k = 1 => f[k - 1] = <<>>
    BY <1>3
  <2>2. QED
    BY <1>1, <1>4, <1>5, <2>1
<1> DEFINE h == [i \in 1..n |-> f[i]]
<1>7. h = [i \in 1..n |-> IF i = 1 THEN parts[i] ELSE h[i - 1] \o parts[i]]
  BY <1>1, <1>6
<1>8. flatten = [i \in 1..n |-> IF i = 1 THEN parts[i] ELSE flatten[i - 1] \o parts[i]]
  <2> HIDE DEF h
  <2>1. QED
    BY <1>7
<1>9. FlattenSeq(parts) = IF n = 0 THEN parts ELSE flatten[n]
  BY Zenon DEF FlattenSeq, n
<1> HIDE DEF flatten
<1> DEFINE T == {k \in Nat : k \in 1..n => flatten[k] = f[k]}
<1>10. Nat \subseteq T
  <2>1. 0 \in T
    OBVIOUS
  <2>2. ASSUME NEW k \in T, k \in Nat, k + 1 \in 1..n
        PROVE  flatten[k + 1] = f[k + 1]
    <3>1. flatten[k + 1] = IF k + 1 = 1 THEN parts[k + 1] ELSE flatten[(k + 1) - 1] \o parts[k + 1]
      BY <2>2, <1>8
    <3>2. f[k + 1] = IF k + 1 = 1 THEN parts[k + 1] ELSE f[(k + 1) - 1] \o parts[k + 1]
      BY <2>2, <1>6
    <3>3. (k + 1) - 1 = k /\ (k + 1 # 1 => k \in 1..n)
      BY <2>2, <1>1
    <3>4. k + 1 # 1 => flatten[k] = f[k]
      BY <3>3
    <3>5. QED
      BY <3>1, <3>2, <3>3, <3>4
  <2>3. \A k \in T : k \in Nat => k + 1 \in T
    BY <2>2
  <2> HIDE DEF T
  <2>4. QED
    BY <2>1, <2>3, Induction
<1>11. FlattenSeq(parts) = f[n]
  <2>1. CASE n = 0
    BY <1>3, <1>9, <2>1 DEF n
  <2>2. CASE n # 0
    <3>1. n \in 1..n /\ n \in T
      BY <1>1, <1>10, <2>2
    <3>2. QED
      BY <1>9, <2>2, <3>1
  <2>3. QED
    BY <2>1, <2>2
<1>12. QED
  BY <1>3, <1>4, <1>11 DEF n

-------------------------------------------------------------------------------
Globbing(p) == p.kind \in {"single", "double"}

QuoteOf(p) == IF p.kind = "single" THEN "sq" ELSE "dq"

(* What stripComments keeps of a piece.                                     *)
Kept(p) == IF Globbing(p) THEN Render(p) ELSE IF p.kind = "line" THEN <<"nl">> ELSE <<>>

Frames(r, a, t, b) ==
  /\ Len(r) = Len(a) + Len(t) + Len(b)
  /\ \A i \in 1..Len(a) : r[i] = a[i]
  /\ \A i \in 1..Len(t) : r[Len(a) + i] = t[i]
  /\ \A i \in 1..Len(b) : r[Len(a) + Len(t) + i] = b[i]

LEMMA Framed ==
  ASSUME NEW S, NEW a \in Seq(S), NEW t \in Seq(S), NEW b \in Seq(S)
  PROVE  a \o t \o b \in Seq(S) /\ Frames(a \o t \o b, a, t, b)
<1> USE DEF Frames
<1>1. a \o t \in Seq(S) /\ Len(a \o t) = Len(a) + Len(t)
  OBVIOUS
<1>2. \A i \in 1..Len(a) : (a \o t)[i] = a[i]
  OBVIOUS
<1>3. \A i \in 1..Len(t) : (a \o t)[Len(a) + i] = t[i]
  OBVIOUS
<1>4. ASSUME NEW u \in Seq(S)
      PROVE  /\ u \o b \in Seq(S) /\ Len(u \o b) = Len(u) + Len(b)
             /\ \A i \in 1..Len(u) : (u \o b)[i] = u[i]
             /\ \A i \in 1..Len(b) : (u \o b)[Len(u) + i] = b[i]
  OBVIOUS
<1>5. QED
  BY <1>1, <1>2, <1>3, <1>4

LEMMA GlobText ==
  ASSUME NEW p \in Pieces, Globbing(p)
  PROVE  /\ Render(p) \in Seq(Chars) /\ Len(Render(p)) = Len(p.text) + 3
         /\ Render(p)[1] = QuoteOf(p) /\ Render(p)[Len(p.text) + 2] = QuoteOf(p)
         /\ Render(p)[Len(p.text) + 3] = ","
         /\ \A i \in 1..Len(p.text) : Render(p)[i + 1] = p.text[i] /\ p.text[i] \in GlobChars
<1> DEFINE a == <<QuoteOf(p)>>
           b == <<QuoteOf(p), ",">>
<1>1. Render(p) = a \o p.text \o b
  BY DEF Render, Globbing, QuoteOf
<1>2. a \in Seq(Chars) /\ b \in Seq(Chars) /\ p.text \in Seq(Chars)
  <2>1. QuoteOf(p) \in Chars /\ "," \in Chars
    BY DEF QuoteOf, Chars, Quotes, GlobChars
  <2>2. p.text \in Seq(Chars)
    BY DEF Pieces
  <2>3. \A x \in Chars, y \in Chars : <<x>> \in Seq(Chars) /\ <<x, y>> \in Seq(Chars)
    OBVIOUS
  <2>4. QED
    BY <2>1, <2>2, <2>3
<1>3. Len(a) = 1 /\ Len(b) = 2 /\ a[1] = QuoteOf(p) /\ b[1] = QuoteOf(p) /\ b[2] = ","
  OBVIOUS
<1>4. p.text \in Seq(GlobChars)
  BY DEF Pieces, Globbing
<1> HIDE DEF a, b
<1>5. Len(p.text) \in Nat /\ \A i \in 1..Len(p.text) : p.text[i] \in GlobChars
  BY <1>4
<1>6. Render(p) \in Seq(Chars) /\ Frames(Render(p), a, p.text, b)
  BY <1>1, <1>2, Framed
<1>7. /\ Len(Render(p)) = 1 + Len(p.text) + 2
      /\ \A i \in 1..1 : Render(p)[i] = a[i]
      /\ \A i \in 1..Len(p.text) : Render(p)[1 + i] = p.text[i]
      /\ \A i \in 1..2 : Render(p)[1 + Len(p.text) + i] = b[i]
  BY <1>3, <1>6 DEF Frames
<1>8. Render(p)[1] = a[1] /\ Render(p)[Len(p.text) + 2] = b[1] /\ Render(p)[Len(p.text) + 3] = b[2]
  BY <1>5, <1>7
<1>9. \A i \in 1..Len(p.text) : Render(p)[i + 1] = p.text[i]
  BY <1>5, <1>7
<1>10. Len(Render(p)) = Len(p.text) + 3
  BY <1>5, <1>7
<1>11. QED
  BY <1>3, <1>5, <1>6, <1>8, <1>9, <1>10

LEMMA CommentText ==
  ASSUME NEW p \in Pieces, ~ Globbing(p)
  PROVE  /\ Render(p) \in Seq(Chars) /\ Render(p)[1] = "/" /\ p.text \in Seq(Chars)
         /\ \A i \in 1..Len(p.text) : Render(p)[i + 2] = p.text[i]
         /\ p.kind = "line" =>
              /\ Len(Render(p)) = Len(p.text) + 3
              /\ Render(p)[2] = "/" /\ Render(p)[Len(p.text) + 3] = "nl"
         /\ p.kind # "line" =>
              /\ Len(Render(p)) = Len(p.text) + 4
              /\ Render(p)[2] = "*" /\ Render(p)[Len(p.text) + 3] = "*" /\ Render(p)[Len(p.text) + 4] = "/"
<1>1. p.text \in Seq(Chars) /\ p.kind \in {"line", "block"}
  BY DEF Pieces, Globbing
<1>2. CASE p.kind = "line"
  <2> DEFINE a == <<"/", "/">>
             b == <<"nl">>
  <2>1. Render(p) = a \o p.text \o b
    BY <1>2 DEF Render
  <2>2. /\ a \in Seq(Chars) /\ b \in Seq(Chars) /\ Len(a) = 2 /\ Len(b) = 1
        /\ a[1] = "/" /\ a[2] = "/" /\ b[1] = "nl"
    BY DEF Chars, GlobChars
  <2> HIDE DEF a, b
  <2>3. Render(p) \in Seq(Chars) /\ Frames(Render(p), a, p.text, b)
    BY <1>1, <2>1, <2>2, Framed
  <2>4. /\ Len(Render(p)) = 2 + Len(p.text) + 1
        /\ \A i \in 1..2 : Render(p)[i] = a[i]
        /\ \A i \in 1..Len(p.text) : Render(p)[2 + i] = p.text[i]
        /\ \A i \in 1..1 : Render(p)[2 + Len(p.text) + i] = b[i]
    BY <2>2, <2>3 DEF Frames
  <2>5. QED
    BY <1>1, <1>2, <2>2, <2>3, <2>4
<1>3. CASE p.kind = "block"
  <2> DEFINE a == <<"/", "*">>
             b == <<"*", "/">>
  <2>1. Render(p) = a \o p.text \o b
    BY <1>3 DEF Render
  <2>2. /\ a \in Seq(Chars) /\ b \in Seq(Chars) /\ Len(a) = 2 /\ Len(b) = 2
        /\ a[1] = "/" /\ a[2] = "*" /\ b[1] = "*" /\ b[2] = "/"
    BY DEF Chars, GlobChars
  <2> HIDE DEF a, b
  <2>3. Render(p) \in Seq(Chars) /\ Frames(Render(p), a, p.text, b)
    BY <1>1, <2>1, <2>2, Framed
  <2>4. /\ Len(Render(p)) = 2 + Len(p.text) + 2
        /\ \A i \in 1..2 : Render(p)[i] = a[i]
        /\ \A i \in 1..Len(p.text) : Render(p)[2 + i] = p.text[i]
        /\ \A i \in 1..2 : Render(p)[2 + Len(p.text) + i] = b[i]
    BY <2>2, <2>3 DEF Frames
  <2>5. QED
    BY <1>1, <1>3, <2>2, <2>3, <2>4
<1>4. QED
  BY <1>1, <1>2, <1>3

LEMMA KeptText ==
  ASSUME NEW p \in Pieces
  PROVE  /\ Render(p) \in Seq(Chars) /\ Kept(p) \in Seq(Chars)
         /\ \A i \in 1..Len(Kept(p)) : Kept(p)[i] # "]"
<1>1. CASE Globbing(p)
  <2>1. Kept(p) = Render(p)
    BY <1>1 DEF Kept
  <2>2. ASSUME NEW i \in 1..Len(Render(p))
        PROVE  Render(p)[i] # "]"
    <3> DEFINE n == Len(p.text)
    <3>1. n \in Nat /\ i \in 1..(n + 3)
      <4>1. p.text \in Seq(Chars)
        BY DEF Pieces
      <4>2. Len(Render(p)) = n + 3
        BY <1>1, GlobText
      <4>3. QED
        BY <4>1, <4>2
    <3>2. Render(p)[1] # "]" /\ Render(p)[n + 2] # "]" /\ Render(p)[n + 3] # "]"
      BY <1>1, GlobText DEF QuoteOf
    <3>3. "]" \notin GlobChars
      BY ConfigsAssumption DEF GlobChars
    <3>4. \A j \in 1..n : Render(p)[j + 1] # "]"
      BY <1>1, <3>3, GlobText
    <3> HIDE DEF n
    <3>5. CASE i - 1 \in 1..n
      BY <3>1, <3>4, <3>5
    <3>6. CASE i - 1 \notin 1..n
      BY <3>1, <3>2, <3>6
    <3>7. QED
      BY <3>5, <3>6
  <2>3. QED
    BY <1>1, <2>1, <2>2, GlobText
<1>2. CASE ~ Globbing(p)
  <2>1. Kept(p) = IF p.kind = "line" THEN <<"nl">> ELSE <<>>
    BY <1>2 DEF Kept
  <2>2. <<"nl">> \in Seq(Chars) /\ <<>> \in Seq(Chars)
    BY DEF Chars
  <2>3. \A i \in 1..Len(Kept(p)) : Kept(p)[i] # "]"
    BY <2>1
  <2>4. QED
    BY <1>2, <2>1, <2>2, <2>3, CommentText
<1>3. QED
  BY <1>1, <1>2

-------------------------------------------------------------------------------
(* A part stands in a text, after the first so many characters.             *)
Stands(text, c, part) ==
  /\ c + Len(part) <= Len(text)
  /\ \A i \in 1..Len(part) : text[c + i] = part[i]

LEMMA Joined ==
  ASSUME NEW S, NEW u \in Seq(S), NEW v \in Seq(S)
  PROVE  /\ u \o v \in Seq(S) /\ Len(u) \in Nat /\ Len(v) \in Nat
         /\ Len(u \o v) = Len(u) + Len(v)
         /\ \A i \in 1..Len(u) : (u \o v)[i] = u[i]
         /\ \A i \in 1..Len(v) : (u \o v)[Len(u) + i] = v[i]
OBVIOUS

(* Where the parts of a text end, one after the other.                      *)
Divides(text, cut, parts) ==
  /\ cut \in [Nat -> Nat] /\ cut[0] = 0 /\ cut[Len(parts)] = Len(text)
  /\ \A k \in 1..Len(parts) : /\ cut[k] = cut[k - 1] + Len(parts[k])
                              /\ Stands(text, cut[k - 1], parts[k])

(* g[k] holds the first k parts.                                            *)
Grows(S, cut, parts, g) ==
  /\ cut \in [Nat -> Nat] /\ g \in [Nat -> Seq(S)] /\ g[0] = <<>>
  /\ \A k \in Nat : cut[k] = Len(g[k])
  /\ Len(parts) \in Nat
  /\ \A k \in 1..Len(parts) : parts[k] \in Seq(S) /\ g[k] = g[k - 1] \o parts[k]

LEMMA GrowsDivides ==
  ASSUME NEW S, NEW parts, NEW g, NEW cut, Grows(S, cut, parts, g)
  PROVE  Divides(g[Len(parts)], cut, parts)
<1> DEFINE n == Len(parts)
<1>1. n \in Nat /\ cut[0] = 0
  BY DEF Grows
<1>2. \A k \in 1..n : parts[k] \in Seq(S)
  BY DEF Grows
<1>3. \A k \in 1..n : g[k] = g[k - 1] \o parts[k]
  BY DEF Grows
<1>4. \A k \in Nat : cut[k] \in Nat /\ cut[k] = Len(g[k]) /\ g[k] \in Seq(S)
  BY DEF Grows
<1> HIDE DEF n
<1>5. \A k \in 0..n : k \in Nat /\ cut[k] \in Nat /\ cut[k] = Len(g[k]) /\ g[k] \in Seq(S)
  BY <1>1, <1>4
<1>6. \A k \in 1..n : k \in 0..n /\ k - 1 \in 0..n /\ (k - 1) + 1 = k
  BY <1>1
<1>7. ASSUME NEW k \in 1..n
      PROVE  /\ cut[k] = cut[k - 1] + Len(parts[k])
             /\ \A i \in 1..cut[k - 1] : g[k][i] = g[k - 1][i]
             /\ \A i \in 1..Len(parts[k]) : g[k][cut[k - 1] + i] = parts[k][i]
  <2>1. g[k - 1] \in Seq(S) /\ parts[k] \in Seq(S) /\ g[k] = g[k - 1] \o parts[k]
    BY <1>2, <1>3, <1>5, <1>6
  <2>2. cut[k] = Len(g[k]) /\ cut[k - 1] = Len(g[k - 1])
    BY <1>5, <1>6
  <2>3. /\ Len(g[k]) = Len(g[k - 1]) + Len(parts[k])
        /\ \A i \in 1..Len(g[k - 1]) : g[k][i] = g[k - 1][i]
        /\ \A i \in 1..Len(parts[k]) : g[k][Len(g[k - 1]) + i] = parts[k][i]
    <3> DEFINE u == g[k - 1]
               v == parts[k]
    <3>1. u \in Seq(S) /\ v \in Seq(S) /\ g[k] = u \o v
      BY <2>1
    <3> HIDE DEF u, v
    <3>2. /\ Len(u \o v) = Len(u) + Len(v)
          /\ \A i \in 1..Len(u) : (u \o v)[i] = u[i]
          /\ \A i \in 1..Len(v) : (u \o v)[Len(u) + i] = v[i]
      BY <3>1, Joined
    <3>3. QED
      BY <3>1, <3>2 DEF u, v
  <2>4. QED
    BY <2>2, <2>3
(* What is there stays there.                                              *)
<1>8. ASSUME NEW k \in 0..n
      PROVE  cut[k] <= cut[n] /\ \A i \in 1..cut[k] : g[n][i] = g[k][i]
  <2> DEFINE Kin(m) == cut[k] <= cut[m] /\ \A i \in 1..cut[k] : g[m][i] = g[k][i]
             T == {m \in Nat : m \in k..n => Kin(m)}
  <2>1. 0 \in T
    BY <1>5
  <2>2. ASSUME NEW m \in T, m \in Nat, m + 1 \in k..n
        PROVE  Kin(m + 1)
    <3>1. CASE m + 1 = k
      BY <1>5, <3>1
    <3>2. CASE m + 1 # k
      <4>1. m \in k..n /\ m + 1 \in 1..n /\ (m + 1) - 1 = m
        BY <2>2, <3>2, <1>1
      <4>2. Kin(m)
        BY <4>1
      <4>3. /\ cut[m + 1] = cut[m] + Len(parts[m + 1])
            /\ \A i \in 1..cut[m] : g[m + 1][i] = g[m][i]
        BY <1>7, <4>1
      <4>4. cut[k] \in Nat /\ cut[m] \in Nat /\ Len(parts[m + 1]) \in Nat
        <5>1. parts[m + 1] \in Seq(S) /\ m \in 0..n
          BY <1>2, <1>6, <4>1
        <5>2. cut[k] \in Nat /\ cut[m] \in Nat
          BY <1>5, <5>1
        <5>3. Len(parts[m + 1]) \in Nat
          BY <5>1
        <5>4. QED
          BY <5>2, <5>3
      <4>5. cut[k] <= cut[m]
        BY <4>2
      <4>6. cut[k] <= cut[m + 1]
        BY <4>5, <4>3, <4>4
      <4>7. \A i \in 1..cut[k] : i \in 1..cut[m]
        BY <4>5, <4>4
      <4>8. QED
        BY <4>2, <4>3, <4>6, <4>7
    <3>3. QED
      BY <3>1, <3>2
  <2>3. \A m \in T : m \in Nat => m + 1 \in T
    <3> HIDE DEF Kin
    <3>1. QED
      BY <2>2
  <2>4. Nat \subseteq T
    <3> HIDE DEF T
    <3>1. QED
      BY <2>1, <2>3, Induction
  <2>5. n \in k..n /\ n \in T
    <3>1. n \in k..n /\ n \in Nat
      BY <1>1, <1>5
    <3> HIDE DEF T
    <3>2. QED
      BY <2>4, <3>1
  <2>6. QED
    BY <2>5
<1>9. ASSUME NEW k \in 1..n
      PROVE  Stands(g[n], cut[k - 1], parts[k])
  <2>1. k \in 0..n
    BY <1>2
  <2>2. cut[k] <= cut[n] /\ \A i \in 1..cut[k] : g[n][i] = g[k][i]
    BY <1>8, <2>1
  <2>3. cut[n] = Len(g[n]) /\ cut[k - 1] \in Nat /\ Len(parts[k]) \in Nat
    <3>1. parts[k] \in Seq(S) /\ n \in 0..n
      BY <1>2, <1>1
    <3>2. Len(parts[k]) \in Nat
      BY <3>1
    <3>3. QED
      BY <1>5, <1>6, <3>1, <3>2
  <2>4. ASSUME NEW i \in 1..Len(parts[k])
        PROVE  g[n][cut[k - 1] + i] = parts[k][i]
    <3>1. cut[k - 1] + i \in 1..cut[k]
      <4>1. cut[k] = cut[k - 1] + Len(parts[k])
        BY <1>7
      <4>2. QED
        BY <2>3, <4>1
    <3>2. QED
      BY <1>7, <2>2, <3>1
  <2>5. cut[k - 1] + Len(parts[k]) <= Len(g[n])
    BY <1>7, <2>2, <2>3
  <2>6. QED
    BY <2>4, <2>5 DEF Stands
<1>10. cut[n] = Len(g[n]) /\ \A k \in 1..n : cut[k] = cut[k - 1] + Len(parts[k])
  BY <1>1, <1>4, <1>7
<1>11. cut \in [Nat -> Nat]
  BY DEF Grows
<1>12. QED
  BY <1>1, <1>9, <1>10, <1>11 DEF Divides, n

LEMMA FlattenDivides ==
  ASSUME NEW S, NEW parts \in Seq(Seq(S))
  PROVE  \E cut, g : /\ Grows(S, cut, parts, g) /\ FlattenSeq(parts) = g[Len(parts)]
                     /\ FlattenSeq(parts) \in Seq(S) /\ Divides(FlattenSeq(parts), cut, parts)
<1>1. PICK g \in [Nat -> Seq(S)] :
        /\ g[0] = <<>> /\ FlattenSeq(parts) = g[Len(parts)]
        /\ \A k \in 1..Len(parts) : g[k] = g[k - 1] \o parts[k]
  BY FlattenIsConcat
<1> DEFINE cut == [k \in Nat |-> Len(g[k])]
<1>2. Len(parts) \in Nat /\ \A k \in 1..Len(parts) : parts[k] \in Seq(S)
  OBVIOUS
<1>3. cut \in [Nat -> Nat] /\ \A k \in Nat : cut[k] = Len(g[k])
  OBVIOUS
<1> HIDE DEF cut
<1>4. Grows(S, cut, parts, g)
  BY <1>1, <1>2, <1>3 DEF Grows
<1>5. Divides(FlattenSeq(parts), cut, parts)
  BY <1>1, <1>4, GrowsDivides
<1>6. FlattenSeq(parts) \in Seq(S)
  BY <1>1
<1>7. QED
  BY <1>1, <1>4, <1>5, <1>6

-------------------------------------------------------------------------------
(* The turns of stripComments over a text.                                  *)
States == [at : Nat \ {0}, quote : Quotes \cup {Null}, out : Seq(Chars)]

Before(at, quote, out) == [at |-> at, quote |-> quote, out |-> out]

Turns(text, scan) ==
  /\ scan \in [Nat -> States] /\ scan[0] = Before(1, Null, <<>>)
  /\ \A n \in Nat : scan[n + 1] = ScanStep(text, TRUE, scan[n])

LEMMA PastTyped ==
  ASSUME NEW text \in Seq(Chars), NEW places, places \subseteq Nat
  PROVE  Past(text, places) \in Nat \ {0}
<1>1. CASE places = {}
  BY <1>1 DEF Past
<1>2. CASE places # {}
  <2>1. Min(places) \in Nat
    BY <1>2, MinIsLeast
  <2>2. QED
    BY <1>2, <2>1 DEF Past
<1>3. QED
  BY <1>1, <1>2

LEMMA StepTyped ==
  ASSUME NEW text \in Seq(Chars), NEW s \in States
  PROVE  ScanStep(text, TRUE, s) \in States
<1> DEFINE c == text[s.at]
           Lines == {k \in s.at..Len(text) : text[k] = "nl"}
           Ends == {k \in (s.at + 3)..Len(text) : text[k - 1] = "*" /\ text[k] = "/"}
           Keep(quote) == [at |-> s.at + 1, quote |-> quote, out |-> Append(s.out, c)]
<1>1. s.at \in Nat /\ s.at # 0 /\ s.quote \in Quotes \cup {Null} /\ s.out \in Seq(Chars)
  BY DEF States
<1>2. Len(text) \in Nat /\ \A i \in 1..Len(text) : text[i] \in Chars
  OBVIOUS
<1>3. Past(text, Lines) \in Nat \ {0} /\ Past(text, Ends) \in Nat \ {0}
  <2>1. Lines \subseteq Nat /\ Ends \subseteq Nat
    BY <1>1, <1>2
  <2>2. QED
    BY <2>1, PastTyped
<1>4. \A u \in Seq(Chars), x \in Chars : Append(u, x) \in Seq(Chars)
  OBVIOUS
<1>5. Append(s.out, "nl") \in Seq(Chars)
  <2>1. "nl" \in Chars
    BY DEF Chars
  <2>2. QED
    BY <1>1, <1>4, <2>1
<1>6. ASSUME s.at <= Len(text), NEW q \in Quotes \cup {Null}
      PROVE  Keep(q) \in States
  <2>1. c \in Chars /\ s.at + 1 \in Nat \ {0}
    <3>1. s.at \in 1..Len(text) /\ s.at + 1 \in Nat \ {0}
      BY <1>1, <1>2, <1>6
    <3>2. QED
      BY <1>2, <3>1
  <2>2. Append(s.out, c) \in Seq(Chars)
    BY <1>1, <1>4, <2>1
  <2>3. QED
    BY <2>1, <2>2 DEF States
<1>7. CASE s.at > Len(text)
  BY <1>7 DEF ScanStep
<1>8. CASE s.at <= Len(text)
  <2>1. s.at \in Nat /\ ~ (s.at > Len(text))
    BY <1>1, <1>8, <1>2
  <2>2. CASE s.quote # Null
    <3>1. ScanStep(text, TRUE, s) = Keep(IF c = s.quote THEN Null ELSE s.quote)
      BY <2>1, <2>2 DEF ScanStep
    <3>2. (IF c = s.quote THEN Null ELSE s.quote) \in Quotes \cup {Null}
      BY <1>1
    <3>3. QED
      BY <1>6, <1>8, <3>1, <3>2
  <2>3. CASE s.quote = Null /\ c \in Quotes
    <3>1. ScanStep(text, TRUE, s) = Keep(c)
      BY <2>1, <2>3 DEF ScanStep
    <3>2. QED
      BY <1>6, <1>8, <2>3, <3>1
  <2>4. CASE s.quote = Null /\ c \notin Quotes
    <3> DEFINE Line == c = "/" /\ s.at < Len(text) /\ text[s.at + 1] = "/"
               Block == c = "/" /\ s.at < Len(text) /\ text[s.at + 1] = "*"
    <3>1. ScanStep(text, TRUE, s) =
            IF Line THEN [s EXCEPT !.at = Past(text, Lines), !.out = Append(@, "nl")]
            ELSE IF Block THEN [s EXCEPT !.at = Past(text, Ends)]
            ELSE Keep(Null)
      BY <2>1, <2>4 DEF ScanStep
    <3> HIDE DEF Lines, Ends, c
    <3>2. [s EXCEPT !.at = Past(text, Lines), !.out = Append(@, "nl")] \in States
      BY <1>3, <1>5 DEF States
    <3>3. [s EXCEPT !.at = Past(text, Ends)] \in States
      BY <1>3 DEF States
    <3> HIDE DEF Line, Block, Keep
    <3>4. Keep(Null) \in States
      BY <1>6, <1>8
    <3>5. QED
      BY <3>1, <3>2, <3>3, <3>4
  <2>5. QED
    BY <2>2, <2>3, <2>4
<1>9. s.at > Len(text) \/ s.at <= Len(text)
  BY <1>1, <1>2
<1>10. QED
  BY Zenon, <1>7, <1>8, <1>9

LEMMA ScanTurns ==
  ASSUME NEW text \in Seq(Chars)
  PROVE  \E scan : Turns(text, scan) /\ stripComments(text) = scan[Len(text)].out
<1> DEFINE step == [n \in Nat |-> [s \in States |-> ScanStep(text, TRUE, s)]]
           scan == CHOOSE scan : scan = [n \in Nat |->
                     IF n = 0 THEN [at |-> 1, quote |-> Null, out |-> <<>>]
                     ELSE ScanStep(text, TRUE, scan[n - 1])]
<1>1. step \in [Nat -> [States -> States]] /\ Before(1, Null, <<>>) \in States
  <2>1. \A s \in States : ScanStep(text, TRUE, s) \in States
    BY StepTyped
  <2>2. Before(1, Null, <<>>) \in States
    BY DEF Before, States
  <2>3. QED
    BY <2>1, <2>2
<1>2. \A n \in Nat, s \in States : step[n][s] = ScanStep(text, TRUE, s)
  OBVIOUS
<1> HIDE DEF step
<1>3. PICK f : Repeats(f, States, Before(1, Null, <<>>), step)
  BY <1>1, Recursion
<1>4. Turns(text, f)
  BY <1>2, <1>3 DEF Repeats, Turns
<1>5. f = [n \in Nat |-> IF n = 0 THEN [at |-> 1, quote |-> Null, out |-> <<>>]
                         ELSE ScanStep(text, TRUE, f[n - 1])]
  <2>1. ASSUME NEW n \in Nat, n # 0
        PROVE  f[n] = ScanStep(text, TRUE, f[n - 1])
    <3>1. n - 1 \in Nat /\ (n - 1) + 1 = n
      BY <2>1
    <3>2. QED
      BY <1>4, <3>1 DEF Turns
  <2>2. f[0] = [at |-> 1, quote |-> Null, out |-> <<>>] /\ f = [n \in Nat |-> f[n]]
    BY <1>4 DEF Turns, Before
  <2>3. QED
    BY <2>1, <2>2
<1>6. scan = [n \in Nat |-> IF n = 0 THEN [at |-> 1, quote |-> Null, out |-> <<>>]
                            ELSE ScanStep(text, TRUE, scan[n - 1])]
  BY <1>5
<1>7. stripComments(text) = scan[Len(text)].out
  BY Zenon DEF stripComments, Scan
<1> HIDE DEF scan
<1>8. scan[0] = Before(1, Null, <<>>) /\ \A n \in Nat : scan[n + 1] = ScanStep(text, TRUE, scan[n])
  <2>1. scan[0] = Before(1, Null, <<>>)
    BY <1>6 DEF Before
  <2>2. ASSUME NEW n \in Nat
        PROVE  scan[n + 1] = ScanStep(text, TRUE, scan[n])
    <3>1. n + 1 \in Nat /\ n + 1 # 0 /\ (n + 1) - 1 = n
      OBVIOUS
    <3>2. scan[n + 1] = IF n + 1 = 0 THEN [at |-> 1, quote |-> Null, out |-> <<>>]
                        ELSE ScanStep(text, TRUE, scan[(n + 1) - 1])
      BY <1>6, <3>1
    <3>3. QED
      BY <3>1, <3>2
  <2>3. QED
    BY <2>1, <2>2
<1>9. Len(text) \in Nat /\ Nat \subseteq {n \in Nat : scan[n] = f[n]}
  <2> DEFINE T == {n \in Nat : scan[n] = f[n]}
  <2>1. 0 \in T
    BY <1>4, <1>8 DEF Turns
  <2>2. ASSUME NEW n \in T, n \in Nat
        PROVE  n + 1 \in T
    <3>1. scan[n + 1] = ScanStep(text, TRUE, scan[n]) /\ f[n + 1] = ScanStep(text, TRUE, f[n])
      BY <1>4, <1>8 DEF Turns
    <3>2. scan[n] = f[n]
      OBVIOUS
    <3>3. scan[n + 1] = f[n + 1]
      BY Zenon, <3>1, <3>2
    <3>4. QED
      BY <3>3
  <2> HIDE DEF T
  <2>3. Nat \subseteq T
    BY <2>1, <2>2, Induction
  <2>4. QED
    BY <2>3 DEF T
<1>10. QED
  BY <1>4, <1>7, <1>9

(* A state that is reached in fewer turns than it has seen characters: each *)
(* turn passes one at least.                                               *)
Reached(scan, s) == \E m \in Nat : m < s.at /\ scan[m] = s

LEMMA Onward ==
  ASSUME NEW text \in Seq(Chars), NEW scan, Turns(text, scan), NEW s \in States, Reached(scan, s),
         ScanStep(text, TRUE, s).at > s.at
  PROVE  Reached(scan, ScanStep(text, TRUE, s))
<1> DEFINE t == ScanStep(text, TRUE, s)
<1>1. t \in States /\ t.at > s.at
  BY StepTyped
<1>2. PICK m \in Nat : m < s.at /\ scan[m] = s
  BY DEF Reached
<1>3. scan[m + 1] = t
  BY <1>2 DEF Turns
<1> HIDE DEF t
<1>4. t.at \in Nat /\ s.at \in Nat
  BY <1>1 DEF States
<1>5. m + 1 \in Nat /\ m + 1 < t.at
  BY <1>1, <1>2, <1>4
<1>6. Reached(scan, t)
  BY <1>3, <1>5 DEF Reached
<1>7. QED
  BY <1>6 DEF t

(* Where a turn changes nothing, no later one does.                         *)
Sticks(f, s) == \A n \in Nat : f[n] = s => f[n + 1] = s

LEMMA Rests ==
  ASSUME NEW f, NEW s, NEW m \in Nat, f[m] = s, Sticks(f, s), NEW n \in Nat, n >= m
  PROVE  f[n] = s
<1> DEFINE T == {k \in Nat : k >= m => f[k] = s}
<1>1. 0 \in T
  OBVIOUS
<1>2. ASSUME NEW k \in T, k \in Nat
      PROVE  k + 1 \in T
  <2>1. k + 1 >= m => k >= m \/ k + 1 = m
    OBVIOUS
  <2>2. k >= m => f[k + 1] = s
    BY DEF Sticks
  <2>3. QED
    BY <2>1, <2>2
<1> HIDE DEF T
<1>3. Nat \subseteq T
  BY <1>1, <1>2, Induction
<1>4. QED
  BY <1>3 DEF T

LEMMA StaysAtTheEnd ==
  ASSUME NEW text \in Seq(Chars), NEW scan, Turns(text, scan), NEW s \in States, Reached(scan, s),
         s.at = Len(text) + 1
  PROVE  scan[Len(text)] = s
<1>1. PICK m \in Nat : m < s.at /\ scan[m] = s
  BY DEF Reached
<1>2. Len(text) \in Nat /\ s.at > Len(text) /\ Len(text) >= m
  BY <1>1
<1>3. ScanStep(text, TRUE, s) = s
  BY <1>2 DEF ScanStep
<1>4. ASSUME NEW n \in Nat, scan[n] = s
      PROVE  scan[n + 1] = s
  <2>1. scan[n + 1] = ScanStep(text, TRUE, scan[n])
    BY DEF Turns
  <2>2. QED
    BY Zenon, <1>3, <1>4, <2>1
<1>5. Sticks(scan, s)
  BY <1>4 DEF Sticks
<1>6. QED
  BY <1>1, <1>2, <1>5, Rests

LEMMA BeforeTyped ==
  ASSUME NEW at \in Nat \ {0}, NEW quote \in Quotes \cup {Null}, NEW out \in Seq(Chars)
  PROVE  /\ Before(at, quote, out) \in States
         /\ Before(at, quote, out).at = at /\ Before(at, quote, out).quote = quote
         /\ Before(at, quote, out).out = out
BY DEF Before, States

(* A character that is kept, and the quote it is inside of from there on: in *)
(* a string, at a quote, or at anything that starts no comment.            *)
Keeps(quote, c, after) ==
  \/ quote # Null /\ c # quote /\ after = quote
  \/ quote # Null /\ c = quote /\ after = Null
  \/ quote = Null /\ c \in Quotes /\ after = c
  \/ quote = Null /\ c \notin Quotes /\ c # "/" /\ after = Null

LEMMA KeepsOne ==
  ASSUME NEW text \in Seq(Chars), NEW scan, Turns(text, scan),
         NEW at \in 1..Len(text), NEW quote \in Quotes \cup {Null}, NEW out \in Seq(Chars),
         NEW after, Keeps(quote, text[at], after), Reached(scan, Before(at, quote, out))
  PROVE  Reached(scan, Before(at + 1, after, Append(out, text[at])))
<1> DEFINE s == Before(at, quote, out)
<1>1. Len(text) \in Nat /\ at \in Nat \ {0} /\ ~ (at > Len(text))
  OBVIOUS
<1>2. s \in States /\ s.at = at /\ s.quote = quote /\ s.out = out
  BY <1>1, BeforeTyped
<1>3. Reached(scan, s)
  OBVIOUS
<1> HIDE DEF s
<1>4. ScanStep(text, TRUE, s) = Before(at + 1, after, Append(out, text[at]))
  BY <1>1, <1>2 DEF ScanStep, Before, Keeps
<1>5. Before(at + 1, after, Append(out, text[at])).at > s.at
  BY <1>1, <1>2 DEF Before
<1>6. QED
  BY <1>2, <1>3, <1>4, <1>5, Onward

LEMMA OneMore ==
  ASSUME NEW S, NEW out \in Seq(S), NEW r \in Seq(S), NEW j \in Nat, j < Len(r)
  PROVE  /\ out \o SubSeq(r, 1, j) \in Seq(S)
         /\ Append(out \o SubSeq(r, 1, j), r[j + 1]) = out \o SubSeq(r, 1, j + 1)
<1>1. SubSeq(r, 1, j) \in Seq(S) /\ r[j + 1] \in S
  OBVIOUS
<1>2. SubSeq(r, 1, j + 1) = Append(SubSeq(r, 1, j), r[j + 1])
  OBVIOUS
<1>3. ASSUME NEW u \in Seq(S), NEW x \in S
      PROVE  Append(out \o u, x) = out \o Append(u, x)
  BY SMTT(30)
<1>4. \A u \in Seq(S), v \in Seq(S) : u \o v \in Seq(S)
  OBVIOUS
<1>5. QED
  BY <1>1, <1>2, <1>3, <1>4

(* A live glob is kept as it is: its quotes open and close a string that     *)
(* none of its characters ends, and the comma starts no comment.           *)
LEMMA GlobScanned ==
  ASSUME NEW text \in Seq(Chars), NEW scan, Turns(text, scan), NEW p \in Pieces, Globbing(p),
         NEW c \in Nat, NEW out \in Seq(Chars), Stands(text, c, Render(p)),
         Reached(scan, Before(c + 1, Null, out))
  PROVE  Reached(scan, Before(c + Len(Render(p)) + 1, Null, out \o Render(p)))
<1> DEFINE r == Render(p)
           n == Len(p.text)
           q == QuoteOf(p)
           Inside(j) == IF j \in 1..(n + 1) THEN q ELSE Null
           Kept1(j) == Reached(scan, Before(c + j + 1, Inside(j), out \o SubSeq(r, 1, j)))
           T == {j \in Nat : j <= n + 3 => Kept1(j)}
<1>1. /\ r \in Seq(Chars) /\ Len(r) = n + 3 /\ r[1] = q /\ r[n + 2] = q /\ r[n + 3] = ","
      /\ \A i \in 1..n : r[i + 1] = p.text[i] /\ p.text[i] \in GlobChars
  BY GlobText
<1>2. n \in Nat
  BY DEF Pieces
<1>3. q \in Quotes /\ q # Null
  BY DEF QuoteOf, Quotes, Null
<1>4. GlobChars \cap Quotes = {}
  BY ConfigsAssumption DEF GlobChars, Quotes
<1>5. Reached(scan, Before(c + 1, Null, out)) /\ Stands(text, c, r) /\ Len(text) \in Nat
  OBVIOUS
<1> HIDE DEF r, n, q
<1>6. r \in Seq(Chars) /\ Len(r) = n + 3
  BY <1>1
<1>7. c + n + 3 <= Len(text) /\ \A i \in 1..(n + 3) : text[c + i] = r[i]
  <2>1. c + Len(r) <= Len(text) /\ \A i \in 1..Len(r) : text[c + i] = r[i]
    BY <1>5 DEF Stands
  <2>2. QED
    BY <1>2, <1>6, <2>1
<1>8. ASSUME NEW j \in Nat, j < n + 3
      PROVE  Keeps(Inside(j), r[j + 1], Inside(j + 1))
  <2>1. CASE j = 0
    <3>1. j \notin 1..(n + 1) /\ j + 1 \in 1..(n + 1) /\ j + 1 = 1
      BY <1>2, <2>1
    <3>2. Inside(j) = Null /\ Inside(j + 1) = q /\ r[j + 1] = q
      BY <1>1, <3>1
    <3> HIDE DEF Inside
    <3>3. QED
      BY <1>3, <3>2 DEF Keeps
  <2>2. CASE j \in 1..n
    <3>1. r[j + 1] = p.text[j] /\ p.text[j] \in GlobChars
      BY <1>1, <2>2
    <3>2. r[j + 1] # q
      BY <1>3, <1>4, <3>1
    <3>3. Inside(j) = q /\ Inside(j + 1) = q
      BY <1>2, <2>2
    <3> HIDE DEF Inside
    <3>4. QED
      BY <1>3, <3>2, <3>3 DEF Keeps
  <2>3. CASE j = n + 1
    <3>1. j \in 1..(n + 1) /\ j + 1 \notin 1..(n + 1) /\ j + 1 = n + 2
      BY <1>2, <2>3
    <3>2. Inside(j) = q /\ Inside(j + 1) = Null /\ r[j + 1] = q
      BY <1>1, <3>1
    <3> HIDE DEF Inside
    <3>3. QED
      BY <1>3, <3>2 DEF Keeps
  <2>4. CASE j = n + 2
    <3>1. j \notin 1..(n + 1) /\ j + 1 \notin 1..(n + 1) /\ j + 1 = n + 3
      BY <1>2, <2>4
    <3>2. Inside(j) = Null /\ Inside(j + 1) = Null /\ r[j + 1] = ","
      BY <1>1, <3>1
    <3> HIDE DEF Inside
    <3>3. "," \notin Quotes
      BY DEF Quotes
    <3>4. QED
      BY <3>2, <3>3 DEF Keeps
  <2>5. QED
    BY <1>2, <1>8, <2>1, <2>2, <2>3, <2>4
<1>9. 0 \in T
  <2>1. out \o SubSeq(r, 1, 0) = out
    <3>1. SubSeq(r, 1, 0) = <<>>
      BY <1>6
    <3>2. out \o <<>> = out
      OBVIOUS
    <3>3. QED
      BY <3>1, <3>2
  <2>2. Inside(0) = Null /\ c + 0 + 1 = c + 1
    OBVIOUS
  <2>3. Kept1(0)
    <3> HIDE DEF Inside
    <3>1. QED
      BY <1>5, <2>1, <2>2
  <2> HIDE DEF Kept1
  <2>4. QED
    BY <2>3
<1>10. ASSUME NEW j \in T, j \in Nat
      PROVE  j + 1 \in T
  <2>1. SUFFICES ASSUME j + 1 <= n + 3
                 PROVE  Kept1(j + 1)
    <3> HIDE DEF Kept1
    <3>1. QED
      BY <1>10
  <2>2. j < n + 3 /\ j < Len(r) /\ Kept1(j)
    <3>1. j < n + 3 /\ j <= n + 3 /\ j < Len(r)
      BY <1>6, <1>2, <1>10, <2>1
    <3> HIDE DEF Kept1
    <3>2. QED
      BY <3>1
  <2>3. Keeps(Inside(j), r[j + 1], Inside(j + 1)) /\ Inside(j) \in Quotes \cup {Null}
    BY <1>3, <1>8, <1>10, <2>2
  <2>4. /\ out \o SubSeq(r, 1, j) \in Seq(Chars)
        /\ Append(out \o SubSeq(r, 1, j), r[j + 1]) = out \o SubSeq(r, 1, j + 1)
    BY <1>1, <1>10, <2>2, OneMore
  <2>5. c + j + 1 \in 1..Len(text) /\ text[c + j + 1] = r[j + 1] /\ (c + j + 1) + 1 = c + (j + 1) + 1
    <3>1. c + j + 1 = c + (j + 1) /\ j + 1 \in 1..(n + 3)
      BY <1>2, <1>10, <2>2
    <3>2. QED
      BY <1>2, <1>7, <1>10, <2>2, <3>1
  <2> HIDE DEF Inside
  <2>6. Reached(scan, Before((c + j + 1) + 1, Inside(j + 1), Append(out \o SubSeq(r, 1, j), text[c + j + 1])))
    BY <2>2, <2>3, <2>4, <2>5, KeepsOne
  <2>7. QED
    BY <2>4, <2>5, <2>6
<1>11. Nat \subseteq T
  <2> HIDE DEF T
  <2>1. QED
    BY <1>9, <1>10, Induction
<1>12. Kept1(n + 3)
  <2>1. n + 3 \in T /\ n + 3 \in Nat /\ n + 3 <= n + 3
    BY <1>2, <1>11
  <2> HIDE DEF Kept1
  <2>2. QED
    BY <2>1
<1>13. Inside(n + 3) = Null /\ c + (n + 3) + 1 = c + Len(r) + 1 /\ SubSeq(r, 1, n + 3) = r
  <2>1. n + 3 \notin 1..(n + 1) /\ n + 3 = Len(r)
    BY <1>6, <1>2
  <2>2. SubSeq(r, 1, Len(r)) = r
    BY <1>6
  <2>3. QED
    BY <2>1, <2>2
<1>14. QED
  <2> HIDE DEF Inside
  <2>1. QED
    BY <1>12, <1>13 DEF r

LEMMA LineScanned ==
  ASSUME NEW text \in Seq(Chars), NEW scan, Turns(text, scan), NEW p \in Pieces, p.kind = "line",
         NEW c \in Nat, NEW out \in Seq(Chars), Stands(text, c, Render(p)),
         Reached(scan, Before(c + 1, Null, out))
  PROVE  Reached(scan, Before(c + Len(Render(p)) + 1, Null, out \o <<"nl">>))
<1> DEFINE r == Render(p)
           n == Len(p.text)
           s == Before(c + 1, Null, out)
           Lines == {k \in s.at..Len(text) : text[k] = "nl"}
<1>1. /\ r \in Seq(Chars) /\ Len(r) = n + 3
      /\ r[1] = "/" /\ r[2] = "/" /\ r[n + 3] = "nl"
      /\ \A i \in 1..n : r[i + 2] = p.text[i] /\ p.text[i] # "nl"
  <2>1. ~ Globbing(p)
    BY DEF Globbing
  <2>2. \A i \in 1..n : p.text[i] # "nl"
    BY DEF Pieces
  <2>3. QED
    BY <2>1, <2>2, CommentText
<1>2. n \in Nat
  BY DEF Pieces
<1>3. s \in States /\ s.at = c + 1 /\ s.quote = Null /\ s.out = out /\ c + 1 \in Nat \ {0}
  <2>1. c + 1 \in Nat \ {0} /\ Null \in Quotes \cup {Null}
    OBVIOUS
  <2>2. s \in States
    BY <2>1, BeforeTyped
  <2>3. s.at = c + 1 /\ s.quote = Null /\ s.out = out
    BY DEF Before
  <2>4. QED
    BY <2>1, <2>2, <2>3
<1>4. Reached(scan, s) /\ Stands(text, c, r) /\ Len(text) \in Nat
  OBVIOUS
<1> HIDE DEF r, n, s
<1>5. Len(r) = n + 3
  BY <1>1
<1>6. c + n + 3 <= Len(text) /\ \A i \in 1..(n + 3) : text[c + i] = r[i]
  <2>1. c + Len(r) <= Len(text) /\ \A i \in 1..Len(r) : text[c + i] = r[i]
    BY <1>4 DEF Stands
  <2>2. QED
    BY <1>2, <1>5, <2>1
<1>7. Past(text, Lines) = c + n + 4
  <2>1. c + n + 3 \in Lines
    <3>1. c + n + 3 \in s.at..Len(text) /\ n + 3 \in 1..(n + 3) /\ c + (n + 3) = c + n + 3
      BY <1>2, <1>3, <1>4, <1>6
    <3>2. text[c + (n + 3)] = "nl"
      BY <1>1, <1>6, <3>1
    <3>3. QED
      BY <3>1, <3>2
  <2>2. ASSUME NEW k \in Lines, k < c + n + 3
        PROVE  FALSE
    <3>1. k \in Nat /\ k >= c + 1 /\ text[k] = "nl"
      BY <1>3, <1>4
    <3>2. k - c \in 1..(n + 2) /\ c + (k - c) = k
      BY <1>2, <2>2, <3>1
    <3>3. r[k - c] = "nl"
      <4>1. k - c \in 1..(n + 3)
        BY <1>2, <3>2
      <4>2. QED
        BY <1>6, <3>1, <3>2, <4>1
    <3>4. CASE k - c \in {1, 2}
      BY <1>1, <3>3, <3>4
    <3>5. CASE k - c \notin {1, 2}
      <4>1. (k - c) - 2 \in 1..n /\ ((k - c) - 2) + 2 = k - c
        BY <1>2, <3>1, <3>2, <3>5
      <4>2. QED
        BY <1>1, <3>3, <4>1
    <3>6. QED
      BY <3>4, <3>5
  <2>3. Lines \subseteq Nat
    BY <1>3, <1>4
  <2> HIDE DEF Lines
  <2>4. \A k \in Lines : c + n + 3 <= k
    BY <1>2, <2>2, <2>3
  <2>5. Min(Lines) = c + n + 3
    BY <2>1, <2>3, <2>4, LeastIsMin
  <2>6. Past(text, Lines) = Min(Lines) + 1
    BY <2>1 DEF Past
  <2>7. QED
    BY <1>2, <2>5, <2>6
<1>8. ScanStep(text, TRUE, s) = Before(c + n + 4, Null, Append(out, "nl"))
  <2>1. /\ text[c + 1] = "/" /\ text[c + 2] = "/" /\ c + 1 < Len(text) /\ ~ (c + 1 > Len(text))
        /\ (c + 1) + 1 = c + 2
    <3>1. 1 \in 1..(n + 3) /\ 2 \in 1..(n + 3) /\ c + 1 < Len(text) /\ ~ (c + 1 > Len(text))
      BY <1>2, <1>4, <1>6
    <3>2. QED
      BY <1>1, <1>6, <3>1
  <2>2. "/" \notin Quotes
    BY DEF Quotes
  <2>3. ScanStep(text, TRUE, s) = [s EXCEPT !.at = Past(text, Lines), !.out = Append(@, "nl")]
    BY <1>3, <2>1, <2>2 DEF ScanStep
  <2> HIDE DEF Lines
  <2>4. s = [at |-> c + 1, quote |-> Null, out |-> out]
    BY DEF s, Before
  <2>5. QED
    BY <1>7, <2>3, <2>4 DEF Before
<1>9. ScanStep(text, TRUE, s).at > s.at
  <2>1. Before(c + n + 4, Null, Append(out, "nl")).at > s.at
    BY <1>2, <1>3 DEF Before
  <2>2. QED
    BY Zenon, <1>8, <2>1
<1>10. Reached(scan, Before(c + n + 4, Null, Append(out, "nl")))
  <2>1. Reached(scan, ScanStep(text, TRUE, s))
    BY <1>3, <1>4, <1>9, Onward
  <2>2. QED
    BY <1>8, <2>1
<1>11. Append(out, "nl") = out \o <<"nl">> /\ c + n + 4 = c + Len(r) + 1
  <2>1. Append(out, "nl") = out \o <<"nl">>
    OBVIOUS
  <2>2. QED
    BY <1>2, <1>5, <2>1
<1>12. QED
  BY <1>10, <1>11 DEF r

LEMMA BlockScanned ==
  ASSUME NEW text \in Seq(Chars), NEW scan, Turns(text, scan), NEW p \in Pieces, p.kind = "block",
         NEW c \in Nat, NEW out \in Seq(Chars), Stands(text, c, Render(p)),
         Reached(scan, Before(c + 1, Null, out))
  PROVE  Reached(scan, Before(c + Len(Render(p)) + 1, Null, out))
<1> DEFINE r == Render(p)
           n == Len(p.text)
           s == Before(c + 1, Null, out)
           Ends == {k \in (s.at + 3)..Len(text) : text[k - 1] = "*" /\ text[k] = "/"}
<1>1. /\ r \in Seq(Chars) /\ Len(r) = n + 4
      /\ r[1] = "/" /\ r[2] = "*" /\ r[n + 3] = "*" /\ r[n + 4] = "/"
      /\ \A i \in 1..n : r[i + 2] = p.text[i]
  <2>1. ~ Globbing(p)
    BY DEF Globbing
  <2>2. QED
    BY <2>1, CommentText
<1>2. n \in Nat /\ \A k \in 2..n : p.text[k - 1] # "*" \/ p.text[k] # "/"
  BY DEF Pieces
<1>3. s \in States /\ s.at = c + 1 /\ s.quote = Null /\ s.out = out
  <2>1. c + 1 \in Nat \ {0} /\ Null \in Quotes \cup {Null}
    OBVIOUS
  <2>2. s \in States
    BY <2>1, BeforeTyped
  <2>3. s.at = c + 1 /\ s.quote = Null /\ s.out = out
    BY DEF Before
  <2>4. QED
    BY <2>2, <2>3
<1>4. Reached(scan, s) /\ Stands(text, c, r) /\ Len(text) \in Nat
  OBVIOUS
<1> HIDE DEF r, n, s
<1>5. Len(r) = n + 4
  BY <1>1
<1>6. c + n + 4 <= Len(text) /\ \A i \in 1..(n + 4) : text[c + i] = r[i]
  <2>1. c + Len(r) <= Len(text) /\ \A i \in 1..Len(r) : text[c + i] = r[i]
    BY <1>4 DEF Stands
  <2>2. QED
    BY <1>2, <1>5, <2>1
<1>7. Past(text, Ends) = c + n + 5
  <2>1. c + n + 4 \in Ends
    <3>1. /\ c + n + 4 \in (s.at + 3)..Len(text) /\ n + 3 \in 1..(n + 4) /\ n + 4 \in 1..(n + 4)
          /\ c + (n + 4) = c + n + 4 /\ c + (n + 3) = (c + n + 4) - 1
      BY <1>2, <1>3, <1>4, <1>6
    <3>2. text[c + (n + 4)] = "/" /\ text[c + (n + 3)] = "*"
      BY <1>1, <1>6, <3>1
    <3>3. QED
      BY <3>1, <3>2
  <2>2. ASSUME NEW k \in Ends, k < c + n + 4
        PROVE  FALSE
    <3> DEFINE i == k - c
    <3>1. k \in Nat /\ k >= c + 4 /\ text[k] = "/" /\ text[k - 1] = "*"
      BY <1>3, <1>4
    <3>2. /\ i \in 4..(n + 3) /\ i \in 1..(n + 4) /\ i - 1 \in 1..(n + 4)
          /\ c + i = k /\ c + (i - 1) = k - 1
      BY <1>2, <2>2, <3>1
    <3> HIDE DEF i
    <3>3. r[i] = "/" /\ r[i - 1] = "*"
      BY <1>6, <3>1, <3>2
    <3>4. CASE i = n + 3
      BY <1>1, <3>3, <3>4
    <3>5. CASE i # n + 3
      <4>1. /\ i - 2 \in 2..n /\ i - 2 \in 1..n /\ (i - 2) - 1 \in 1..n
            /\ (i - 2) + 2 = i /\ ((i - 2) - 1) + 2 = i - 1
        BY <1>2, <3>2, <3>5
      <4>2. r[(i - 2) + 2] = p.text[i - 2] /\ r[((i - 2) - 1) + 2] = p.text[(i - 2) - 1]
        BY <1>1, <4>1
      <4>3. p.text[(i - 2) - 1] # "*" \/ p.text[i - 2] # "/"
        BY <1>2, <4>1
      <4>4. QED
        BY <3>3, <4>1, <4>2, <4>3
    <3>6. QED
      BY <3>4, <3>5
  <2>3. Ends \subseteq Nat
    BY <1>3, <1>4
  <2> HIDE DEF Ends
  <2>4. \A k \in Ends : c + n + 4 <= k
    BY <1>2, <2>2, <2>3
  <2>5. Min(Ends) = c + n + 4
    BY <2>1, <2>3, <2>4, LeastIsMin
  <2>6. Past(text, Ends) = Min(Ends) + 1
    BY <2>1 DEF Past
  <2>7. QED
    BY <1>2, <2>5, <2>6
<1>8. ScanStep(text, TRUE, s) = Before(c + n + 5, Null, out)
  <2>1. /\ text[c + 1] = "/" /\ text[c + 2] = "*" /\ c + 1 < Len(text) /\ ~ (c + 1 > Len(text))
        /\ (c + 1) + 1 = c + 2
    <3>1. 1 \in 1..(n + 4) /\ 2 \in 1..(n + 4) /\ c + 1 < Len(text) /\ ~ (c + 1 > Len(text))
      BY <1>2, <1>4, <1>6
    <3>2. QED
      BY <1>1, <1>6, <3>1
  <2>2. "/" \notin Quotes /\ "*" # "/"
    BY DEF Quotes
  <2>3. ScanStep(text, TRUE, s) = [s EXCEPT !.at = Past(text, Ends)]
    BY <1>3, <2>1, <2>2 DEF ScanStep
  <2> HIDE DEF Ends
  <2>4. s = [at |-> c + 1, quote |-> Null, out |-> out]
    BY DEF s, Before
  <2>5. QED
    BY <1>7, <2>3, <2>4 DEF Before
<1>9. ScanStep(text, TRUE, s).at > s.at
  <2>1. Before(c + n + 5, Null, out).at > s.at
    BY <1>2, <1>3 DEF Before
  <2>2. QED
    BY Zenon, <1>8, <2>1
<1>10. Reached(scan, Before(c + n + 5, Null, out))
  <2>1. Reached(scan, ScanStep(text, TRUE, s))
    BY <1>3, <1>4, <1>9, Onward
  <2>2. QED
    BY <1>8, <2>1
<1>11. c + n + 5 = c + Len(r) + 1
  BY <1>2, <1>5
<1>12. QED
  BY <1>10, <1>11 DEF r

LEMMA PieceScanned ==
  ASSUME NEW text \in Seq(Chars), NEW scan, Turns(text, scan), NEW p \in Pieces,
         NEW c \in Nat, NEW out \in Seq(Chars), Stands(text, c, Render(p)),
         Reached(scan, Before(c + 1, Null, out))
  PROVE  Reached(scan, Before(c + Len(Render(p)) + 1, Null, out \o Kept(p)))
<1>1. CASE Globbing(p)
  <2>1. Kept(p) = Render(p)
    BY <1>1 DEF Kept
  <2>2. QED
    BY <1>1, <2>1, GlobScanned
<1>2. CASE p.kind = "line"
  <2>1. Kept(p) = <<"nl">>
    BY <1>2 DEF Kept, Globbing
  <2>2. QED
    BY <1>2, <2>1, LineScanned
<1>3. CASE p.kind = "block"
  <2>1. Kept(p) = <<>>
    BY <1>3 DEF Kept, Globbing
  <2>2. out \o <<>> = out
    OBVIOUS
  <2>3. QED
    BY <1>3, <2>1, <2>2, BlockScanned
<1>4. QED
  BY <1>1, <1>2, <1>3 DEF Pieces, Globbing

-------------------------------------------------------------------------------
KeptOf(pieces) == FlattenSeq([k \in DOMAIN pieces |-> Kept(pieces[k])])

(* A text is stripped of its comments and of nothing else.                  *)
LEMMA StripKeeps ==
  ASSUME NEW pieces \in Seq(Pieces)
  PROVE  /\ KeptOf(pieces) \in Seq(Chars) /\ stripComments(TextOf(pieces)) = KeptOf(pieces) \o <<"]">>
<1> DEFINE raw == [k \in DOMAIN pieces |-> Render(pieces[k])]
           kept == [k \in DOMAIN pieces |-> Kept(pieces[k])]
           all == FlattenSeq(raw)
           n == Len(pieces)
<1>1. n \in Nat /\ DOMAIN pieces = 1..n /\ \A k \in 1..n : pieces[k] \in Pieces
  OBVIOUS
<1>2. raw \in Seq(Seq(Chars)) /\ kept \in Seq(Seq(Chars)) /\ Len(raw) = n /\ Len(kept) = n
  <2>1. \A k \in DOMAIN pieces : Render(pieces[k]) \in Seq(Chars) /\ Kept(pieces[k]) \in Seq(Chars)
    BY <1>1, KeptText
  <2>2. QED
    BY <1>1, <2>1
<1>3. \A k \in 1..n : raw[k] = Render(pieces[k]) /\ kept[k] = Kept(pieces[k])
  BY <1>1
<1>4. TextOf(pieces) = all \o <<"]">> /\ KeptOf(pieces) = FlattenSeq(kept)
  BY DEF TextOf, KeptOf
<1> HIDE DEF raw, kept, n
<1>5. PICK cut, g : /\ Grows(Chars, cut, raw, g) /\ all = g[Len(raw)]
                    /\ all \in Seq(Chars) /\ Divides(all, cut, raw)
  BY <1>2, FlattenDivides
<1>6. PICK cut2, h : /\ Grows(Chars, cut2, kept, h) /\ FlattenSeq(kept) = h[Len(kept)]
                     /\ FlattenSeq(kept) \in Seq(Chars)
  BY <1>2, FlattenDivides
<1> DEFINE text == all \o <<"]">>
<1> HIDE DEF all
<1>7. /\ text \in Seq(Chars) /\ Len(all) \in Nat /\ Len(text) = Len(all) + 1
      /\ text[Len(all) + 1] = "]" /\ \A i \in 1..Len(all) : text[i] = all[i]
  <2>1. <<"]">> \in Seq(Chars) /\ Len(<<"]">>) = 1 /\ <<"]">>[1] = "]"
    BY DEF Chars
  <2>2. all \in Seq(Chars) /\ 1 \in 1..1
    BY <1>5
  <2>3. QED
    BY <2>1, <2>2, Joined
<1> HIDE DEF text
<1>8. PICK scan : Turns(text, scan) /\ stripComments(text) = scan[Len(text)].out
  BY <1>7, ScanTurns
<1>9. /\ cut[0] = 0 /\ cut[n] = Len(all)
      /\ \A k \in 1..n : /\ cut[k - 1] \in Nat /\ cut[k] = cut[k - 1] + Len(raw[k])
                         /\ Stands(all, cut[k - 1], raw[k])
  <2>1. /\ cut \in [Nat -> Nat] /\ cut[0] = 0 /\ cut[n] = Len(all)
        /\ \A k \in 1..n : cut[k] = cut[k - 1] + Len(raw[k]) /\ Stands(all, cut[k - 1], raw[k])
    BY <1>2, <1>5 DEF Divides
  <2>2. \A k \in 1..n : k - 1 \in Nat
    BY <1>1
  <2>3. \A k \in 1..n : cut[k - 1] \in Nat
    BY <2>1, <2>2
  <2>4. QED
    BY <2>1, <2>3
<1>10. /\ h[0] = <<>> /\ \A k \in Nat : h[k] \in Seq(Chars)
       /\ \A k \in 1..n : h[k] = h[k - 1] \o kept[k]
  BY <1>2, <1>6 DEF Grows
<1>11. ASSUME NEW k \in 1..n
       PROVE  /\ Stands(text, cut[k - 1], Render(pieces[k])) /\ cut[k - 1] \in Nat
              /\ cut[k] = cut[k - 1] + Len(Render(pieces[k]))
  <2>1. /\ Stands(all, cut[k - 1], raw[k]) /\ raw[k] = Render(pieces[k])
        /\ cut[k - 1] \in Nat /\ cut[k] = cut[k - 1] + Len(raw[k])
    BY <1>3, <1>9
  <2>2. Len(raw[k]) \in Nat
    <3>1. Render(pieces[k]) \in Seq(Chars)
      BY <1>1, KeptText
    <3>2. QED
      BY <2>1, <3>1
  <2>3. ASSUME NEW i \in 1..Len(raw[k])
        PROVE  text[cut[k - 1] + i] = raw[k][i]
    <3>1. cut[k - 1] + i \in 1..Len(all) /\ all[cut[k - 1] + i] = raw[k][i]
      BY <1>7, <2>1, <2>2 DEF Stands
    <3>2. QED
      BY <1>7, <3>1
  <2>4. cut[k - 1] + Len(raw[k]) <= Len(text)
    BY <1>7, <2>1, <2>2 DEF Stands
  <2>5. QED
    BY <2>1, <2>3, <2>4 DEF Stands
<1> DEFINE At(k) == Reached(scan, Before(cut[k] + 1, Null, h[k]))
           T == {k \in Nat : k <= n => At(k)}
<1>12. Nat \subseteq T
  <2>1. At(0)
    <3>1. scan[0] = Before(1, Null, <<>>) /\ 0 < 1 /\ Before(1, Null, <<>>).at = 1
      BY <1>8 DEF Turns, Before
    <3>2. Reached(scan, Before(1, Null, <<>>))
      BY <3>1 DEF Reached
    <3>3. cut[0] + 1 = 1 /\ h[0] = <<>>
      BY <1>9, <1>10
    <3>4. QED
      BY <3>2, <3>3
  <2>2. ASSUME NEW k \in Nat, At(k), k + 1 <= n
        PROVE  At(k + 1)
    <3>1. k + 1 \in 1..n /\ (k + 1) - 1 = k
      BY <1>1, <2>2
    <3>2. /\ Stands(text, cut[k], Render(pieces[k + 1])) /\ cut[k] \in Nat
          /\ cut[k + 1] = cut[k] + Len(Render(pieces[k + 1]))
      BY <1>11, <3>1
    <3>3. pieces[k + 1] \in Pieces /\ h[k] \in Seq(Chars) /\ h[k + 1] = h[k] \o Kept(pieces[k + 1])
      BY <1>1, <1>3, <1>10, <2>2, <3>1
    <3>4. Reached(scan, Before(cut[k] + Len(Render(pieces[k + 1])) + 1, Null, h[k] \o Kept(pieces[k + 1])))
      BY <1>7, <1>8, <2>2, <3>2, <3>3, PieceScanned
    <3>5. QED
      BY <3>2, <3>3, <3>4
  <2> HIDE DEF At
  <2>3. 0 \in T
    BY <2>1
  <2>4. ASSUME NEW k \in T, k \in Nat
        PROVE  k + 1 \in T
    <3>1. k + 1 <= n => k <= n
      BY <1>1, <2>4
    <3>2. QED
      BY <2>2, <2>4, <3>1
  <2> HIDE DEF T
  <2>5. QED
    BY <2>3, <2>4, Induction
<1>13. At(n)
  <2> HIDE DEF At
  <2>1. n \in T /\ n <= n
    BY <1>1, <1>12
  <2>2. QED
    BY <2>1
<1>14. Reached(scan, Before(Len(text) + 1, Null, Append(h[n], "]")))
  <2>1. /\ Reached(scan, Before(Len(all) + 1, Null, h[n])) /\ h[n] \in Seq(Chars)
        /\ Len(all) + 1 \in 1..Len(text) /\ text[Len(all) + 1] = "]" /\ (Len(all) + 1) + 1 = Len(text) + 1
    BY <1>1, <1>7, <1>9, <1>10, <1>13
  <2>2. Keeps(Null, "]", Null)
    BY DEF Keeps, Quotes
  <2>3. QED
    BY <1>7, <1>8, <2>1, <2>2, KeepsOne
<1>15. scan[Len(text)] = Before(Len(text) + 1, Null, Append(h[n], "]"))
  <2>1. Append(h[n], "]") \in Seq(Chars) /\ Len(text) + 1 \in Nat \ {0} /\ Null \in Quotes \cup {Null}
    BY <1>1, <1>7, <1>10 DEF Chars
  <2>2. Before(Len(text) + 1, Null, Append(h[n], "]")) \in States
    BY <2>1, BeforeTyped
  <2>3. Before(Len(text) + 1, Null, Append(h[n], "]")).at = Len(text) + 1
    BY DEF Before
  <2>4. QED
    BY <1>7, <1>8, <1>14, <2>2, <2>3, StaysAtTheEnd
<1>16. stripComments(text) = h[n] \o <<"]">>
  <2>1. scan[Len(text)].out = Append(h[n], "]")
    BY <1>15 DEF Before
  <2>2. h[n] \in Seq(Chars)
    BY <1>1, <1>10
  <2>3. Append(h[n], "]") = h[n] \o <<"]">>
    BY <2>2
  <2>4. QED
    BY <1>8, <2>1, <2>3
<1>17. QED
  BY <1>2, <1>4, <1>6, <1>16 DEF text

-------------------------------------------------------------------------------
(* The turns of the match over a text.                                      *)
Finds == [at : Nat \ {0}, found : Seq(Seq(Chars))]

Found(at, found) == [at |-> at, found |-> found]

Matches(text, match) ==
  /\ match \in [Nat -> Finds] /\ match[0] = Found(1, <<>>)
  /\ \A n \in Nat : match[n + 1] = MatchStep(text, match[n])

Closers(text, open) == {k \in (open + 1)..Len(text) : text[k] = text[open]}

Openers(text, at) == {k \in at..Len(text) : text[k] \in {"sq", "dq"} /\ Closers(text, k) # {}}

LEMMA MatchStepIs ==
  ASSUME NEW text, NEW s
  PROVE  /\ Openers(text, s.at) = {} => MatchStep(text, s) = s
         /\ \A open, close :
              /\ Openers(text, s.at) # {} /\ open = Min(Openers(text, s.at))
              /\ close = Min(Closers(text, open))
              => MatchStep(text, s) = Found(close + 1, Append(s.found, SubSeq(text, open + 1, close - 1)))
BY DEF MatchStep, Openers, Closers, Found

LEMMA Within ==
  ASSUME NEW S, NEW text \in Seq(S), NEW a \in Nat, NEW b \in Nat, a # 0, b <= Len(text)
  PROVE  /\ SubSeq(text, a, b) \in Seq(S)
         /\ Len(SubSeq(text, a, b)) = IF a <= b THEN (b - a) + 1 ELSE 0
         /\ \A i \in 1..Len(SubSeq(text, a, b)) : SubSeq(text, a, b)[i] = text[(a + i) - 1]
<1>1. CASE a <= b
  <2>1. a \in 1..Len(text) /\ b \in 1..Len(text)
    BY <1>1
  <2>2. QED
    BY <1>1, <2>1
<1>2. CASE b < a
  <2>1. SubSeq(text, a, b) = <<>>
    BY <1>2
  <2>2. <<>> \in Seq(S) /\ Len(<<>>) = 0 /\ ~ (a <= b)
    BY <1>2
  <2>3. QED
    BY <2>1, <2>2
<1>3. QED
  BY <1>1, <1>2

LEMMA SameText ==
  ASSUME NEW S, NEW u \in Seq(S), NEW v \in Seq(S), Len(u) = Len(v),
         \A i \in 1..Len(u) : u[i] = v[i]
  PROVE  u = v
OBVIOUS

LEMMA MatchTyped ==
  ASSUME NEW text \in Seq(Chars), NEW s \in Finds
  PROVE  MatchStep(text, s) \in Finds
<1>1. s.at \in Nat /\ s.at # 0 /\ s.found \in Seq(Seq(Chars)) /\ Len(text) \in Nat
  BY DEF Finds
<1>2. CASE Openers(text, s.at) = {}
  BY <1>2, MatchStepIs
<1>3. CASE Openers(text, s.at) # {}
  <2> DEFINE open == Min(Openers(text, s.at))
             close == Min(Closers(text, open))
             found == SubSeq(text, open + 1, close - 1)
  <2>1. open \in Openers(text, s.at)
    <3>1. Openers(text, s.at) \subseteq Nat
      BY <1>1 DEF Openers
    <3>2. QED
      BY <1>3, <3>1, MinIsLeast
  <2> HIDE DEF open
  <2>2. open \in Nat /\ open # 0 /\ Closers(text, open) # {}
    BY <1>1, <2>1 DEF Openers
  <2>3. close \in Closers(text, open)
    <3>1. Closers(text, open) \subseteq Nat
      BY <1>1, <2>2 DEF Closers
    <3>2. QED
      BY <2>2, <3>1, MinIsLeast
  <2> HIDE DEF close
  <2>4. /\ open + 1 \in Nat /\ open + 1 # 0
        /\ close - 1 \in Nat /\ close - 1 <= Len(text) /\ close + 1 \in Nat \ {0}
    BY <1>1, <2>2, <2>3 DEF Closers
  <2>5. found \in Seq(Chars)
    BY <2>4, Within
  <2> HIDE DEF found
  <2>6. Append(s.found, found) \in Seq(Seq(Chars))
    BY <1>1, <2>5
  <2>7. MatchStep(text, s) = Found(close + 1, Append(s.found, found))
    BY <1>3, MatchStepIs DEF open, close, found
  <2>8. QED
    BY <2>4, <2>6, <2>7 DEF Found, Finds
<1>4. QED
  BY <1>2, <1>3

LEMMA MatchTurns ==
  ASSUME NEW text \in Seq(Chars)
  PROVE  \E match : Matches(text, match) /\ Strings(text) = match[Len(text)].found
<1> DEFINE step == [n \in Nat |-> [s \in Finds |-> MatchStep(text, s)]]
           match == CHOOSE match : match = [n \in Nat |->
                      IF n = 0 THEN [at |-> 1, found |-> <<>>] ELSE MatchStep(text, match[n - 1])]
<1>1. step \in [Nat -> [Finds -> Finds]] /\ Found(1, <<>>) \in Finds
  <2>1. \A s \in Finds : MatchStep(text, s) \in Finds
    BY MatchTyped
  <2>2. Found(1, <<>>) \in Finds
    BY DEF Found, Finds
  <2>3. QED
    BY <2>1, <2>2
<1>2. \A n \in Nat, s \in Finds : step[n][s] = MatchStep(text, s)
  OBVIOUS
<1> HIDE DEF step
<1>3. PICK f : Repeats(f, Finds, Found(1, <<>>), step)
  BY <1>1, Recursion
<1>4. Matches(text, f)
  BY <1>2, <1>3 DEF Repeats, Matches
<1>5. f = [n \in Nat |-> IF n = 0 THEN [at |-> 1, found |-> <<>>] ELSE MatchStep(text, f[n - 1])]
  <2>1. ASSUME NEW n \in Nat, n # 0
        PROVE  f[n] = MatchStep(text, f[n - 1])
    <3>1. n - 1 \in Nat /\ (n - 1) + 1 = n
      BY <2>1
    <3>2. QED
      BY <1>4, <3>1 DEF Matches
  <2>2. f[0] = [at |-> 1, found |-> <<>>] /\ f = [n \in Nat |-> f[n]]
    BY <1>4 DEF Matches, Found
  <2>3. QED
    BY <2>1, <2>2
<1>6. match = [n \in Nat |-> IF n = 0 THEN [at |-> 1, found |-> <<>>] ELSE MatchStep(text, match[n - 1])]
  BY <1>5
<1>7. Strings(text) = match[Len(text)].found
  BY Zenon DEF Strings
<1> HIDE DEF match
<1>8. match[0] = Found(1, <<>>) /\ \A n \in Nat : match[n + 1] = MatchStep(text, match[n])
  <2>1. match[0] = Found(1, <<>>)
    BY <1>6 DEF Found
  <2>2. ASSUME NEW n \in Nat
        PROVE  match[n + 1] = MatchStep(text, match[n])
    <3>1. n + 1 \in Nat /\ n + 1 # 0 /\ (n + 1) - 1 = n
      OBVIOUS
    <3>2. match[n + 1] = IF n + 1 = 0 THEN [at |-> 1, found |-> <<>>] ELSE MatchStep(text, match[(n + 1) - 1])
      BY <1>6, <3>1
    <3>3. QED
      BY <3>1, <3>2
  <2>3. QED
    BY <2>1, <2>2
<1>9. Len(text) \in Nat /\ Nat \subseteq {n \in Nat : match[n] = f[n]}
  <2> DEFINE T == {n \in Nat : match[n] = f[n]}
  <2>1. 0 \in T
    BY <1>4, <1>8 DEF Matches
  <2>2. ASSUME NEW n \in T, n \in Nat
        PROVE  n + 1 \in T
    <3>1. match[n + 1] = MatchStep(text, match[n]) /\ f[n + 1] = MatchStep(text, f[n])
      BY <1>4, <1>8 DEF Matches
    <3>2. match[n] = f[n]
      OBVIOUS
    <3>3. match[n + 1] = f[n + 1]
      BY Zenon, <3>1, <3>2
    <3>4. QED
      BY <3>3
  <2> HIDE DEF T
  <2>3. Nat \subseteq T
    BY <2>1, <2>2, Induction
  <2>4. QED
    BY <2>3 DEF T
<1>10. QED
  BY <1>4, <1>7, <1>9

-------------------------------------------------------------------------------
(* The live globs among the first k pieces, and their texts in order.       *)
LiveUpto(pieces, k) == {j \in Live(pieces) : j <= k}

Lists(pieces, k, found) ==
  /\ found \in Seq(Seq(Chars)) /\ Len(found) = Cardinality(LiveUpto(pieces, k))
  /\ \A j \in LiveUpto(pieces, k) : found[Cardinality(LiveUpto(pieces, j))] = pieces[j].text
  /\ \A i \in 1..Len(found) : \E j \in LiveUpto(pieces, k) : i = Cardinality(LiveUpto(pieces, j))

LEMMA LiveCounted ==
  ASSUME NEW pieces \in Seq(Pieces), NEW k \in Nat
  PROVE  /\ IsFiniteSet(LiveUpto(pieces, k)) /\ Cardinality(LiveUpto(pieces, k)) \in Nat
         /\ k = 0 => LiveUpto(pieces, k) = {} /\ Cardinality(LiveUpto(pieces, k)) = 0
         /\ \A j \in LiveUpto(pieces, k) :
              Cardinality(LiveUpto(pieces, j)) \in 1..Cardinality(LiveUpto(pieces, k))
<1>1. Live(pieces) \subseteq 1..Len(pieces) /\ Len(pieces) \in Nat
  BY DEF Live
<1>2. \A l \in Nat : IsFiniteSet(LiveUpto(pieces, l)) /\ Cardinality(LiveUpto(pieces, l)) \in Nat
  <2>1. ASSUME NEW l \in Nat
        PROVE  IsFiniteSet(LiveUpto(pieces, l)) /\ Cardinality(LiveUpto(pieces, l)) \in Nat
    <3>1. LiveUpto(pieces, l) \subseteq 1..Len(pieces)
      BY <1>1 DEF LiveUpto
    <3>2. IsFiniteSet(1..Len(pieces))
      BY <1>1, FS_Interval
    <3>3. QED
      BY <3>1, <3>2, FS_Subset, FS_CardinalityType
  <2>2. QED
    BY <2>1
<1>3. ASSUME k = 0
      PROVE  LiveUpto(pieces, k) = {} /\ Cardinality(LiveUpto(pieces, k)) = 0
  <2>1. LiveUpto(pieces, k) = {}
    BY <1>1, <1>3 DEF LiveUpto
  <2>2. QED
    BY <2>1, FS_EmptySet
<1>4. ASSUME NEW j \in LiveUpto(pieces, k)
      PROVE  Cardinality(LiveUpto(pieces, j)) \in 1..Cardinality(LiveUpto(pieces, k))
  <2>1. j \in Nat /\ j \in LiveUpto(pieces, j) /\ LiveUpto(pieces, j) \subseteq LiveUpto(pieces, k)
    BY <1>1 DEF LiveUpto
  <2>2. Cardinality(LiveUpto(pieces, j)) <= Cardinality(LiveUpto(pieces, k))
    BY <1>2, <2>1, FS_Subset
  <2>3. Cardinality(LiveUpto(pieces, j)) # 0
    BY <1>2, <2>1, FS_EmptySet
  <2>4. QED
    BY <1>2, <2>1, <2>2, <2>3
<1>5. QED
  BY <1>2, <1>3, <1>4

LEMMA OneListed ==
  ASSUME NEW pieces \in Seq(Pieces), NEW k \in Nat, k + 1 \in DOMAIN pieces,
         NEW found, Lists(pieces, k, found)
  PROVE  /\ k + 1 \in Live(pieces) => Lists(pieces, k + 1, Append(found, pieces[k + 1].text))
         /\ k + 1 \notin Live(pieces) => Lists(pieces, k + 1, found)
<1>1. Live(pieces) \subseteq 1..Len(pieces) /\ Len(pieces) \in Nat /\ pieces[k + 1].text \in Seq(Chars)
  <2>1. pieces[k + 1] \in Pieces
    OBVIOUS
  <2>2. QED
    BY <2>1 DEF Live, Pieces
<1>2. CASE k + 1 \in Live(pieces)
  <2> DEFINE new == Append(found, pieces[k + 1].text)
  <2>1. LiveUpto(pieces, k + 1) = LiveUpto(pieces, k) \cup {k + 1} /\ k + 1 \notin LiveUpto(pieces, k)
    BY <1>1, <1>2 DEF LiveUpto
  <2>2. Cardinality(LiveUpto(pieces, k + 1)) = Cardinality(LiveUpto(pieces, k)) + 1
    BY <2>1, LiveCounted, FS_AddElement
  <2>3. /\ found \in Seq(Seq(Chars)) /\ Len(found) = Cardinality(LiveUpto(pieces, k))
        /\ \A j \in LiveUpto(pieces, k) : found[Cardinality(LiveUpto(pieces, j))] = pieces[j].text
    BY DEF Lists
  <2>4. /\ new \in Seq(Seq(Chars)) /\ Len(new) = Len(found) + 1
        /\ new[Len(found) + 1] = pieces[k + 1].text /\ \A i \in 1..Len(found) : new[i] = found[i]
    BY <1>1, <2>3
  <2> HIDE DEF new
  <2>5. ASSUME NEW j \in LiveUpto(pieces, k + 1)
        PROVE  new[Cardinality(LiveUpto(pieces, j))] = pieces[j].text
    <3>1. CASE j = k + 1
      BY <2>2, <2>3, <2>4, <3>1
    <3>2. CASE j # k + 1
      <4>1. j \in LiveUpto(pieces, k)
        BY <2>1, <3>2
      <4>2. Cardinality(LiveUpto(pieces, j)) \in 1..Len(found)
        BY <2>3, <4>1, LiveCounted
      <4>3. QED
        BY <2>3, <2>4, <4>1, <4>2
    <3>3. QED
      BY <3>1, <3>2
  <2>6. ASSUME NEW i \in 1..Len(new)
        PROVE  \E j \in LiveUpto(pieces, k + 1) : i = Cardinality(LiveUpto(pieces, j))
    <3>1. Len(found) \in Nat /\ (i \in 1..Len(found) \/ i = Len(found) + 1)
      BY <2>3, <2>4
    <3>2. CASE i \in 1..Len(found)
      <4>1. \E j \in LiveUpto(pieces, k) : i = Cardinality(LiveUpto(pieces, j))
        BY <3>2 DEF Lists
      <4>2. QED
        BY <2>1, <4>1
    <3>3. CASE i = Len(found) + 1
      <4>1. k + 1 \in LiveUpto(pieces, k + 1) /\ i = Cardinality(LiveUpto(pieces, k + 1))
        BY <2>1, <2>2, <2>3, <3>3
      <4>2. QED
        BY <4>1
    <3>4. QED
      BY <3>1, <3>2, <3>3
  <2>7. Len(new) = Cardinality(LiveUpto(pieces, k + 1))
    BY <2>2, <2>3, <2>4
  <2>8. Lists(pieces, k + 1, new)
    BY <2>4, <2>5, <2>6, <2>7 DEF Lists
  <2>9. QED
    BY <1>2, <2>8 DEF new
<1>3. CASE k + 1 \notin Live(pieces)
  <2>1. LiveUpto(pieces, k + 1) = LiveUpto(pieces, k)
    BY <1>1, <1>3 DEF LiveUpto
  <2>2. QED
    BY <1>3, <2>1 DEF Lists
<1>4. QED
  BY <1>2, <1>3

-------------------------------------------------------------------------------
NoQuotes(text, a, b) == \A i \in a..b : text[i] \notin {"sq", "dq"}

(* After the first k pieces, where the match stands and what it has found.  *)
MatchedUpto(text, match, pieces, k, end) ==
  \E a \in Nat \ {0}, found \in Seq(Seq(Chars)) :
    /\ Reached(match, Found(a, found)) /\ a <= end + 1
    /\ NoQuotes(text, a, end) /\ Lists(pieces, k, found)

LEMMA GlobMatched ==
  ASSUME NEW text \in Seq(Chars), NEW match, Matches(text, match),
         NEW p \in Pieces, Globbing(p), NEW c \in Nat, Stands(text, c, Render(p)),
         NEW a \in Nat \ {0}, NEW found \in Seq(Seq(Chars)), a <= c + 1,
         Reached(match, Found(a, found)), NoQuotes(text, a, c)
  PROVE  /\ Reached(match, Found(c + Len(Render(p)), Append(found, p.text)))
         /\ NoQuotes(text, c + Len(Render(p)), c + Len(Render(p)))
<1> DEFINE r == Render(p)
           n == Len(p.text)
           q == QuoteOf(p)
           s == Found(a, found)
<1>1. /\ r \in Seq(Chars) /\ Len(r) = n + 3 /\ r[1] = q /\ r[n + 2] = q /\ r[n + 3] = ","
      /\ \A i \in 1..n : r[i + 1] = p.text[i] /\ p.text[i] \in GlobChars
  BY GlobText
<1>2. n \in Nat /\ p.text \in Seq(Chars)
  BY DEF Pieces
<1>3. q \in {"sq", "dq"}
  BY DEF QuoteOf
<1>4. GlobChars \cap {"sq", "dq"} = {}
  BY ConfigsAssumption DEF GlobChars, Quotes
<1>5. Reached(match, s) /\ Stands(text, c, r) /\ Len(text) \in Nat /\ a \in Nat /\ a # 0
  OBVIOUS
<1>6. s.at = a /\ s.found = found
  BY DEF Found
<1> HIDE DEF r, n, q, s
<1>7. Len(r) = n + 3
  BY <1>1
<1>8. c + n + 3 <= Len(text) /\ \A i \in 1..(n + 3) : text[c + i] = r[i]
  <2>1. c + Len(r) <= Len(text) /\ \A i \in 1..Len(r) : text[c + i] = r[i]
    BY <1>5 DEF Stands
  <2>2. QED
    BY <1>2, <1>7, <2>1
<1>9. text[c + 1] = q /\ text[c + n + 2] = q /\ text[c + n + 3] = ","
  <2>1. 1 \in 1..(n + 3) /\ n + 2 \in 1..(n + 3) /\ n + 3 \in 1..(n + 3)
        /\ c + (n + 2) = c + n + 2 /\ c + (n + 3) = c + n + 3
    BY <1>2
  <2>2. QED
    BY <1>1, <1>8, <2>1
<1>10. \A i \in 1..n : text[c + 1 + i] = p.text[i] /\ p.text[i] \in GlobChars
  <2>1. ASSUME NEW i \in 1..n
        PROVE  text[c + 1 + i] = p.text[i] /\ p.text[i] \in GlobChars
    <3>1. i + 1 \in 1..(n + 3) /\ c + (i + 1) = c + 1 + i
      BY <1>2
    <3>2. r[i + 1] = p.text[i] /\ p.text[i] \in GlobChars
      BY <1>1
    <3>3. QED
      BY <1>8, <3>1, <3>2
  <2>2. QED
    BY <2>1
(* The string closes at the glob's own closing quote.                       *)
<1>11. Closers(text, c + 1) # {} /\ Min(Closers(text, c + 1)) = c + n + 2
  <2>1. c + n + 2 \in Closers(text, c + 1)
    <3>1. c + n + 2 \in ((c + 1) + 1)..Len(text)
      BY <1>2, <1>5, <1>8
    <3>2. QED
      BY <1>9, <3>1 DEF Closers
  <2>2. ASSUME NEW k \in Closers(text, c + 1), k < c + n + 2
        PROVE  FALSE
    <3> DEFINE i == (k - c) - 1
    <3>1. k \in ((c + 1) + 1)..Len(text) /\ text[k] = q
      BY <1>9 DEF Closers
    <3>2. k \in Nat /\ k >= c + 2 /\ text[k] = q
      BY <1>5, <3>1
    <3>3. i \in 1..n /\ c + 1 + i = k
      BY <1>2, <2>2, <3>2
    <3> HIDE DEF i
    <3>4. text[k] \in GlobChars
      BY <1>10, <3>3
    <3>5. QED
      BY <1>3, <1>4, <3>2, <3>4
  <2>3. Closers(text, c + 1) \subseteq Nat
    BY <1>5 DEF Closers
  <2>4. \A k \in Closers(text, c + 1) : c + n + 2 <= k
    BY <1>2, <2>2, <2>3
  <2>5. QED
    BY <2>1, <2>3, <2>4, LeastIsMin
(* Nothing opens one before its opening quote.                              *)
<1>12. Openers(text, a) # {} /\ Min(Openers(text, a)) = c + 1
  <2>1. c + 1 \in Openers(text, a)
    <3>1. c + 1 \in a..Len(text)
      BY <1>2, <1>5, <1>8
    <3>2. QED
      BY <1>3, <1>9, <1>11, <3>1 DEF Openers
  <2>2. ASSUME NEW k \in Openers(text, a), k < c + 1
        PROVE  FALSE
    <3>1. k \in Nat /\ k >= a /\ text[k] \in {"sq", "dq"}
      BY <1>5 DEF Openers
    <3>2. k \in a..c
      BY <1>5, <2>2, <3>1
    <3>3. QED
      BY <3>1, <3>2 DEF NoQuotes
  <2>3. Openers(text, a) \subseteq Nat
    BY <1>5 DEF Openers
  <2>4. \A k \in Openers(text, a) : c + 1 <= k
    BY <2>2, <2>3
  <2>5. QED
    BY <2>1, <2>3, <2>4, LeastIsMin
<1>13. SubSeq(text, (c + 1) + 1, (c + n + 2) - 1) = p.text
  <2> DEFINE lo == (c + 1) + 1
             hi == (c + n + 2) - 1
             t == SubSeq(text, lo, hi)
  <2>1. lo \in Nat /\ lo # 0 /\ hi \in Nat /\ hi <= Len(text) /\ (IF lo <= hi THEN (hi - lo) + 1 ELSE 0) = n
    BY <1>2, <1>5, <1>8
  <2>2. \A i \in 1..n : (lo + i) - 1 = c + 1 + i
    BY <1>2
  <2> HIDE DEF lo, hi
  <2>3. t \in Seq(Chars) /\ Len(t) = n /\ \A i \in 1..Len(t) : t[i] = text[(lo + i) - 1]
    BY <2>1, Within
  <2> HIDE DEF t
  <2>4. \A i \in 1..n : t[i] = p.text[i]
    BY <1>10, <2>2, <2>3
  <2>5. t = p.text
    <3>1. Len(t) = Len(p.text) /\ \A i \in 1..Len(t) : t[i] = p.text[i]
      BY <2>3, <2>4 DEF n
    <3>2. QED
      BY <1>2, <2>3, <3>1, SameText
  <2>6. QED
    BY <2>5 DEF t, lo, hi
<1>14. MatchStep(text, s) = Found(c + n + 3, Append(found, p.text))
  <2>1. MatchStep(text, s) =
          Found((c + n + 2) + 1, Append(s.found, SubSeq(text, (c + 1) + 1, (c + n + 2) - 1)))
    <3>1. /\ Openers(text, s.at) # {} /\ c + 1 = Min(Openers(text, s.at))
          /\ c + n + 2 = Min(Closers(text, c + 1))
      BY <1>6, <1>11, <1>12
    <3>2. QED
      BY <3>1, MatchStepIs
  <2>2. (c + n + 2) + 1 = c + n + 3
    BY <1>2
  <2>3. QED
    BY <1>6, <1>13, <2>1, <2>2
<1>15. Reached(match, Found(c + n + 3, Append(found, p.text)))
  <2> DEFINE t == Found(c + n + 3, Append(found, p.text))
  <2>1. PICK m \in Nat : m < a /\ match[m] = s
    BY <1>5, <1>6 DEF Reached
  <2>2. match[m + 1] = MatchStep(text, s)
    BY <2>1 DEF Matches
  <2>3. m + 1 < c + n + 3 /\ m + 1 \in Nat
    BY <1>2, <1>5, <2>1
  <2>4. t.at = c + n + 3
    BY DEF Found
  <2> HIDE DEF t
  <2>5. match[m + 1] = t
    BY <1>14, <2>2 DEF t
  <2>6. QED
    BY <2>3, <2>4, <2>5 DEF Reached, t
<1>16. NoQuotes(text, c + n + 3, c + n + 3)
  <2>1. \A i \in (c + n + 3)..(c + n + 3) : i = c + n + 3
    BY <1>2
  <2>2. QED
    BY <1>9, <2>1 DEF NoQuotes
<1>17. c + n + 3 = c + Len(r)
  BY <1>2, <1>7
<1>18. QED
  BY <1>15, <1>16, <1>17 DEF r

LEMMA PieceMatched ==
  ASSUME NEW text \in Seq(Chars), NEW match, Matches(text, match), NEW pieces \in Seq(Pieces),
         NEW k \in Nat, k + 1 \in DOMAIN pieces, NEW c \in Nat, Stands(text, c, Kept(pieces[k + 1])),
         MatchedUpto(text, match, pieces, k, c)
  PROVE  MatchedUpto(text, match, pieces, k + 1, c + Len(Kept(pieces[k + 1])))
<1> DEFINE p == pieces[k + 1]
<1>1. PICK a \in Nat \ {0}, found \in Seq(Seq(Chars)) :
        /\ Reached(match, Found(a, found)) /\ a <= c + 1
        /\ NoQuotes(text, a, c) /\ Lists(pieces, k, found)
  BY DEF MatchedUpto
<1>2. /\ p \in Pieces /\ (k + 1 \in Live(pieces) <=> Globbing(p))
      /\ Stands(text, c, Kept(p)) /\ Kept(p) \in Seq(Chars)
  <2>1. p \in Pieces /\ (k + 1 \in Live(pieces) <=> Globbing(p))
    BY DEF Live, Globbing
  <2>2. QED
    BY <2>1, KeptText
<1>3. /\ Globbing(p) => Lists(pieces, k + 1, Append(found, p.text))
      /\ ~ Globbing(p) => Lists(pieces, k + 1, found)
  BY <1>1, <1>2, OneListed
<1> HIDE DEF p
<1>4. CASE Globbing(p)
  <2>1. Kept(p) = Render(p) /\ Len(Kept(p)) = Len(p.text) + 3 /\ Len(p.text) \in Nat
    <3>1. Kept(p) = Render(p)
      BY <1>4 DEF Kept
    <3>2. p.text \in Seq(Chars)
      BY <1>2 DEF Pieces
    <3>3. Len(p.text) \in Nat
      BY <3>2
    <3>4. Len(Render(p)) = Len(p.text) + 3
      BY <1>2, <1>4, GlobText
    <3>5. QED
      BY <3>1, <3>3, <3>4
  <2> DEFINE d == c + Len(Kept(p))
  <2>2. Reached(match, Found(d, Append(found, p.text))) /\ NoQuotes(text, d, d)
    BY <1>1, <1>2, <1>4, <2>1, GlobMatched
  <2>3. d \in Nat \ {0} /\ d <= d + 1
    BY <2>1
  <2> HIDE DEF d
  <2>4. MatchedUpto(text, match, pieces, k + 1, d)
    <3>1. Lists(pieces, k + 1, Append(found, p.text))
      BY <1>3, <1>4
    <3>2. Append(found, p.text) \in Seq(Seq(Chars))
      BY <3>1 DEF Lists
    <3>3. QED
      BY <2>2, <2>3, <3>1, <3>2 DEF MatchedUpto
  <2>5. QED
    BY <2>4 DEF d, p
<1>5. CASE ~ Globbing(p)
  <2> DEFINE l == Len(Kept(p))
  <2>1. l \in Nat /\ \A i \in 1..l : Kept(p)[i] \notin {"sq", "dq"}
    <3>1. Kept(p) = <<"nl">> \/ Kept(p) = <<>>
      BY <1>5 DEF Kept
    <3>2. QED
      BY <1>2, <3>1
  <2>2. \A i \in 1..l : text[c + i] = Kept(p)[i]
    BY <1>2 DEF Stands
  <2> HIDE DEF l
  <2>3. ASSUME NEW i \in a..(c + l)
        PROVE  text[i] \notin {"sq", "dq"}
    <3>1. CASE i <= c
      <4>1. i \in a..c
        BY <2>1, <3>1
      <4>2. QED
        BY <1>1, <4>1 DEF NoQuotes
    <3>2. CASE ~ (i <= c)
      <4>1. i - c \in 1..l /\ c + (i - c) = i
        BY <2>1, <3>2
      <4>2. text[c + (i - c)] = Kept(p)[i - c] /\ Kept(p)[i - c] \notin {"sq", "dq"}
        BY <2>1, <2>2, <4>1
      <4>3. QED
        BY <4>1, <4>2
    <3>3. QED
      BY <3>1, <3>2
  <2>4. NoQuotes(text, a, c + l) /\ a <= c + l + 1
    BY <1>1, <2>1, <2>3 DEF NoQuotes
  <2>5. MatchedUpto(text, match, pieces, k + 1, c + l)
    BY <1>1, <1>3, <1>5, <2>4 DEF MatchedUpto
  <2>6. QED
    BY <2>5 DEF l, p
<1>6. QED
  BY <1>4, <1>5

(* The match finds the live globs, in order.                                *)
LEMMA StringsAreLive ==
  ASSUME NEW pieces \in Seq(Pieces)
  PROVE  Lists(pieces, Len(pieces), Strings(KeptOf(pieces)))
<1> DEFINE kept == [k \in DOMAIN pieces |-> Kept(pieces[k])]
           text == KeptOf(pieces)
           n == Len(pieces)
<1>1. n \in Nat /\ DOMAIN pieces = 1..n /\ \A k \in 1..n : pieces[k] \in Pieces
  OBVIOUS
<1>2. kept \in Seq(Seq(Chars)) /\ Len(kept) = n /\ \A k \in 1..n : kept[k] = Kept(pieces[k])
  <2>1. \A k \in DOMAIN pieces : Kept(pieces[k]) \in Seq(Chars)
    BY <1>1, KeptText
  <2>2. QED
    BY <1>1, <2>1
<1>3. text = FlattenSeq(kept)
  BY DEF KeptOf
<1> HIDE DEF kept, text, n
<1>4. PICK cut : text \in Seq(Chars) /\ Divides(text, cut, kept)
  BY <1>2, <1>3, FlattenDivides
<1>5. /\ cut[0] = 0 /\ cut[n] = Len(text) /\ \A k \in Nat : cut[k] \in Nat
      /\ \A k \in 1..n : cut[k] = cut[k - 1] + Len(kept[k]) /\ Stands(text, cut[k - 1], kept[k])
  BY <1>2, <1>4 DEF Divides
<1>6. PICK match : Matches(text, match) /\ Strings(text) = match[Len(text)].found
  BY <1>4, MatchTurns
<1> DEFINE At(k) == MatchedUpto(text, match, pieces, k, cut[k])
           T == {k \in Nat : k <= n => At(k)}
<1>7. Nat \subseteq T
  <2>1. At(0)
    <3>1. match[0] = Found(1, <<>>) /\ 0 < 1 /\ Found(1, <<>>).at = 1 /\ 1 \in Nat \ {0}
      BY <1>6 DEF Matches, Found
    <3>2. Reached(match, Found(1, <<>>))
      BY <3>1 DEF Reached
    <3>3. Lists(pieces, 0, <<>>)
      <4>1. LiveUpto(pieces, 0) = {} /\ Cardinality(LiveUpto(pieces, 0)) = 0
        BY LiveCounted
      <4>2. <<>> \in Seq(Seq(Chars)) /\ Len(<<>>) = 0
        OBVIOUS
      <4>3. QED
        BY <4>1, <4>2 DEF Lists
    <3>4. NoQuotes(text, 1, 0) /\ 1 <= 0 + 1
      BY DEF NoQuotes
    <3>5. MatchedUpto(text, match, pieces, 0, 0)
      <4>1. <<>> \in Seq(Seq(Chars))
        OBVIOUS
      <4>2. QED
        BY <3>1, <3>2, <3>3, <3>4, <4>1 DEF MatchedUpto
    <3>6. QED
      BY <1>5, <3>5
  <2>2. ASSUME NEW k \in Nat, At(k), k + 1 <= n
        PROVE  At(k + 1)
    <3>1. k + 1 \in 1..n /\ (k + 1) - 1 = k
      BY <1>1, <2>2
    <3>2. kept[k + 1] = Kept(pieces[k + 1]) /\ k + 1 \in DOMAIN pieces
      BY <1>1, <1>2, <3>1
    <3>3. cut[k] \in Nat /\ cut[k + 1] = cut[k] + Len(kept[k + 1]) /\ Stands(text, cut[k], kept[k + 1])
      BY <1>5, <2>2, <3>1
    <3>4. MatchedUpto(text, match, pieces, k + 1, cut[k] + Len(Kept(pieces[k + 1])))
      BY <1>4, <1>6, <2>2, <3>2, <3>3, PieceMatched
    <3>5. QED
      BY <3>2, <3>3, <3>4
  <2> HIDE DEF At
  <2>3. 0 \in T
    BY <2>1
  <2>4. ASSUME NEW k \in T, k \in Nat
        PROVE  k + 1 \in T
    <3>1. k + 1 <= n => k <= n
      BY <1>1, <2>4
    <3>2. QED
      BY <2>2, <2>4, <3>1
  <2> HIDE DEF T
  <2>5. QED
    BY <2>3, <2>4, Induction
<1>8. At(n)
  <2> HIDE DEF At
  <2>1. n \in T /\ n <= n
    BY <1>1, <1>7
  <2>2. QED
    BY <2>1
<1>9. PICK a \in Nat \ {0}, found \in Seq(Seq(Chars)) :
        /\ Reached(match, Found(a, found)) /\ a <= Len(text) + 1
        /\ NoQuotes(text, a, Len(text)) /\ Lists(pieces, n, found)
  <2>1. MatchedUpto(text, match, pieces, n, Len(text))
    BY <1>5, <1>8
  <2>2. QED
    BY <2>1 DEF MatchedUpto
<1> DEFINE s == Found(a, found)
<1>10. s.at = a /\ s.found = found
  BY DEF Found
<1>11. Reached(match, s)
  BY <1>9
<1> HIDE DEF s
<1>12. MatchStep(text, s) = s
  <2>1. Openers(text, a) = {}
    BY <1>9 DEF Openers, NoQuotes
  <2>2. QED
    BY <1>10, <2>1, MatchStepIs
<1>13. match[Len(text)] = s
  <2>1. PICK m \in Nat : m < a /\ match[m] = s
    BY <1>10, <1>11 DEF Reached
  <2>2. ASSUME NEW i \in Nat, match[i] = s
        PROVE  match[i + 1] = s
    <3>1. match[i + 1] = MatchStep(text, match[i])
      BY <1>6 DEF Matches
    <3>2. QED
      BY Zenon, <1>12, <2>2, <3>1
  <2>3. Sticks(match, s)
    BY <2>2 DEF Sticks
  <2>4. Len(text) \in Nat /\ Len(text) >= m
    BY <1>4, <1>9, <2>1
  <2>5. QED
    BY <2>1, <2>3, <2>4, Rests
<1>14. Strings(text) = found
  BY <1>6, <1>10, <1>13
<1>15. QED
  BY <1>9, <1>14 DEF text, n

(* What the script reads are the live globs, whatever stands beside them.   *)
LEMMA IncludeIsLive ==
  ASSUME NEW pieces \in Seq(Pieces)
  PROVE  Lists(pieces, Len(pieces), IncludeOf(pieces))
<1> DEFINE kept == [k \in DOMAIN pieces |-> Kept(pieces[k])]
           text == KeptOf(pieces) \o <<"]">>
           n == Len(KeptOf(pieces))
           brackets == {k \in DOMAIN text : text[k] = "]"}
<1>1. KeptOf(pieces) \in Seq(Chars) /\ stripComments(TextOf(pieces)) = text
  BY StripKeeps
(* No bracket is kept of any piece: the one that ends the array is the first. *)
<1>2. KeptOf(pieces) \in Seq(Chars \ {"]"})
  <2>1. ASSUME NEW k \in DOMAIN pieces
        PROVE  Kept(pieces[k]) \in Seq(Chars \ {"]"})
    <3>1. pieces[k] \in Pieces
      OBVIOUS
    <3>2. Kept(pieces[k]) \in Seq(Chars) /\ \A i \in 1..Len(Kept(pieces[k])) : Kept(pieces[k])[i] # "]"
      BY <3>1, KeptText
    <3> DEFINE u == Kept(pieces[k])
    <3> HIDE DEF u
    <3>3. u \in Seq(Chars) /\ \A i \in 1..Len(u) : u[i] \in Chars \ {"]"}
      BY <3>2 DEF u
    <3>4. u \in Seq(Chars \ {"]"})
      BY <3>3
    <3>5. QED
      BY <3>4 DEF u
  <2>2. kept \in Seq(Seq(Chars \ {"]"}))
    BY <2>1
  <2> HIDE DEF kept
  <2>3. FlattenSeq(kept) \in Seq(Chars \ {"]"})
    BY <2>2, FlattenDivides
  <2>4. QED
    BY <2>3 DEF KeptOf, kept
<1>3. n \in Nat /\ \A i \in 1..n : KeptOf(pieces)[i] # "]"
  <2>1. \A i \in 1..n : KeptOf(pieces)[i] \in Chars \ {"]"}
    BY <1>2
  <2>2. QED
    BY <1>1, <2>1
<1>4. /\ text \in Seq(Chars) /\ Len(text) = n + 1
      /\ \A i \in 1..n : text[i] = KeptOf(pieces)[i]
  <2>1. <<"]">> \in Seq(Chars) /\ Len(<<"]">>) = 1 /\ <<"]">>[1] = "]" /\ 1 \in 1..1
    BY DEF Chars
  <2>2. QED
    BY <1>1, <2>1, Joined
<1>5. text[n + 1] = "]"
  <2>1. <<"]">> \in Seq(Chars) /\ Len(<<"]">>) = 1 /\ <<"]">>[1] = "]" /\ 1 \in 1..1
    BY DEF Chars
  <2>2. QED
    BY <1>1, <2>1, Joined
<1> HIDE DEF text, n
<1>6. brackets # {} /\ Min(brackets) = n + 1
  <2>1. n + 1 \in brackets /\ brackets \subseteq Nat /\ \A k \in brackets : n + 1 <= k
    <3>1. DOMAIN text = 1..(n + 1)
      BY <1>3, <1>4
    <3>2. n + 1 \in 1..(n + 1) /\ 1..(n + 1) \subseteq Nat
      BY <1>3
    <3>3. \A k \in 1..(n + 1) : text[k] = "]" => n + 1 <= k
      BY <1>3, <1>4
    <3>4. QED
      BY <1>5, <3>1, <3>2, <3>3
  <2> HIDE DEF brackets
  <2>2. QED
    BY <2>1, LeastIsMin
<1>7. SubSeq(text, 1, (n + 1) - 1) = KeptOf(pieces)
  <2> DEFINE t == SubSeq(text, 1, n)
  <2>1. 1 \in Nat /\ 1 # 0 /\ n <= Len(text) /\ (n + 1) - 1 = n /\ (IF 1 <= n THEN (n - 1) + 1 ELSE 0) = n
    BY <1>3, <1>4
  <2>2. t \in Seq(Chars) /\ Len(t) = n /\ \A i \in 1..Len(t) : t[i] = text[(1 + i) - 1]
    BY <1>3, <1>4, <2>1, Within
  <2>3. \A i \in 1..n : (1 + i) - 1 = i
    BY <1>3
  <2> HIDE DEF t
  <2>4. Len(t) = Len(KeptOf(pieces)) /\ \A i \in 1..Len(t) : t[i] = KeptOf(pieces)[i]
    BY <1>4, <2>2, <2>3 DEF n
  <2>5. t = KeptOf(pieces)
    BY <1>1, <2>2, <2>4, SameText
  <2>6. QED
    BY <2>1, <2>5 DEF t
<1>8. coverageArray(text) = Strings(KeptOf(pieces))
  BY <1>6, <1>7 DEF coverageArray
<1>9. IncludeOf(pieces) = Strings(KeptOf(pieces))
  BY <1>1, <1>8 DEF IncludeOf
<1>10. QED
  BY <1>9, StringsAreLive

-------------------------------------------------------------------------------
(* What is known of every state: the config is one of the author's, and a    *)
(* verdict is that of the files and the config that are there.             *)
AuditInv ==
  /\ config \in Configs /\ tracked \subseteq Files
  /\ verdict = Unaudited \/ verdict = Complaints

LEMMA AuditInvHolds == Spec => []AuditInv
<1>1. Init => AuditInv
  BY DEF Init, AuditInv
<1>2. AuditInv /\ [Next]_vars => AuditInv'
  <2>1. SUFFICES ASSUME AuditInv, [Next]_vars
                 PROVE  AuditInv'
    OBVIOUS
  <2>2. CASE Audit
    BY <2>1, <2>2 DEF AuditInv, Audit, Complaints, Parsed
  <2>3. CASE Vitest
    BY <2>1, <2>3 DEF AuditInv, Vitest
  <2>4. CASE Commit
    <3>1. verdict' = Unaudited
      BY <2>4 DEF Commit
    <3>2. config' \in Configs
      BY <2>1, <2>4 DEF AuditInv, Commit
    <3>3. tracked' \subseteq Files
      BY <2>1, <2>4 DEF AuditInv, Commit, SymDiff
    <3>4. QED
      BY <3>1, <3>2, <3>3 DEF AuditInv
  <2>5. CASE UNCHANGED vars
    BY <2>1, <2>5 DEF AuditInv, vars, Complaints, Parsed
  <2>6. QED
    BY <2>1, <2>2, <2>3, <2>4, <2>5 DEF Next
<1>3. QED
  BY <1>1, <1>2, PTL DEF Spec

LEMMA CommentsDeclareNothingAlways ==
  ASSUME config \in Configs
  PROVE  CommentsDeclareNothing
<1> DEFINE n == Len(config)
           include == Parsed[config].include
           nth(k) == Cardinality({j \in Live(config) : j <= k})
<1>1. config \in Seq(Pieces)
  BY ConfigsAssumption
<1>2. include = IncludeOf(config)
  BY DEF Parsed
<1>3. Lists(config, n, include)
  BY <1>1, <1>2, IncludeIsLive
<1>4. Live(config) \subseteq 1..n /\ n \in Nat
  BY <1>1 DEF Live
<1> HIDE DEF include, n
<1>5. /\ LiveUpto(config, n) = Live(config)
      /\ \A k : LiveUpto(config, k) = {j \in Live(config) : j <= k}
  BY <1>4 DEF LiveUpto
<1>6. /\ include \in Seq(Seq(Chars)) /\ Len(include) = Cardinality(Live(config))
      /\ \A k \in Live(config) : include[nth(k)] = config[k].text
  BY <1>3, <1>5 DEF Lists
<1>7. DOMAIN include = {nth(k) : k \in Live(config)}
  <2>1. DOMAIN include = 1..Len(include)
    BY <1>6
  <2>2. \A i \in 1..Len(include) : \E k \in Live(config) : i = nth(k)
    BY <1>3, <1>5 DEF Lists
  <2>3. \A k \in Live(config) : nth(k) \in 1..Len(include)
    <3>1. \A j \in LiveUpto(config, n) :
            Cardinality(LiveUpto(config, j)) \in 1..Cardinality(LiveUpto(config, n))
      BY <1>1, <1>4, LiveCounted
    <3>2. QED
      BY <1>5, <1>6, <3>1
  <2> HIDE DEF nth
  <2>4. QED
    BY <2>1, <2>2, <2>3
<1>8. QED
  BY <1>6, <1>7 DEF CommentsDeclareNothing, include

(* The globs the script reads are those that are live in the config, in      *)
(* order, whatever the comments beside them hold (stripComments), for        *)
(* configs of any length, globs of any text and comments of any text.       *)
THEOREM CommentsAreSkipped == Spec => []CommentsDeclareNothing
<1>1. AuditInv => CommentsDeclareNothing
  BY CommentsDeclareNothingAlways DEF AuditInv
<1>2. QED
  BY <1>1, AuditInvHolds, PTL

LEMMA IncludeIsDeclared ==
  ASSUME config \in Configs
  PROVE  ToSet(Parsed[config].include) = LiveGlobs
<1>1. CommentsDeclareNothing
  BY CommentsDeclareNothingAlways
<1> DEFINE nth(k) == Cardinality({j \in Live(config) : j <= k})
           include == Parsed[config].include
<1>2. /\ DOMAIN include = {nth(k) : k \in Live(config)}
      /\ \A k \in Live(config) : include[nth(k)] = config[k].text
  BY <1>1 DEF CommentsDeclareNothing
<1> HIDE DEF nth, include
<1>3. {include[i] : i \in DOMAIN include} = {config[k].text : k \in Live(config)}
  BY <1>2
<1>4. QED
  BY <1>3 DEF ToSet, LiveGlobs, include

(* What one glob matches, and what is below the root it names, for the      *)
(* script.                                                                 *)
Matched(g) == {f \in Files : globToRegExp(g, f)}
Under(g) == {f \in Files : globRoot(g) # <<>> /\ IsPrefix(globRoot(g) \o <<"/">>, f)}

AllMatched == UNION {Matched(g) : g \in LiveGlobs}

(* What the script gates and finds drifted is what the live globs match and  *)
(* name one by one, when none is left open.                                *)
LEMMA ReadGlobByGlob ==
  ASSUME config \in Configs, ~ Parsed[config].broken
  PROVE  /\ Parsed[config].gated = AllMatched
         /\ Parsed[config].drifted = (UNION {Under(g) : g \in LiveGlobs}) \ AllMatched
<1> DEFINE include == IncludeOf(config)
<1>1. /\ Parsed[config].include = include
      /\ Parsed[config].broken = (\E g \in ToSet(include) : Unclosed(g))
      /\ Parsed[config].gated = IF \E g \in ToSet(include) : Unclosed(g) THEN {} ELSE Gated(include)
      /\ Parsed[config].drifted = IF \E g \in ToSet(include) : Unclosed(g) THEN {} ELSE Drifted(include)
  BY DEF Parsed
<1> HIDE DEF include
<1>2. ToSet(include) = LiveGlobs /\ \A g \in LiveGlobs : ~ Unclosed(g)
  BY <1>1, IncludeIsDeclared
<1>3. Parsed[config].gated = Gated(include) /\ Parsed[config].drifted = Drifted(include)
  BY <1>1, <1>2
<1>4. Gated(include) = AllMatched
  BY <1>2 DEF Gated, AllMatched, Matched
<1>5. Drifted(include) = (UNION {Under(g) : g \in LiveGlobs}) \ AllMatched
  <2> DEFINE roots == {globRoot(g) : g \in ToSet(include)} \ {<<>>}
             under == {f \in Files : \E r \in roots : IsPrefix(r \o <<"/">>, f)}
  <2>1. under = UNION {Under(g) : g \in LiveGlobs}
    BY <1>2 DEF Under
  <2>2. Drifted(include) = under \ Gated(include)
    BY DEF Drifted
  <2> HIDE DEF roots, under
  <2>3. QED
    BY <1>4, <2>1, <2>2
<1>6. QED
  BY <1>3, <1>4, <1>5

(* The tracked files that the report does not account for: matched and not   *)
(* reported, or below a declared root and matched by no glob.              *)
Holes ==
  tracked \cap ((AllMatched \ report) \cup ((UNION {Under(g) : g \in LiveGlobs}) \ AllMatched))

ExactAsRead ==
  verdict \subseteq {"undeclared", "stale"} =>
    /\ "undeclared" \in verdict <=> ~ Holes \subseteq exempt
    /\ "stale" \in verdict <=> ~ exempt \subseteq Holes

(* The gate is green only when coverage-exempt.txt names the holes exactly,  *)
(* and complains of a hole or of a stale line otherwise, the globs taken one *)
(* by one as the script reads them off the author's pieces: for any files,  *)
(* report, exemptions and config, whatever the comments in it.             *)
THEOREM GreenMeansExact == Spec => []ExactAsRead
<1>1. AuditInv => ExactAsRead
  <2>1. SUFFICES ASSUME AuditInv, verdict \subseteq {"undeclared", "stale"}
                 PROVE  /\ "undeclared" \in verdict <=> ~ Holes \subseteq exempt
                        /\ "stale" \in verdict <=> ~ exempt \subseteq Holes
    BY DEF ExactAsRead
  <2>2. verdict = Complaints /\ config \in Configs
    BY <2>1 DEF AuditInv, Unaudited
  <2> DEFINE read == Parsed[config]
             missing == tracked \cap ((read.gated \ report) \cup read.drifted)
             green == (IF missing \subseteq exempt THEN {} ELSE {"undeclared"})
                        \cup (IF exempt \subseteq missing THEN {} ELSE {"stale"})
  <2>3. ~ read.broken /\ verdict = green
    <3>1. Complaints =
            IF read.include = <<>> THEN {"no include"}
            ELSE IF report = NoReport THEN {"no report"}
            ELSE IF read.broken THEN {"unclosed"}
            ELSE IF tracked \cap read.gated = {} THEN {"matches nothing"}
            ELSE IF \E line \in exempt : IsGlob(line) THEN {"glob exempt"}
            ELSE green
      BY DEF Complaints
    <3> HIDE DEF read, green
    <3>2. QED
      BY <2>1, <2>2, <3>1
  <2>4. missing = Holes
    BY <2>2, <2>3, ReadGlobByGlob DEF Holes
  <2> HIDE DEF missing
  <2>5. QED
    BY <2>3, <2>4
<1>2. QED
  BY <1>1, AuditInvHolds, PTL
===============================================================================
