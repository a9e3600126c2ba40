---------------------------- MODULE MCCoverageAudit ----------------------------
EXTENDS CoverageAudit, TLC

(* s/a.m, s/a.j, s/d/a.m, a file of a directory whose name begins alike, and *)
(* one whose name ends like a.m, with no directory before that.            *)
Am  == <<"s", "/", "a", ".", "m">>
Aj  == <<"s", "/", "a", ".", "j">>
DAm == <<"s", "/", "d", "/", "a", ".", "m">>
XAm == <<"s", "x", "/", "a", ".", "m">>
XSAm == <<"x", "s", "a", ".", "m">>
AllFiles == {Am, Aj, DAm, XAm, XSAm}

(* s/**/*.m, s/*.{m,j}, s/d/**, s/a.j, **/?.m and a pattern left open.       *)
Deep   == <<"s", "/", "*", "*", "/", "*", ".", "m">>
Either == <<"s", "/", "*", ".", "{", "m", ",", "j", "}">>
InD    == <<"s", "/", "d", "/", "*", "*">>
Exact  == Aj
AnyM   == <<"*", "*", "/", "?", ".", "m">>
Open   == <<"s", "/", "*", ".", "{", "m">>

MeansOf == Deep :> {Am, DAm} @@ Either :> {Am, Aj} @@ InD :> {DAm} @@ Exact :> {Aj}
             @@ AnyM :> {Am, DAm, XAm} @@ Open :> {}
BelowOf == Deep :> {Am, Aj, DAm} @@ Either :> {Am, Aj, DAm} @@ InD :> {DAm} @@ Exact :> {}
             @@ AnyM :> {} @@ Open :> {}

Piece(kind, text) == [kind |-> kind, text |-> text]
Quoted(glob) == <<"sq">> \o glob \o <<"sq">>
Globs == {Piece("single", g) : g \in {Deep, Either, InD, Exact, AnyM, Open}}
Beside == {Piece("double", Deep), Piece("line", Quoted(Deep)), Piece("line", Quoted(AnyM)),
           Piece("block", Quoted(Either)), Piece("line", <<"sq", "]">>)}

LettersOf == {"s", "a", "d", "x", "m", "j"}
ConfigsOf == {<<>>} \cup {<<p>> : p \in Globs \cup Beside} \cup {<<p, q>> : p \in Beside, q \in Globs}
ExemptionsOf == {Aj, DAm, Deep}
ExcludedOf == {{}, {DAm}}
===============================================================================
