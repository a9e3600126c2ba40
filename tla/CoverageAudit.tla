----------------------------- MODULE CoverageAudit -----------------------------
(***************************************************************************)
(* The file-count gate of `yarn test:cov`, scripts/coverage-audit.mjs, in  *)
(* the repository it guards: sources come and go, the config is edited, a  *)
(* report is left from the last vitest run, exemptions are named.          *)
(*                                                                         *)
(* Texts are sequences of characters over a small alphabet, in which a     *)
(* name and an extension are one letter each; sq, dq, bt are quotes and nl *)
(* the end of a line.  The declarations are in the config as its author     *)
(* means them (pieces); the script sees their text.                        *)
(***************************************************************************)
EXTENDS FiniteSets, Naturals, SequencesExt

CONSTANTS
  Letters,       \* the characters of names
  Files,         \* the paths that may be tracked
  Exemptions,    \* the lines that may be written in coverage-exempt.txt
  Configs,       \* the lists of pieces that coverage.include may hold
  Excluded,      \* the sets of files that coverage.exclude may keep out of the report
  Means, Below   \* glob -> the files its author means, those in the directory it declares

Quotes == {"sq", "dq", "bt"}
GlobChars == Letters \cup {"/", "*", "?", "{", "}", ",", "."}
Null == "null"    \* outside of any quote
Chars == GlobChars \cup Quotes \cup {"nl", "]"}

(* What an author may put between the brackets: a glob, in no need of an     *)
(* escape, or a comment, which ends where its author ends it.              *)
Pieces ==
  {p \in [kind : {"single", "double", "line", "block"}, text : Seq(Chars)] :
     /\ p.kind \in {"single", "double"} => p.text \in Seq(GlobChars)
     /\ p.kind = "line" => \A k \in 1..Len(p.text) : p.text[k] # "nl"
     /\ p.kind = "block" => \A k \in 2..Len(p.text) : p.text[k - 1] # "*" \/ p.text[k] # "/"}

ASSUME ConfigsAssumption ==
  /\ Letters \cap (Quotes \cup {"nl", "]"}) = {}
  /\ Configs \subseteq Seq(Pieces)

VARIABLES
  tracked,     \* git ls-files
  config,      \* the pieces between the brackets of coverage.include
  report,      \* the files of coverage/lcov.info, or NoReport
  exempt,      \* the lines of coverage-exempt.txt
  verdict      \* the complaints of the last audit, until something changes

vars == <<tracked, config, report, exempt, verdict>>

NoReport == {<<>>}
Unaudited == {"none"}

Init ==
  /\ tracked \in SUBSET Files
  /\ config \in Configs
  /\ report = NoReport
  /\ exempt = {}
  /\ verdict = Unaudited

-------------------------------------------------------------------------------
Live(pieces) == {k \in DOMAIN pieces : pieces[k].kind \in {"single", "double"}}

(* The text of a config: a live glob in either quote, and a comment of       *)
(* either kind, whatever it says.                                          *)
Render(piece) ==
  CASE piece.kind = "single" -> <<"sq">> \o piece.text \o <<"sq", ",">>
    [] piece.kind = "double" -> <<"dq">> \o piece.text \o <<"dq", ",">>
    [] piece.kind = "line"   -> <<"/", "/">> \o piece.text \o <<"nl">>
    [] piece.kind = "block"  -> <<"/", "*">> \o piece.text \o <<"*", "/">>

TextOf(pieces) == FlattenSeq([k \in DOMAIN pieces |-> Render(pieces[k])]) \o <<"]">>

(* The place after the first of these, or after the text.                   *)
Past(text, places) == IF places = {} THEN Len(text) + 1 ELSE Min(places) + 1

(* One turn of the loop: from where it stands, the quote it is inside of and *)
(* what it has kept.                                                       *)
ScanStep(text, aware, s) ==
  LET c == text[s.at]
      Next2(x) == c = "/" /\ s.at < Len(text) /\ text[s.at + 1] = x
      Lines == {k \in s.at..Len(text) : text[k] = "nl"}
      Ends == {k \in (s.at + 3)..Len(text) : text[k - 1] = "*" /\ text[k] = "/"}
      Keep(quote) == [at |-> s.at + 1, quote |-> quote, out |-> Append(s.out, c)]
  IN  IF s.at > Len(text) THEN s
      ELSE IF s.quote # Null THEN Keep(IF c = s.quote THEN Null ELSE s.quote)
      ELSE IF aware /\ c \in Quotes THEN Keep(c)
      ELSE IF Next2("/") THEN [s EXCEPT !.at = Past(text, Lines), !.out = Append(@, "nl")]
      ELSE IF Next2("*") THEN [s EXCEPT !.at = Past(text, Ends)]
      ELSE Keep(Null)

Scan(text, aware) ==
  LET scan[n \in Nat] == IF n = 0 THEN [at |-> 1, quote |-> Null, out |-> <<>>]
                         ELSE ScanStep(text, aware, scan[n - 1])
  IN  scan[Len(text)].out

(* Mutant: a scan that does not know it is inside a string.                *)
stripComments_Naive(text) == Scan(text, FALSE)

(* Escapes inside a string are left out: no glob has one.                  *)
stripComments(text) == Scan(text, TRUE)

(* One match: the first quote that is closed opens a string.                *)
MatchStep(text, s) ==
  LET Closes(open) == {k \in (open + 1)..Len(text) : text[k] = text[open]}
      Opens == {k \in s.at..Len(text) : text[k] \in {"sq", "dq"} /\ Closes(k) # {}}
      close == Min(Closes(Min(Opens)))
  IN  IF Opens = {} THEN s
      ELSE [at |-> close + 1, found |-> Append(s.found, SubSeq(text, Min(Opens) + 1, close - 1))]

Strings(text) ==
  LET match[n \in Nat] == IF n = 0 THEN [at |-> 1, found |-> <<>>] ELSE MatchStep(text, match[n - 1])
  IN  match[Len(text)].found

(* The strings before the bracket that ends the array; none without one.    *)
coverageArray(text) ==
  LET brackets == {k \in DOMAIN text : text[k] = "]"}
  IN  IF brackets = {} THEN <<>> ELSE Strings(SubSeq(text, 1, Min(brackets) - 1))

(* What the separator sep leaves of a text.                                 *)
Split(text, sep) ==
  LET cuts == SetToSortSeq({0, Len(text) + 1} \cup {k \in DOMAIN text : text[k] = sep}, <)
  IN  [k \in 1..(Len(cuts) - 1) |-> SubSeq(text, cuts[k] + 1, cuts[k + 1] - 1)]

-------------------------------------------------------------------------------
Closing(glob, open) == {k \in (open + 1)..Len(glob) : glob[k] = "}"}

Unclosed(glob) == \E k \in DOMAIN glob : glob[k] = "{" /\ Closing(glob, k) = {}

(* What the regular expression of a glob matches: match[i, j] of what is left *)
(* of both from there on.                                                  *)
globToRegExp(glob, path) ==
  LET Is(i, text) == IsPrefix(text, SubSeq(glob, i, Len(glob)))
      Runs(j) == {k \in j..(Len(path) + 1) : \A l \in j..(k - 1) : path[l] # "/"}
      match[i \in 1..(Len(glob) + 1), j \in 1..(Len(path) + 1)] ==
        CASE i > Len(glob) -> j > Len(path)
          [] Is(i, <<"*", "*", "/">>) ->
               \/ match[i + 3, j]
               \/ \E k \in (Runs(j) \ {j}) \cap DOMAIN path : path[k] = "/" /\ match[i, k + 1]
          [] Is(i, <<"*", "*">>) /\ ~ Is(i, <<"*", "*", "/">>) ->
               \E k \in j..(Len(path) + 1) : match[i + 2, k]
          [] Is(i, <<"*">>) /\ ~ Is(i, <<"*", "*">>) -> \E k \in Runs(j) : match[i + 1, k]
          [] Is(i, <<"?">>) -> j <= Len(path) /\ path[j] # "/" /\ match[i + 1, j + 1]
          [] Is(i, <<"{">>) ->
               LET close == Min(Closing(glob, i))
               IN  \E alt \in ToSet(Split(SubSeq(glob, i + 1, close - 1), ",")) :
                     /\ IsPrefix(alt, SubSeq(path, j, Len(path)))
                     /\ match[close + 1, j + Len(alt)]
          [] OTHER -> j <= Len(path) /\ path[j] = glob[i] /\ match[i + 1, j + 1]
  IN  match[1, 1]

(* The segments before the first that holds a wildcard, joined; nothing for  *)
(* an exact path and for a pattern that begins with one: neither has a root. *)
globRoot(glob) ==
  LET segments == Split(glob, "/")
      wild == {k \in DOMAIN segments : ToSet(segments[k]) \cap {"*", "?", "{"} # {}}
  IN  IF wild = {} THEN <<>>
      ELSE FlattenSeq([k \in 1..(Min(wild) - 1) |->
                         IF k = 1 THEN segments[k] ELSE <<"/">> \o segments[k]])

-------------------------------------------------------------------------------
(* What the script makes of a config, and of the files in view of it.       *)
IncludeOf(pieces) == coverageArray(stripComments(TextOf(pieces)))

Gated(include) == {f \in Files : \E g \in ToSet(include) : globToRegExp(g, f)}

(* Mutant: only the files that a glob matches are looked for (R56).         *)
Drifted_None(include) == {}

Drifted(include) ==
  LET roots == {globRoot(g) : g \in ToSet(include)} \ {<<>>}
  IN  {f \in Files : \E r \in roots : IsPrefix(r \o <<"/">>, f)} \ Gated(include)

Parsed == [pieces \in Configs |->
             LET include == IncludeOf(pieces)
                 broken == \E g \in ToSet(include) : Unclosed(g)
             IN  [include |-> include, broken |-> broken,
                  gated |-> IF broken THEN {} ELSE Gated(include),
                  drifted |-> IF broken THEN {} ELSE Drifted(include)]]

IsGlob(line) == \E k \in DOMAIN line : line[k] = "*"

Complaints ==
  LET read == Parsed[config]
      missing == tracked \cap ((read.gated \ report) \cup read.drifted)
  IN  IF read.include = <<>> THEN {"no include"}
      ELSE IF report = NoReport THEN {"no report"}
      ELSE IF read.broken THEN {"unclosed"}
      ELSE IF tracked \cap read.gated = {} THEN {"matches nothing"}
      ELSE IF \E line \in exempt : IsGlob(line) THEN {"glob exempt"}
      ELSE (IF missing \subseteq exempt THEN {} ELSE {"undeclared"})
             \cup (IF exempt \subseteq missing THEN {} ELSE {"stale"})

Audit ==
  /\ verdict' = Complaints
  /\ UNCHANGED <<tracked, config, report, exempt>>

-------------------------------------------------------------------------------
LiveGlobs == {config[k].text : k \in Live(config)}

Declared == UNION {Means[g] : g \in LiveGlobs}

(* External: the v8 provider reports what include matches, less exclude;     *)
(* without an include, whatever the tests imported.                        *)
Vitest ==
  /\ IF LiveGlobs = {} THEN report' \in SUBSET tracked
     ELSE \E X \in Excluded : report' = (tracked \cap Declared) \ X
  /\ verdict' = Unaudited
  /\ UNCHANGED <<tracked, config, exempt>>

(* A commit brings or takes a source, a line of the exemptions, or edits the *)
(* config; the report on disk stays that of the last run.                  *)
Commit ==
  /\ \/ \E f \in Files : tracked' = SymDiff(tracked, {f}) /\ UNCHANGED <<config, exempt>>
     \/ \E line \in Exemptions : exempt' = SymDiff(exempt, {line}) /\ UNCHANGED <<tracked, config>>
     \/ config' \in Configs /\ UNCHANGED <<tracked, exempt>>
  /\ verdict' = Unaudited
  /\ UNCHANGED report

Next == Audit \/ Vitest \/ Commit

Spec == Init /\ [][Next]_vars

-------------------------------------------------------------------------------
(* The set of tracked files under a declared source root that the report     *)
(* does not account for must equal coverage-exempt.txt exactly: the gate is  *)
(* green then, and complains of a hole or of a stale line otherwise.  What   *)
(* is declared is read off the author's pieces and what each glob means to   *)
(* its author, not off their text.                                         *)
VerdictIsExact ==
  LET holes == tracked \cap ((Declared \ report) \cup ((UNION {Below[g] : g \in LiveGlobs}) \ Declared))
  IN  verdict \subseteq {"undeclared", "stale"} =>
        /\ "undeclared" \in verdict <=> ~ holes \subseteq exempt
        /\ "stale" \in verdict <=> ~ exempt \subseteq holes

(* The globs the script reads are those that are live in the config, in      *)
(* order, whatever the comments beside them hold (stripComments): a glob in  *)
(* a comment declares nothing, and one that looks like a comment does.       *)
CommentsDeclareNothing ==
  LET live == Live(config)
      nth(k) == Cardinality({j \in live : j <= k})
      include == Parsed[config].include
  IN  /\ DOMAIN include = {nth(k) : k \in live}
      /\ \A k \in live : include[nth(k)] = config[k].text
===============================================================================
