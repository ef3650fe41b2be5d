----------------------------- MODULE PortAnchors -----------------------------
(***************************************************************************)
(* The "# @port" anchors of a ported file and the C++ tree they point into *)
(* (the oracle): tools/port_provenance.py, which places, stamps and checks *)
(* them, and tools/port_review.py, which pairs the two bodies.  Between its*)
(* runs developers edit both sides.  A run reads every file once: updating *)
(* and checking are one step, anchoring is a scan and a step for each line *)
(* it inserts.                                                             *)
(*                                                                         *)
(* A line of the file is a def, a decorator, an anchor or anything else; an*)
(* oracle file is the sequence of places where a symbol stands before a    *)
(* "(".  The tool does not parse C++: it takes a place for a definition if *)
(* a "{" follows sooner than a ";" and the braces behind it close.  A place*)
(* has a "defines" of its own, for a declaration is no such place but the  *)
(* call in `if (f(x)) {` is, and a definition whose braces do not balance, *)
(* counted in strings and comments too, is not.  Of a definition the tool  *)
(* extracts the lines from the symbol's to the one of the closing brace it *)
(* finds: a return type or template head above stays out, and with a brace *)
(* in a string so does the end, or more than the definition gets in.       *)
(* Contents are hashed after normalize, so two of them differ in more than *)
(* line ends or trailing blanks.                                           *)
(***************************************************************************)
EXTENDS Integers, Sequences, FiniteSets, FiniteSetsExt, SequencesExt

CONSTANTS
    Symbol,     \* names of C++ functions
    Hle,        \* those with an HLE-style name (sce..., posix_...)
    Path,       \* oracle files
    Content,    \* what a part of the C++ source can be
    Cpp,        \* what developers write at a place
    Upstream,   \* the oracle as it is first checked out
    MaxLines,   \* bound: lines of the ported file before it is anchored
    MaxEdits    \* bound: edits of the developers

Def(s) == [kind |-> "def", symbol |-> s]
Decorator == [kind |-> "decorator"]
Other == [kind |-> "other"]
Anchor(p, s, sha) == [kind |-> "anchor", path |-> p, symbol |-> s, sha |-> sha]

(* body is extracted and of the definition; rest is of the definition only,*)
(* tail is extracted only.                                                 *)
Nothing == ""
Part == Content \union {Nothing}
PlaceOf == [symbol : Symbol, defines : BOOLEAN, brace : {"none", "open", "closed"},
            body : Part, rest : Part, tail : Part]
Text(d) == <<d.body, d.rest>>
Source(d) == <<d.body, d.tail>>

NotChecked == -1
None == "none"
Unstamped == << >>

ASSUME AnchorAssumption ==
  /\ None \notin Path
  /\ Cpp \subseteq PlaceOf
  /\ DOMAIN Upstream \subseteq Path
  /\ \A p \in DOMAIN Upstream : Upstream[p] \in Seq(PlaceOf)

VARIABLES
    lines,      \* the ported file, or what --autoanchor has made of it so far
    todo,       \* anchors it has still to insert, by the lines of its scan
    oracle,     \* the C++ tree: a sequence of places for each file it has
    verdict,    \* exit code of the last check, if nothing was edited since
    stamped,    \* history: what was hashed for each target at the last update,
                \* what the place was in full, and whether the target was Plain
    edits

anchorVars == <<lines, todo, oracle, verdict, stamped, edits>>

IsAnchor(i) == i \in DOMAIN lines /\ lines[i].kind = "anchor"
Anchors == {i \in DOMAIN lines : IsAnchor(i)}

AnchorInit ==
  /\ lines = << >>
  /\ todo = {}
  /\ oracle = Upstream
  /\ verdict = NotChecked
  /\ stamped = << >>
  /\ edits = 0

------------------------------------------------------------------------------
(* The oracle                                                              *)
------------------------------------------------------------------------------

Spots(p, s) == {i \in DOMAIN oracle[p] : oracle[p][i].symbol = s}

(* What the tool takes for definitions, and what are. *)
Candidates(p, s) == {i \in Spots(p, s) : oracle[p][i].brace = "closed"}
Definitions(p, s) == {i \in Spots(p, s) : oracle[p][i].defines}

MutExtractSymbol(p, s) ==    \* mutant: the first of several candidates will do
  IF p \notin DOMAIN oracle THEN [status |-> "missing-file"]
  ELSE IF Candidates(p, s) = {} THEN [status |-> "missing"]
  ELSE [status |-> "ok", place |-> oracle[p][Min(Candidates(p, s))]]

(* hash_symbol and extract_symbol_source: the place whose Source is hashed.*)
ExtractSymbol(p, s) ==
  IF p \notin DOMAIN oracle THEN [status |-> "missing-file"]
  ELSE CASE Cardinality(Candidates(p, s)) = 0 -> [status |-> "missing"]
         [] Cardinality(Candidates(p, s)) > 1 -> [status |-> "ambiguous"]
         [] OTHER -> LET i == CHOOSE i \in Candidates(p, s) : TRUE
                     IN  [status |-> "ok", place |-> oracle[p][i]]

Resolves(p, s) == ExtractSymbol(p, s).status = "ok"

(* build_oracle_index: the one file with a place that a "{" follows sooner *)
(* than a ";", closed or not, and just one candidate.                      *)
OracleIndex(s) ==
  LET files == {p \in DOMAIN oracle : \E i \in Spots(p, s) : oracle[p][i].brace # "none"}
  IN  IF Cardinality(files) = 1 /\ \A p \in files : Resolves(p, s)
        THEN CHOOSE p \in files : TRUE ELSE None

(* The C++ is written as the tool expects: what it takes for a definition  *)
(* of s is one, whole and nothing besides.                                 *)
Plain(p, s) ==
  /\ Candidates(p, s) = Definitions(p, s)
  /\ \A i \in Definitions(p, s) : oracle[p][i].rest = Nothing /\ oracle[p][i].tail = Nothing

------------------------------------------------------------------------------
(* port_provenance.py                                                      *)
------------------------------------------------------------------------------

(* Above the decorators of the def at i, never between them and it.        *)
Top(i) == Min({j \in 1..i : \A k \in j..(i - 1) : lines[k].kind = "decorator"})

Sites == {i \in DOMAIN lines :
            /\ lines[i].kind = "def"
            /\ lines[i].symbol \in Hle
            /\ ~IsAnchor(Top(i) - 1)
            /\ OracleIndex(lines[i].symbol) # None}

(* --autoanchor: what to insert where is settled by one scan, ...          *)
Autoanchor ==
  /\ todo = {}
  /\ Sites # {}
  /\ todo' = {[at |-> Top(i), symbol |-> lines[i].symbol, path |-> OracleIndex(lines[i].symbol)] :
                i \in Sites}
  /\ verdict' = NotChecked
  /\ UNCHANGED <<lines, oracle, stamped, edits>>

MutLatest(s) == \A t \in todo : s.at <= t.at   \* mutant: the lowest line first

(* ... and the highest line is inserted first: the numbers below stay.     *)
Latest(s) == \A t \in todo : t.at <= s.at

Insert == \E s \in todo :
  /\ Latest(s)
  /\ lines' = InsertAt(lines, s.at, Anchor(s.path, s.symbol, Unstamped))
  /\ todo' = todo \ {s}
  /\ UNCHANGED <<oracle, verdict, stamped, edits>>

Target(i) == <<lines[i].path, lines[i].symbol>>
Current(i) == ExtractSymbol(lines[i].path, lines[i].symbol)

(* --update: every anchor that resolves is stamped anew, a drifted one too;*)
(* one that does not keeps its stamp.                                      *)
Stamp(i) ==
  IF IsAnchor(i) /\ Current(i).status = "ok"
    THEN [lines[i] EXCEPT !.sha = Source(Current(i).place)] ELSE lines[i]

Update ==
  LET done == {i \in Anchors : Current(i).status = "ok"}
  IN  /\ todo = {}
      /\ done # {}
      /\ lines' = [i \in DOMAIN lines |-> Stamp(i)]
      /\ stamped' = [t \in {Target(i) : i \in done} \union DOMAIN stamped |->
                       IF \E i \in done : Target(i) = t
                         THEN [place |-> ExtractSymbol(t[1], t[2]).place, plain |-> Plain(t[1], t[2])]
                         ELSE stamped[t]]
      /\ verdict' = NotChecked
      /\ UNCHANGED <<todo, oracle, edits>>

Status(i) ==
  CASE Current(i).status # "ok" -> "BROKEN"
    [] lines[i].sha = Unstamped -> "BROKEN"
    [] Current(i).status = "ok" /\ lines[i].sha = Source(Current(i).place) -> "OK"
    [] OTHER -> "DRIFTED"

(* The default mode: non-zero for a drifted or broken anchor.              *)
Check ==
  /\ todo = {}
  /\ verdict = NotChecked
  /\ verdict' = IF \E i \in Anchors : Status(i) # "OK" THEN 1 ELSE 0
  /\ UNCHANGED <<lines, todo, oracle, stamped, edits>>

------------------------------------------------------------------------------
(* port_review.py: the body printed beside the C++ of the anchor at i is   *)
(* that of the next line which is not a decorator (0: the file ends).      *)
------------------------------------------------------------------------------

ReviewTarget(i) ==
  LET below == {j \in DOMAIN lines : j > i /\ lines[j].kind # "decorator"}
  IN  IF below = {} THEN 0 ELSE Min(below)

------------------------------------------------------------------------------
(* The developers                                                          *)
------------------------------------------------------------------------------

Edited ==
  /\ todo = {}
  /\ edits < MaxEdits
  /\ edits' = edits + 1
  /\ verdict' = NotChecked
  /\ UNCHANGED <<todo, stamped>>

(* A function is ported, at the top or at the end of the file; an anchor   *)
(* written by hand names any place.                                        *)
Heads(s) == {<< >>, <<Decorator>>} \union {<<Anchor(p, s, Unstamped)>> : p \in Path}

AddDef == \E s \in Symbol : \E head \in Heads(s) :
  LET new == head \o <<Def(s), Other>>
  IN  /\ Edited
      /\ Len(lines) + Len(new) <= MaxLines
      /\ lines' \in {new \o lines, lines \o new}
      /\ UNCHANGED oracle

(* The C++ side: a function is added, declared or called, a place changes, *)
(* or goes; a file goes.                                                   *)
AddCpp == \E p \in DOMAIN oracle, d \in Cpp :
  /\ Edited
  /\ oracle' = [oracle EXCEPT ![p] = Append(@, d)]
  /\ UNCHANGED lines

ChangeCpp == \E p \in DOMAIN oracle, d \in Cpp : \E i \in DOMAIN oracle[p] :
  /\ Edited
  /\ d.symbol = oracle[p][i].symbol
  /\ oracle' = [oracle EXCEPT ![p][i] = d]
  /\ UNCHANGED lines

RemoveCpp == \E p \in DOMAIN oracle : \E i \in DOMAIN oracle[p] :
  /\ Edited
  /\ oracle' = [oracle EXCEPT ![p] = RemoveAt(@, i)]
  /\ UNCHANGED lines

RemoveFile == \E p \in DOMAIN oracle :
  /\ Edited
  /\ oracle' = [q \in DOMAIN oracle \ {p} |-> oracle[q]]
  /\ UNCHANGED lines

AnchorNext ==
  \/ Autoanchor \/ Insert \/ Update \/ Check
  \/ AddDef \/ AddCpp \/ ChangeCpp \/ RemoveCpp \/ RemoveFile

AnchorSpec == AnchorInit /\ [][AnchorNext]_anchorVars

------------------------------------------------------------------------------
(* Properties                                                              *)
------------------------------------------------------------------------------

(* However often a file is anchored and edited, the review (port_review.py)*)
(* puts every anchor beside the def of its own symbol, and no def has two  *)
(* (autoanchor inserts by line numbers taken before the first insertion).  *)
AnchorsStayPut ==
  /\ \A i \in Anchors : /\ ReviewTarget(i) # 0
                        /\ lines[ReviewTarget(i)] = Def(lines[i].symbol)
  /\ \A i, j \in Anchors : ReviewTarget(i) = ReviewTarget(j) => i = j

(* The file of the anchor at i has one definition of its symbol, and it is *)
(* what was there when the target was last stamped.                        *)
InSync(i) ==
  LET p == lines[i].path
      s == lines[i].symbol
  IN  /\ lines[i].sha # Unstamped
      /\ Target(i) \in DOMAIN stamped
      /\ p \in DOMAIN oracle
      /\ \E d \in Definitions(p, s) : /\ Definitions(p, s) = {d}
                                     /\ Text(oracle[p][d]) = Text(stamped[Target(i)].place)

(* The tool's test holds of the anchor's target, now and at its last stamp.*)
AsExpected(i) ==
  /\ lines[i].path \in DOMAIN oracle => Plain(lines[i].path, lines[i].symbol)
  /\ Target(i) \in DOMAIN stamped => stamped[Target(i)].plain

(* A green check (main) has found every anchor in sync where the C++ is    *)
(* written as the tool expects; a red one has a reason: an anchor out of   *)
(* sync, or C++ written otherwise.  Overloads, definitions and files may   *)
(* come and go.  Without the expectation it is wrong both ways, against    *)
(* the docstring ("call sites are ignored") and docs/porting_provenance.md *)
(* ("any real C++ change flips the hash"): a call in a condition breaks an *)
(* anchor, and a change above the symbol's line is not seen.               *)
DriftSeen ==
  /\ verdict = 0 => \A i \in Anchors : AsExpected(i) => InSync(i)
  /\ verdict = 1 => \E i \in Anchors : ~(AsExpected(i) /\ InSync(i))

==============================================================================
