--------------------------- MODULE PortTools_proofs ---------------------------
EXTENDS PortAnchors, PortSuite, BootTrace, FiniteSetTheorems, SequenceTheorems, WellFoundedInduction, TLAPS

(***************************************************************************)
(* The anchors of the ported files, the validation suite and the boot      *)
(* comparisons, for files, oracles and boots of any size, any number of    *)
(* edits and runs, and any port.                                           *)
(***************************************************************************)

------------------------------------------------------------------------------
(* Least elements, finite sets and sequences                               *)
------------------------------------------------------------------------------

LEMMA LeastNat ==
  ASSUME NEW S \in SUBSET Nat, S # {}
  PROVE  \E x \in S : \A y \in S : x <= y
  <1> DEFINE R == OpToRel(<, Nat)
  <1>a. IsWellFoundedOn(R, Nat)
    BY NatLessThanWellFounded
  <1>b. \A x, y \in Nat : x < y => <<x, y>> \in R
    BY DEF OpToRel
  <1> HIDE DEF R
  <1>1. PICK x \in S : \A y \in S : ~(<<y, x>> \in R)
    BY <1>a, WFMin
  <1>2. ASSUME NEW y \in S
        PROVE  x <= y
    <2>1. x \in Nat /\ y \in Nat
      BY <1>2
    <2>2. ~(y < x)
      BY <1>1, <1>2, <1>b, <2>1, Zenon
    <2> QED
      BY <2>1, <2>2
  <1> QED
    BY <1>2

(* Min of the community modules is the least element.                      *)
LEMMA MinIsLeast ==
  ASSUME NEW S \in SUBSET Nat, S # {}
  PROVE  Min(S) \in S /\ \A y \in S : Min(S) <= y
  BY LeastNat DEF Min

(* A finite set laid out as a sequence: all of it, and nothing else.       *)
LEMMA InOrder ==
  ASSUME NEW S, IsFiniteSet(S)
  PROVE  /\ Cardinality(S) \in Nat
         /\ SetToSeq(S) \in [1 .. Cardinality(S) -> S]
         /\ \A x \in S : \E i \in 1 .. Cardinality(S) : SetToSeq(S)[i] = x
  <1> DEFINE n == Cardinality(S)
             f == SetToSeq(S)
  <1>1. n \in Nat /\ \E g : g \in Injection(1 .. n, S)
    BY FS_CardinalityType DEF ExistsBijection, Bijection
  <1>2. f \in [1 .. n -> S] /\ IsInjective(f)
    <2>1. \E g \in [1 .. n -> S] : IsInjective(g)
      BY <1>1 DEF Injection
    <2> QED
      BY <2>1, Zenon DEF SetToSeq
  <1>3. f \in Injection(1 .. n, S)
    BY <1>2 DEF Injection
  <1>4. f \in Surjection(1 .. n, S)
    <2>1. IsFiniteSet(1 .. n) /\ Cardinality(1 .. n) = n
      BY <1>1, FS_Interval
    <2> QED
      BY <1>3, <2>1, FS_Injection
  <1> QED
    BY <1>1, <1>2, <1>4 DEF Surjection

------------------------------------------------------------------------------
(* The anchors                                                             *)
------------------------------------------------------------------------------

AnchorLine == [kind : {"anchor"}, path : Path, symbol : Symbol, sha : (Part \X Part) \union {Unstamped}]
Line == [kind : {"def"}, symbol : Symbol] \union {Decorator, Other} \union AnchorLine

AnchorTypeInv ==
  /\ lines \in Seq(Line)
  /\ todo \subseteq [at : Nat \ {0}, symbol : Symbol, path : Path]
  /\ DOMAIN oracle \subseteq Path
  /\ \A p \in DOMAIN oracle : oracle[p] \in Seq(PlaceOf)
  /\ verdict \in {NotChecked, 0, 1}

(* From here, behind decorators only, the def of s follows.                *)
Leads(ls, from, s) ==
  \E t \in from .. Len(ls) : ls[t] = Def(s) /\ \A k \in from .. t - 1 : ls[k].kind = "decorator"

Placed(ls) == \A i \in 1 .. Len(ls) : ls[i].kind = "anchor" => Leads(ls, i + 1, ls[i].symbol)

(* An anchor still to be inserted goes above the decorators of its def, not*)
(* among them, and no other goes there.                                    *)
Pending ==
  /\ \A s \in todo : /\ Leads(lines, s.at, s.symbol)
                     /\ s.at > 1 => lines[s.at - 1].kind \notin {"anchor", "decorator"}
  /\ \A s, t \in todo : s.at = t.at => s = t
  /\ todo # {} => verdict = NotChecked

(* A stamp is what was hashed at the last update of its target, and all of *)
(* the definition if the tool's test held of it.                           *)
StampsAreLast(ls, st) == \A i \in 1 .. Len(ls) :
  ls[i].kind = "anchor" /\ ls[i].sha # Unstamped =>
    LET t == <<ls[i].path, ls[i].symbol>>
    IN  /\ t \in DOMAIN st
        /\ ls[i].sha = Source(st[t].place)
        /\ st[t].plain => Text(st[t].place) = Source(st[t].place)

AnchorIInv ==
  /\ AnchorTypeInv
  /\ Placed(lines)
  /\ Pending
  /\ StampsAreLast(lines, stamped)
  /\ DriftSeen

LEMMA LineKinds ==
  ASSUME NEW l \in Line
  PROVE  /\ l.kind \in {"def", "decorator", "other", "anchor"}
         /\ l.kind = "def" => l.symbol \in Symbol /\ l = Def(l.symbol)
         /\ l.kind = "anchor" => l \in AnchorLine
  BY DEF Line, AnchorLine, Def, Decorator, Other

LEMMA DefIsDef == ASSUME NEW s PROVE Def(s).kind = "def"
  BY DEF Def

(* The review finds the line an anchor leads to, and no other anchor's.    *)
LEMMA PlacedStayPut ==
  ASSUME AnchorTypeInv, Placed(lines)
  PROVE  AnchorsStayPut
  <1>1. ASSUME NEW i \in Anchors
        PROVE  /\ i \in 1 .. Len(lines)
               /\ lines[i].kind = "anchor"
               /\ ReviewTarget(i) \in i + 1 .. Len(lines)
               /\ lines[ReviewTarget(i)] = Def(lines[i].symbol)
               /\ \A k \in i + 1 .. ReviewTarget(i) - 1 : lines[k].kind = "decorator"
    <2>1. i \in 1 .. Len(lines) /\ lines[i].kind = "anchor" /\ DOMAIN lines = 1 .. Len(lines)
      BY <1>1 DEF Anchors, IsAnchor, AnchorTypeInv
    <2>2. PICK t \in i + 1 .. Len(lines) :
            lines[t] = Def(lines[i].symbol) /\ \A k \in i + 1 .. t - 1 : lines[k].kind = "decorator"
      BY <2>1 DEF Placed, Leads
    <2> DEFINE below == {j \in DOMAIN lines : j > i /\ lines[j].kind # "decorator"}
    <2>3. below \in SUBSET Nat /\ t \in below
      BY <2>1, <2>2, DefIsDef
    <2>4. Min(below) \in below /\ Min(below) <= t
      BY <2>3, MinIsLeast
    <2>5. Min(below) = t
      BY <2>1, <2>2, <2>4
    <2>6. ReviewTarget(i) = t
      BY <2>3, <2>5 DEF ReviewTarget
    <2> QED
      BY <2>1, <2>2, <2>6
  <1>2. ASSUME NEW i \in Anchors, NEW j \in Anchors, i < j
        PROVE  ReviewTarget(i) # ReviewTarget(j)
    <2>1. ReviewTarget(i) # j
      BY <1>1, DefIsDef
    <2>2. j \notin i + 1 .. ReviewTarget(i) - 1
      BY <1>1
    <2> QED
      BY <1>1, <1>2, <2>1, <2>2
  <1>3. \A i, j \in Anchors : ReviewTarget(i) = ReviewTarget(j) => i = j
    <2>1. \A i \in Anchors : i \in Nat
      BY <1>1
    <2> QED
      BY <1>2, <2>1
  <1> QED
    BY <1>1, <1>3 DEF AnchorsStayPut

(* A line that is inserted, and where the rest goes.                       *)
LEMMA InsertedAt ==
  ASSUME NEW s \in Seq(Line), NEW i \in 1 .. Len(s) + 1, NEW e \in Line
  PROVE  /\ InsertAt(s, i, e) \in Seq(Line)
         /\ Len(InsertAt(s, i, e)) = Len(s) + 1
         /\ \A k \in 1 .. Len(s) + 1 :
              InsertAt(s, i, e)[k] = IF k < i THEN s[k] ELSE IF k = i THEN e ELSE s[k - 1]
  <1> DEFINE head == SubSeq(s, 1, i - 1)
             tail == SubSeq(s, i, Len(s))
  <1>1. /\ head \in Seq(Line) /\ Len(head) = i - 1
        /\ \A k \in 1 .. i - 1 : head[k] = s[k]
    BY SubSeqProperties
  <1>2. /\ tail \in Seq(Line) /\ Len(tail) = Len(s) - i + 1
        /\ \A k \in 1 .. Len(s) - i + 1 : tail[k] = s[k + i - 1]
    BY SubSeqProperties
  <1>3. <<e>> \in Seq(Line) /\ Len(<<e>>) = 1 /\ <<e>>[1] = e
    OBVIOUS
  <1>4. InsertAt(s, i, e) = (head \o <<e>>) \o tail
    BY Zenon DEF InsertAt
  <1> HIDE DEF head, tail
  <1>5. /\ head \o <<e>> \in Seq(Line) /\ Len(head \o <<e>>) = i
        /\ \A k \in 1 .. i : (head \o <<e>>)[k] = IF k < i THEN head[k] ELSE e
    BY <1>1, <1>3, ConcatProperties
  <1>6. /\ (head \o <<e>>) \o tail \in Seq(Line)
        /\ Len((head \o <<e>>) \o tail) = Len(s) + 1
        /\ \A k \in 1 .. Len(s) + 1 : ((head \o <<e>>) \o tail)[k] =
             IF k <= i THEN (head \o <<e>>)[k] ELSE tail[k - i]
    BY <1>2, <1>5, ConcatProperties
  <1> QED
    BY <1>1, <1>2, <1>4, <1>5, <1>6

(* A line inserted behind anything but a decorator separates no one.       *)
LEMMA InsertKeepsLeads ==
  ASSUME NEW ls \in Seq(Line), NEW a \in 1 .. Len(ls), NEW e \in Line, NEW f \in 1 .. Len(ls), NEW s,
         a > 1 => ls[a - 1].kind # "decorator",
         Leads(ls, f, s)
  PROVE  /\ f < a => Leads(InsertAt(ls, a, e), f, s)
         /\ f >= a => Leads(InsertAt(ls, a, e), f + 1, s)
  <1> DEFINE new == InsertAt(ls, a, e)
  <1>1. PICK t \in f .. Len(ls) : ls[t] = Def(s) /\ \A k \in f .. t - 1 : ls[k].kind = "decorator"
    BY DEF Leads
  <1>2. /\ Len(new) = Len(ls) + 1
        /\ \A k \in 1 .. Len(ls) + 1 :
             new[k] = IF k < a THEN ls[k] ELSE IF k = a THEN e ELSE ls[k - 1]
    <2>1. a \in 1 .. Len(ls) + 1
      OBVIOUS
    <2> QED
      BY <2>1, InsertedAt
  <1> HIDE DEF new
  <1>3. CASE f < a
    <2>1. t < a
      <3> SUFFICES ASSUME t >= a
                   PROVE  FALSE
        OBVIOUS
      <3>1. a - 1 \in f .. t - 1 /\ a > 1
        BY <1>3
      <3> QED
        BY <1>1, <3>1
    <2>2. new[t] = Def(s) /\ \A k \in f .. t - 1 : new[k].kind = "decorator"
      BY <1>1, <1>2, <2>1
    <2>3. t \in f .. Len(new)
      BY <1>2
    <2>4. Leads(new, f, s)
      BY <2>2, <2>3 DEF Leads
    <2> QED
      BY <1>3, <2>4 DEF new
  <1>4. CASE f >= a
    <2>1. new[t + 1] = Def(s)
      <3>1. t + 1 \in 1 .. Len(ls) + 1 /\ t + 1 > a /\ (t + 1) - 1 = t
        BY <1>4
      <3>2. new[t + 1] = ls[(t + 1) - 1]
        BY <1>2, <3>1
      <3> QED
        BY <1>1, <3>1, <3>2
    <2>2. ASSUME NEW k \in f + 1 .. t
          PROVE  new[k].kind = "decorator"
      <3>1. new[k] = ls[k - 1] /\ k - 1 \in f .. t - 1
        BY <1>2, <1>4
      <3> QED
        BY <1>1, <3>1
    <2>3. t + 1 \in f + 1 .. Len(new) /\ (t + 1) - 1 = t
      BY <1>2
    <2>4. Leads(new, f + 1, s)
      BY <2>1, <2>2, <2>3 DEF Leads
    <2> QED
      BY <1>4, <2>4 DEF new
  <1> QED
    BY <1>3, <1>4

(* Files with their anchors in place may be put together.                  *)
LEMMA ConcatKeepsLeads ==
  ASSUME NEW l1 \in Seq(Line), NEW l2 \in Seq(Line), Placed(l1), Placed(l2)
  PROVE  l1 \o l2 \in Seq(Line) /\ Placed(l1 \o l2)
  <1> DEFINE ls == l1 \o l2
  <1>1. /\ ls \in Seq(Line) /\ Len(ls) = Len(l1) + Len(l2)
        /\ \A i \in 1 .. Len(l1) + Len(l2) :
             ls[i] = IF i <= Len(l1) THEN l1[i] ELSE l2[i - Len(l1)]
    BY ConcatProperties
  <1>2. Len(l1) \in Nat /\ Len(l2) \in Nat
    OBVIOUS
  <1> HIDE DEF ls
  <1>3. ASSUME NEW i \in 1 .. Len(ls), ls[i].kind = "anchor"
        PROVE  Leads(ls, i + 1, ls[i].symbol)
    <2>1. CASE i <= Len(l1)
      <3>1. ls[i] = l1[i]
        BY <1>1, <1>2, <2>1
      <3>2. PICK t \in i + 1 .. Len(l1) :
              l1[t] = Def(l1[i].symbol) /\ \A k \in i + 1 .. t - 1 : l1[k].kind = "decorator"
        BY <1>2, <1>3, <2>1, <3>1 DEF Placed, Leads
      <3>3. /\ t \in i + 1 .. Len(ls) /\ ls[t] = l1[t]
            /\ \A k \in i + 1 .. t - 1 : ls[k] = l1[k]
        BY <1>1, <1>2
      <3> QED
        BY <3>1, <3>2, <3>3 DEF Leads
    <2>2. CASE i > Len(l1)
      <3> DEFINE j == i - Len(l1)
      <3>1. ls[i] = l2[j] /\ j \in 1 .. Len(l2)
        BY <1>1, <1>2, <2>2
      <3>2. PICK t \in j + 1 .. Len(l2) :
              l2[t] = Def(l2[j].symbol) /\ \A k \in j + 1 .. t - 1 : l2[k].kind = "decorator"
        BY <1>3, <3>1 DEF Placed, Leads
      <3>3. t + Len(l1) \in i + 1 .. Len(ls) /\ ls[t + Len(l1)] = l2[t]
        BY <1>1, <1>2, <2>2
      <3>4. ASSUME NEW k \in i + 1 .. t + Len(l1) - 1
            PROVE  ls[k].kind = "decorator"
        <4>1. ls[k] = l2[k - Len(l1)] /\ k - Len(l1) \in j + 1 .. t - 1
          BY <1>1, <1>2, <2>2
        <4> QED
          BY <3>2, <4>1
      <3> QED
        BY <3>1, <3>2, <3>3, <3>4 DEF Leads
    <2> QED
      BY <1>1, <1>2, <2>1, <2>2
  <1> QED
    BY <1>1, <1>3 DEF Placed, ls

(* What is extracted is the one candidate there is.                        *)
LEMMA Extracted ==
  ASSUME AnchorTypeInv, NEW p, NEW s
  PROVE  /\ Resolves(p, s) <=>
              p \in DOMAIN oracle /\ \E d \in DOMAIN oracle[p] : Candidates(p, s) = {d}
         /\ \A d : p \in DOMAIN oracle /\ Candidates(p, s) = {d} =>
              ExtractSymbol(p, s) = [status |-> "ok", place |-> oracle[p][d]]
  <1> DEFINE D == Candidates(p, s)
             n == Cardinality(D)
  <1>1. ASSUME p \in DOMAIN oracle
        PROVE  /\ D \subseteq DOMAIN oracle[p] /\ IsFiniteSet(D) /\ n \in Nat
               /\ n = 1 <=> \E d : D = {d}
    <2>1. D \subseteq DOMAIN oracle[p] /\ DOMAIN oracle[p] = 1 .. Len(oracle[p]) /\ Len(oracle[p]) \in Nat
      BY <1>1 DEF AnchorTypeInv, Candidates, Spots
    <2>2. IsFiniteSet(1 .. Len(oracle[p]))
      BY <2>1, FS_Interval
    <2>3. IsFiniteSet(D)
      BY <2>1, <2>2, FS_Subset
    <2>4. n \in Nat
      BY <2>3, FS_CardinalityType
    <2>5. n = 1 <=> \E d : D = {d}
      BY <2>3, FS_Singleton
    <2> QED
      BY <2>1, <2>3, <2>4, <2>5
  <1>2. ASSUME p \in DOMAIN oracle, NEW d, D = {d}
        PROVE  ExtractSymbol(p, s) = [status |-> "ok", place |-> oracle[p][d]]
    <2>1. n = 1
      BY <1>1, <1>2
    <2>2. (CHOOSE i \in Candidates(p, s) : TRUE) = d
      BY <1>2
    <2> HIDE DEF n, D
    <2>3. Cardinality(Candidates(p, s)) = 1
      BY <2>1 DEF n, D
    <2>4. ~(1 = 0) /\ ~(1 > 1)
      OBVIOUS
    <2>5. ExtractSymbol(p, s) =
            [status |-> "ok", place |-> oracle[p][CHOOSE i \in Candidates(p, s) : TRUE]]
      BY <1>2, <2>3, <2>4, Zenon DEF ExtractSymbol
    <2> QED
      BY <2>2, <2>5
  <1>3. ASSUME p \in DOMAIN oracle, n # 1
        PROVE  ExtractSymbol(p, s).status # "ok"
    <2>1. Cardinality(Candidates(p, s)) = 0 \/ Cardinality(Candidates(p, s)) > 1
      BY <1>1, <1>3
    <2> QED
      BY <1>3, <2>1 DEF ExtractSymbol
  <1>4. p \notin DOMAIN oracle => ExtractSymbol(p, s).status # "ok"
    BY DEF ExtractSymbol
  <1> QED
    BY <1>1, <1>2, <1>3, <1>4 DEF Resolves

(* An anchor is stamped with what is hashed in its target now, which is the*)
(* definition where the tool's test holds.                                 *)
LEMMA SourceTyped ==
  ASSUME AnchorTypeInv, NEW p, NEW s, Resolves(p, s)
  PROVE  /\ Source(ExtractSymbol(p, s).place) \in Part \X Part
         /\ Plain(p, s) => Text(ExtractSymbol(p, s).place) = Source(ExtractSymbol(p, s).place)
  <1>1. PICK d \in DOMAIN oracle[p] : p \in DOMAIN oracle /\ Candidates(p, s) = {d}
    BY Extracted
  <1>2. oracle[p][d] \in PlaceOf
    BY <1>1 DEF AnchorTypeInv
  <1>3. ExtractSymbol(p, s).place = oracle[p][d]
    BY <1>1, Extracted
  <1>4. ASSUME Plain(p, s)
        PROVE  Text(oracle[p][d]) = Source(oracle[p][d])
    <2>1. d \in Definitions(p, s)
      BY <1>1, <1>4 DEF Plain
    <2> QED
      BY <1>4, <2>1 DEF Plain, Text, Source
  <1> QED
    BY <1>2, <1>3, <1>4 DEF PlaceOf, Source

LEMMA IndexTyped ==
  ASSUME AnchorTypeInv, NEW s, OracleIndex(s) # None
  PROVE  OracleIndex(s) \in Path
  <1> DEFINE files == {p \in DOMAIN oracle : \E i \in Spots(p, s) : oracle[p][i].brace # "none"}
  <1>1. Cardinality(files) = 1 /\ OracleIndex(s) = CHOOSE p \in files : TRUE
    BY DEF OracleIndex
  <1>2. files # {}
    BY <1>1, FS_EmptySet
  <1> QED
    BY <1>1, <1>2 DEF AnchorTypeInv

(* The place for the anchor of a def, above all its decorators.            *)
LEMMA TopOfDef ==
  ASSUME AnchorTypeInv, NEW i \in 1 .. Len(lines)
  PROVE  /\ Top(i) \in 1 .. i
         /\ \A k \in Top(i) .. i - 1 : lines[k].kind = "decorator"
         /\ Top(i) > 1 => lines[Top(i) - 1].kind # "decorator"
  <1> DEFINE S == {j \in 1 .. i : \A k \in j .. (i - 1) : lines[k].kind = "decorator"}
  <1>1. S \in SUBSET Nat /\ i \in S
    OBVIOUS
  <1>2. Top(i) \in S /\ \A j \in S : Top(i) <= j
    BY <1>1, MinIsLeast DEF Top
  <1>3. ASSUME Top(i) > 1, lines[Top(i) - 1].kind = "decorator"
        PROVE  FALSE
    <2>1. Top(i) - 1 \in S
      BY <1>2, <1>3
    <2> QED
      BY <1>2, <2>1
  <1> QED
    BY <1>2, <1>3

LEMMA AnchorsStart ==
  ASSUME AnchorInit
  PROVE  AnchorIInv
  <1>1. lines \in Seq(Line) /\ Len(lines) = 0
    BY DEF AnchorInit
  <1>2. AnchorTypeInv
    BY <1>1, AnchorAssumption DEF AnchorInit, AnchorTypeInv
  <1>3. Placed(lines) /\ StampsAreLast(lines, stamped)
    BY <1>1 DEF Placed, StampsAreLast
  <1> QED
    BY <1>2, <1>3 DEF AnchorIInv, AnchorInit, Pending, DriftSeen, NotChecked

(* The scan leaves the file as it is.                                      *)
LEMMA AutoanchorKeeps ==
  ASSUME AnchorIInv, Autoanchor
  PROVE  AnchorIInv'
  <1> USE DEF AnchorIInv
  <1>1. lines' = lines /\ oracle' = oracle /\ stamped' = stamped /\ verdict' = NotChecked
    BY DEF Autoanchor
  <1> DEFINE todoOf(i) == [at |-> Top(i), symbol |-> lines[i].symbol, path |-> OracleIndex(lines[i].symbol)]
  <1>2. ASSUME NEW i \in Sites
        PROVE  /\ i \in 1 .. Len(lines)
               /\ lines[i] = Def(lines[i].symbol) /\ lines[i].symbol \in Symbol
               /\ OracleIndex(lines[i].symbol) \in Path
               /\ Top(i) \in 1 .. i
               /\ \A k \in Top(i) .. i - 1 : lines[k].kind = "decorator"
               /\ Top(i) > 1 => lines[Top(i) - 1].kind \notin {"anchor", "decorator"}
    <2>1. i \in 1 .. Len(lines) /\ lines[i] \in Line /\ lines[i].kind = "def"
      BY DEF Sites, AnchorTypeInv
    <2>2. OracleIndex(lines[i].symbol) \in Path
      BY IndexTyped DEF Sites
    <2>3. Top(i) > 1 => lines[Top(i) - 1].kind # "anchor"
      <3>1. Top(i) \in 1 .. i
        BY <2>1, TopOfDef
      <3>2. Top(i) > 1 => Top(i) - 1 \in DOMAIN lines
        BY <2>1, <3>1
      <3> QED
        BY <3>2 DEF Sites, IsAnchor
    <2> QED
      BY <2>1, <2>2, <2>3, LineKinds, TopOfDef
  <1>3. todo' = {todoOf(i) : i \in Sites}
    BY DEF Autoanchor
  <1>4. AnchorTypeInv'
    <2>1. \A i \in Sites : Top(i) \in Nat \ {0}
      BY <1>2
    <2>2. todo' \subseteq [at : Nat \ {0}, symbol : Symbol, path : Path]
      BY <1>2, <1>3, <2>1
    <2> QED
      BY <1>1, <2>2 DEF AnchorTypeInv
  <1>5. ASSUME NEW s \in todo'
        PROVE  Leads(lines, s.at, s.symbol) /\ (s.at > 1 => lines[s.at - 1].kind \notin {"anchor", "decorator"})
    <2>1. PICK i \in Sites : s = todoOf(i)
      BY <1>3
    <2>2. i \in Top(i) .. Len(lines)
      BY <1>2
    <2>3. Leads(lines, Top(i), lines[i].symbol)
      BY <1>2, <2>2 DEF Leads
    <2> QED
      BY <1>2, <2>1, <2>3
  <1>6. ASSUME NEW i \in Sites, NEW j \in Sites, Top(i) = Top(j), i < j
        PROVE  FALSE
    <2>1. i \in Top(j) .. j - 1
      BY <1>2, <1>6
    <2>2. lines[i].kind = "decorator" /\ lines[i].kind = "def"
      BY <1>2, <2>1, DefIsDef
    <2> QED
      BY <2>2
  <1>7. ASSUME NEW s \in todo', NEW t \in todo', s.at = t.at
        PROVE  s = t
    <2>1. PICK i \in Sites : s = todoOf(i)
      BY <1>3
    <2>2. PICK j \in Sites : t = todoOf(j)
      BY <1>3
    <2>3. i \in Nat /\ j \in Nat /\ Top(i) = Top(j)
      BY <1>2, <1>7, <2>1, <2>2
    <2>4. i = j
      BY <1>6, <2>3
    <2> QED
      BY <2>1, <2>2, <2>4
  <1>8. Pending'
    BY <1>1, <1>5, <1>7 DEF Pending
  <1>9. DriftSeen'
    BY <1>1 DEF DriftSeen, NotChecked
  <1> QED
    BY <1>1, <1>4, <1>8, <1>9

(* Inserted highest first, an anchor moves no line that is still to get one.*)
LEMMA InsertKeeps ==
  ASSUME AnchorIInv, Insert
  PROVE  AnchorIInv'
  <1> USE DEF AnchorIInv
  <1>1. PICK s \in todo :
          /\ Latest(s)
          /\ lines' = InsertAt(lines, s.at, Anchor(s.path, s.symbol, Unstamped))
          /\ todo' = todo \ {s}
          /\ UNCHANGED <<oracle, verdict, stamped, edits>>
    BY DEF Insert
  <1> DEFINE a == s.at
             e == Anchor(s.path, s.symbol, Unstamped)
  <1>2. /\ lines \in Seq(Line) /\ e \in Line /\ e.kind = "anchor"
        /\ e.symbol = s.symbol /\ e.sha = Unstamped
        /\ \A t \in todo : t.at \in Nat \ {0}
    BY DEF AnchorTypeInv, Line, AnchorLine, Anchor
  <1>3. \A f, y : Leads(lines, f, y) /\ f \in Nat \ {0} => f \in 1 .. Len(lines)
    BY <1>2 DEF Leads
  <1>4. /\ a \in 1 .. Len(lines) /\ Leads(lines, a, s.symbol)
        /\ a > 1 => lines[a - 1].kind \notin {"anchor", "decorator"}
    BY <1>2, <1>3 DEF Pending
  <1>5. /\ lines' \in Seq(Line) /\ Len(lines') = Len(lines) + 1
        /\ \A k \in 1 .. Len(lines) + 1 :
             lines'[k] = IF k < a THEN lines[k] ELSE IF k = a THEN e ELSE lines[k - 1]
    <2>1. a \in 1 .. Len(lines) + 1
      BY <1>4
    <2>2. lines' = InsertAt(lines, a, e)
      BY <1>1
    <2>3. lines \in Seq(Line) /\ e \in Line
      BY <1>2
    <2> HIDE DEF a, e
    <2>4. /\ InsertAt(lines, a, e) \in Seq(Line) /\ Len(InsertAt(lines, a, e)) = Len(lines) + 1
          /\ \A k \in 1 .. Len(lines) + 1 : InsertAt(lines, a, e)[k] =
               IF k < a THEN lines[k] ELSE IF k = a THEN e ELSE lines[k - 1]
      BY <2>1, <2>3, InsertedAt
    <2> QED
      BY <2>2, <2>4
  <1>6. verdict' = verdict /\ verdict = NotChecked /\ oracle' = oracle /\ stamped' = stamped
    BY <1>1 DEF Pending
  <1> HIDE DEF e
  <1>7. ASSUME NEW f \in 1 .. Len(lines), NEW y, Leads(lines, f, y)
        PROVE  /\ f < a => Leads(lines', f, y)
               /\ f >= a => Leads(lines', f + 1, y)
    <2>1. a > 1 => lines[a - 1].kind # "decorator"
      BY <1>4
    <2>2. lines' = InsertAt(lines, a, e)
      BY <1>1 DEF e
    <2> HIDE DEF a
    <2> QED
      BY <1>2, <1>4, <1>7, <2>1, <2>2, InsertKeepsLeads
  <1> HIDE DEF a
  <1>8. Placed(lines')
    <2> SUFFICES ASSUME NEW i \in 1 .. Len(lines'), lines'[i].kind = "anchor"
                 PROVE  Leads(lines', i + 1, lines'[i].symbol)
      BY DEF Placed
    <2>0. i \in Nat /\ a \in Nat /\ i \in 1 .. Len(lines) + 1
      BY <1>4, <1>5
    <2>1. CASE i < a
      <3>1. lines'[i] = lines[i] /\ i \in 1 .. Len(lines)
        BY <1>4, <1>5, <2>0, <2>1
      <3>2. i # a - 1
        <4> SUFFICES ASSUME i = a - 1
                     PROVE  FALSE
          OBVIOUS
        <4> QED
          BY <1>4, <2>0, <3>1
      <3>3. Leads(lines, i + 1, lines[i].symbol)
        BY <3>1 DEF Placed
      <3>4. i + 1 \in 1 .. Len(lines) /\ i + 1 < a
        BY <1>4, <2>0, <2>1, <3>2
      <3> QED
        BY <1>7, <3>1, <3>3, <3>4
    <2>2. CASE i = a
      <3>1. lines'[i] = e
        BY <1>5, <2>0, <2>2
      <3>2. Leads(lines', a + 1, s.symbol)
        BY <1>4, <1>7, <2>0
      <3> QED
        BY <1>2, <2>2, <3>1, <3>2
    <2>3. CASE i > a
      <3>1. lines'[i] = lines[i - 1] /\ i - 1 \in 1 .. Len(lines)
        BY <1>5, <2>0, <2>3, <1>4
      <3>2. Leads(lines, i, lines[i - 1].symbol)
        <4>1. Leads(lines, (i - 1) + 1, lines[i - 1].symbol)
          BY <3>1 DEF Placed
        <4>2. (i - 1) + 1 = i
          BY <2>0
        <4> QED
          BY <4>1, <4>2
      <3>3. i \in 1 .. Len(lines) /\ i >= a
        BY <1>3, <2>0, <2>3, <3>2
      <3> QED
        BY <1>7, <3>1, <3>2, <3>3
    <2> QED
      BY <2>0, <2>1, <2>2, <2>3
  <1>9. ASSUME NEW t \in todo'
        PROVE  /\ t.at < a
               /\ Leads(lines', t.at, t.symbol)
               /\ t.at > 1 => lines'[t.at - 1].kind \notin {"anchor", "decorator"}
    <2>1. t \in todo /\ t # s /\ t.at \in Nat \ {0} /\ a \in Nat
      BY <1>1, <1>2, <1>4
    <2>2. t.at <= a /\ t.at # a
      BY <1>1, <2>1 DEF Latest, Pending, a
    <2>3. Leads(lines, t.at, t.symbol) /\ (t.at > 1 => lines[t.at - 1].kind \notin {"anchor", "decorator"})
      BY <2>1 DEF Pending
    <2>4. t.at \in 1 .. Len(lines)
      BY <1>3, <2>1, <2>3
    <2>5. t.at > 1 => lines'[t.at - 1] = lines[t.at - 1]
      <3>1. t.at > 1 => t.at - 1 \in 1 .. Len(lines) + 1 /\ t.at - 1 < a
        BY <2>1, <2>2, <2>4
      <3> QED
        BY <1>5, <3>1
    <2> QED
      BY <1>7, <2>1, <2>2, <2>3, <2>4, <2>5
  <1>10. StampsAreLast(lines', stamped')
    <2> SUFFICES ASSUME NEW i \in 1 .. Len(lines'), lines'[i].kind = "anchor", lines'[i].sha # Unstamped
                 PROVE  LET t == <<lines'[i].path, lines'[i].symbol>>
                        IN  /\ t \in DOMAIN stamped
                            /\ lines'[i].sha = Source(stamped[t].place)
                            /\ stamped[t].plain => Text(stamped[t].place) = Source(stamped[t].place)
      BY <1>6, Zenon DEF StampsAreLast
    <2>1. i # a
      BY <1>2, <1>5
    <2>2. \E k \in 1 .. Len(lines) : lines'[i] = lines[k]
      <3>1. i \in Nat /\ a \in 1 .. Len(lines) /\ i \in 1 .. Len(lines) + 1
        BY <1>4, <1>5
      <3>2. IF i < a THEN lines'[i] = lines[i] /\ i \in 1 .. Len(lines)
                     ELSE lines'[i] = lines[i - 1] /\ i - 1 \in 1 .. Len(lines)
        BY <1>5, <2>1, <3>1
      <3> QED
        BY <3>2
    <2> QED
      BY <2>2 DEF StampsAreLast
  <1>11. AnchorTypeInv'
    BY <1>1, <1>5, <1>6 DEF AnchorTypeInv
  <1>12. Pending'
    BY <1>1, <1>6, <1>9 DEF Pending
  <1>13. DriftSeen'
    BY <1>6 DEF DriftSeen, NotChecked
  <1> QED
    BY <1>8, <1>10, <1>11, <1>12, <1>13

(* What is stamped is what is recorded as stamped, target by target.       *)
LEMMA UpdateKeeps ==
  ASSUME AnchorIInv, Update
  PROVE  AnchorIInv'
  <1> USE DEF AnchorIInv
  <1> DEFINE done == {i \in Anchors : Current(i).status = "ok"}
             targets == {Target(i) : i \in done}
  <1>1. /\ lines' = [i \in DOMAIN lines |-> Stamp(i)]
        /\ stamped' = [t \in targets \union DOMAIN stamped |->
                         IF \E i \in done : Target(i) = t
                           THEN [place |-> ExtractSymbol(t[1], t[2]).place, plain |-> Plain(t[1], t[2])]
                           ELSE stamped[t]]
        /\ verdict' = NotChecked /\ todo = {} /\ todo' = todo /\ oracle' = oracle
    BY DEF Update
  <1>2. lines \in Seq(Line) /\ DOMAIN lines = 1 .. Len(lines) /\ Len(lines) \in Nat
    BY DEF AnchorTypeInv
  <1>3. ASSUME NEW i \in 1 .. Len(lines), i \in done
        PROVE  /\ lines[i] \in AnchorLine
               /\ Stamp(i) = [lines[i] EXCEPT !.sha = Source(ExtractSymbol(lines[i].path, lines[i].symbol).place)]
               /\ Source(ExtractSymbol(lines[i].path, lines[i].symbol).place) \in Part \X Part
               /\ Plain(lines[i].path, lines[i].symbol) =>
                    Text(ExtractSymbol(lines[i].path, lines[i].symbol).place) =
                      Source(ExtractSymbol(lines[i].path, lines[i].symbol).place)
    <2>1. lines[i] \in Line /\ lines[i].kind = "anchor"
      BY <1>2, <1>3 DEF Anchors, IsAnchor
    <2>2. Resolves(lines[i].path, lines[i].symbol)
      BY <1>3 DEF Resolves, Current
    <2>3. Stamp(i) = [lines[i] EXCEPT !.sha = Source(Current(i).place)]
      BY <1>3, Zenon DEF Stamp, Anchors
    <2> QED
      BY <2>1, <2>2, <2>3, LineKinds, SourceTyped DEF Current
  <1>4. ASSUME NEW i \in 1 .. Len(lines), i \notin done
        PROVE  Stamp(i) = lines[i]
    BY <1>2, <1>4 DEF Stamp, Anchors, IsAnchor
  <1>5. ASSUME NEW i \in 1 .. Len(lines)
        PROVE  /\ Stamp(i) \in Line
               /\ Stamp(i).kind = lines[i].kind
               /\ lines[i].kind = "anchor" => Stamp(i).symbol = lines[i].symbol /\ Stamp(i).path = lines[i].path
               /\ lines[i].kind # "anchor" => Stamp(i) = lines[i]
    <2>1. CASE i \in done
      <3>1. Stamp(i) \in AnchorLine
        BY <1>3, <2>1 DEF AnchorLine
      <3>2. Stamp(i).symbol = lines[i].symbol /\ Stamp(i).path = lines[i].path /\ Stamp(i).kind = "anchor"
        BY <1>3, <2>1 DEF AnchorLine
      <3>3. lines[i].kind = "anchor"
        BY <1>3, <2>1 DEF AnchorLine
      <3> QED
        BY <3>1, <3>2, <3>3 DEF Line
    <2>2. CASE i \notin done
      BY <1>2, <1>4, <2>2
    <2> QED
      BY <2>1, <2>2
  <1>6. lines' \in Seq(Line) /\ Len(lines') = Len(lines) /\ \A i \in 1 .. Len(lines) : lines'[i] = Stamp(i)
    BY <1>1, <1>2, <1>5
  <1>7. ASSUME NEW f \in Nat \ {0}, NEW y, Leads(lines, f, y)
        PROVE  Leads(lines', f, y)
    <2>1. PICK t \in f .. Len(lines) : lines[t] = Def(y) /\ \A k \in f .. t - 1 : lines[k].kind = "decorator"
      BY <1>7 DEF Leads
    <2>2. lines'[t] = Def(y)
      BY <1>2, <1>5, <1>6, <2>1, DefIsDef
    <2>3. \A k \in f .. t - 1 : lines'[k].kind = "decorator"
      BY <1>2, <1>5, <1>6, <2>1
    <2> QED
      BY <1>6, <2>1, <2>2, <2>3 DEF Leads
  <1>8. Placed(lines')
    <2> SUFFICES ASSUME NEW i \in 1 .. Len(lines), lines'[i].kind = "anchor"
                 PROVE  Leads(lines', i + 1, lines'[i].symbol)
      BY <1>6 DEF Placed
    <2>1. lines[i].kind = "anchor" /\ lines'[i].symbol = lines[i].symbol
      BY <1>5, <1>6
    <2>2. Leads(lines, i + 1, lines[i].symbol)
      BY <2>1 DEF Placed
    <2> QED
      BY <1>7, <2>1, <2>2
  <1>9. StampsAreLast(lines', stamped')
    <2> SUFFICES ASSUME NEW i \in 1 .. Len(lines), lines'[i].kind = "anchor", lines'[i].sha # Unstamped
                 PROVE  LET t == <<lines'[i].path, lines'[i].symbol>>
                        IN  /\ t \in DOMAIN stamped'
                            /\ lines'[i].sha = Source(stamped'[t].place)
                            /\ stamped'[t].plain => Text(stamped'[t].place) = Source(stamped'[t].place)
      BY <1>6, Zenon DEF StampsAreLast
    <2> DEFINE t == Target(i)
    <2>1. lines[i].kind = "anchor" /\ t = <<lines'[i].path, lines'[i].symbol>>
      BY <1>5, <1>6 DEF Target
    <2>2. /\ DOMAIN stamped' = targets \union DOMAIN stamped
          /\ t \in targets =>
               stamped'[t] = [place |-> ExtractSymbol(t[1], t[2]).place, plain |-> Plain(t[1], t[2])]
          /\ t \in DOMAIN stamped \ targets => stamped'[t] = stamped[t]
      BY <1>1
    <2>3. CASE i \in done
      <3>1. t \in targets /\ t[1] = lines[i].path /\ t[2] = lines[i].symbol
        BY <2>3 DEF Target
      <3>2. lines'[i].sha = Source(ExtractSymbol(lines[i].path, lines[i].symbol).place)
        BY <1>3, <1>6, <2>3 DEF AnchorLine
      <3>3. Plain(lines[i].path, lines[i].symbol) =>
              Text(ExtractSymbol(lines[i].path, lines[i].symbol).place) =
                Source(ExtractSymbol(lines[i].path, lines[i].symbol).place)
        BY <1>3, <2>3
      <3> HIDE DEF targets, t
      <3>4. /\ t \in DOMAIN stamped'
            /\ stamped'[t].place = ExtractSymbol(lines[i].path, lines[i].symbol).place
            /\ stamped'[t].plain <=> Plain(lines[i].path, lines[i].symbol)
        <4> DEFINE place == ExtractSymbol(lines[i].path, lines[i].symbol).place
                   plain == Plain(lines[i].path, lines[i].symbol)
                   last == stamped'[t]
        <4>1. t \in DOMAIN stamped' /\ last = [place |-> place, plain |-> plain]
          BY <2>2, <3>1, Zenon
        <4> HIDE DEF place, plain, last
        <4>2. last.place = place /\ last.plain = plain
          BY <4>1
        <4> QED
          BY <4>1, <4>2, Zenon DEF place, plain, last
      <3> QED
        BY <2>1, <3>2, <3>3, <3>4
    <2>4. CASE i \notin done
      <3>1. lines'[i] = lines[i]
        BY <1>4, <1>6, <2>4
      <3>2. /\ t \in DOMAIN stamped /\ lines'[i].sha = Source(stamped[t].place)
            /\ stamped[t].plain => Text(stamped[t].place) = Source(stamped[t].place)
        BY <2>1, <3>1 DEF StampsAreLast
      <3>3. t \notin targets
        <4> SUFFICES ASSUME NEW j \in done, t = Target(j)
                     PROVE  FALSE
          OBVIOUS
        <4>1. Current(i) = Current(j)
          BY DEF Target, Current
        <4>2. i \in Anchors
          BY <1>2, <2>1 DEF Anchors, IsAnchor
        <4> QED
          BY <2>4, <4>1, <4>2
      <3> HIDE DEF targets, t
      <3> QED
        BY <2>1, <2>2, <3>2, <3>3
    <2> QED
      BY <2>3, <2>4
  <1>10. AnchorTypeInv'
    BY <1>1, <1>6 DEF AnchorTypeInv
  <1>11. Pending' /\ DriftSeen'
    BY <1>1 DEF Pending, DriftSeen, NotChecked
  <1> QED
    BY <1>8, <1>9, <1>10, <1>11

(* Of the anchors stamped as recorded, where the tool's test holds, those  *)
(* found "OK" are the ones in sync.                                        *)
LEMMA OkIsInSync ==
  ASSUME AnchorIInv, NEW i \in Anchors, AsExpected(i)
  PROVE  Status(i) = "OK" <=> InSync(i)
  <1> DEFINE p == lines[i].path
             s == lines[i].symbol
  <1>0. AnchorTypeInv
    BY DEF AnchorIInv
  <1>1. i \in 1 .. Len(lines) /\ lines[i].kind = "anchor" /\ lines[i] \in Line
    BY DEF AnchorIInv, AnchorTypeInv, Anchors, IsAnchor
  <1>2. lines[i].sha # Unstamped =>
          /\ Target(i) \in DOMAIN stamped
          /\ lines[i].sha = Source(stamped[Target(i)].place)
          /\ lines[i].sha = Text(stamped[Target(i)].place)
    BY <1>1 DEF AnchorIInv, StampsAreLast, Target, AsExpected
  <1>3. Status(i) = "OK" <=>
          Resolves(p, s) /\ lines[i].sha # Unstamped /\ lines[i].sha = Source(Current(i).place)
    <2>1. CASE Current(i).status # "ok"
      <3>1. Status(i) = "BROKEN"
        BY <2>1, Zenon DEF Status
      <3> QED
        BY <2>1, <3>1 DEF Resolves, Current
    <2>2. CASE Current(i).status = "ok"
      <3>1. Resolves(p, s)
        BY <2>2 DEF Resolves, Current
      <3>2. CASE lines[i].sha = Unstamped
        <4>1. Source(Current(i).place) # Unstamped
          BY DEF Source, Unstamped
        <4>2. Status(i) = "BROKEN"
          BY <2>2, <3>2, <4>1, Zenon DEF Status
        <4> QED
          BY <3>2, <4>2
      <3>3. CASE lines[i].sha # Unstamped /\ lines[i].sha = Source(Current(i).place)
        <4>1. Status(i) = "OK"
          BY <2>2, <3>3, Zenon DEF Status
        <4> QED
          BY <3>1, <3>3, <4>1
      <3>4. CASE lines[i].sha # Unstamped /\ lines[i].sha # Source(Current(i).place)
        <4>1. Status(i) = "DRIFTED"
          BY <2>2, <3>4, Zenon DEF Status
        <4> QED
          BY <3>4, <4>1
      <3> QED
        BY <3>2, <3>3, <3>4
    <2> QED
      BY <2>1, <2>2
  <1>4. ASSUME p \in DOMAIN oracle, NEW d, Candidates(p, s) = {d}
        PROVE  /\ Definitions(p, s) = {d}
               /\ Source(Current(i).place) = Text(oracle[p][d])
    <2>1. Plain(p, s)
      BY <1>4 DEF AsExpected
    <2>2. Definitions(p, s) = {d}
      BY <1>4, <2>1 DEF Plain
    <2>3. Current(i).place = oracle[p][d]
      BY <1>0, <1>4, Extracted DEF Current
    <2>4. Source(oracle[p][d]) = Text(oracle[p][d])
      BY <2>1, <2>2 DEF Plain, Source, Text
    <2> QED
      BY <2>2, <2>3, <2>4
  <1>5. ASSUME Status(i) = "OK"
        PROVE  InSync(i)
    <2>1. PICK d \in DOMAIN oracle[p] : p \in DOMAIN oracle /\ Candidates(p, s) = {d}
      BY <1>3, <1>0, <1>5, Extracted
    <2>2. Definitions(p, s) = {d} /\ Source(Current(i).place) = Text(oracle[p][d])
      BY <1>4, <2>1
    <2>3. Text(oracle[p][d]) = Text(stamped[Target(i)].place)
      BY <1>2, <1>3, <1>5, <2>2
    <2> QED
      BY <1>2, <1>3, <1>5, <2>1, <2>2, <2>3 DEF InSync
  <1>6. ASSUME InSync(i)
        PROVE  Status(i) = "OK"
    <2>1. /\ p \in DOMAIN oracle /\ lines[i].sha # Unstamped
          /\ \E d \in Definitions(p, s) : /\ Definitions(p, s) = {d}
                                         /\ Text(oracle[p][d]) = Text(stamped[Target(i)].place)
      BY <1>6 DEF InSync
    <2>2. PICK d \in Definitions(p, s) : /\ Definitions(p, s) = {d}
                                        /\ Text(oracle[p][d]) = Text(stamped[Target(i)].place)
      BY <2>1
    <2>3. Candidates(p, s) = {d} /\ d \in DOMAIN oracle[p]
      BY <2>1, <2>2 DEF AsExpected, Plain, Definitions, Spots
    <2>4. Resolves(p, s) /\ Source(Current(i).place) = Text(oracle[p][d])
      BY <1>0, <1>4, <2>1, <2>3, Extracted
    <2> QED
      BY <1>2, <1>3, <2>1, <2>2, <2>4
  <1> QED
    BY <1>5, <1>6

LEMMA CheckKeeps ==
  ASSUME AnchorIInv, Check
  PROVE  AnchorIInv'
  <1>1. /\ todo = {}
        /\ verdict' = IF \E i \in Anchors : Status(i) # "OK" THEN 1 ELSE 0
        /\ lines' = lines /\ todo' = todo /\ oracle' = oracle /\ stamped' = stamped
    BY DEF Check
  <1>2. AnchorTypeInv' /\ Pending'
    BY <1>1 DEF AnchorIInv, AnchorTypeInv, Pending
  <1>3. Anchors' = Anchors /\ \A i \in Anchors : (AsExpected(i)' <=> AsExpected(i)) /\ (InSync(i)' <=> InSync(i))
    BY <1>1 DEF Anchors, IsAnchor, InSync, AsExpected, Target, Plain, Candidates, Definitions, Spots
  <1>4. /\ verdict' = 0 => \A i \in Anchors : AsExpected(i) => InSync(i)
        /\ verdict' = 1 => \E i \in Anchors : ~(AsExpected(i) /\ InSync(i))
    BY <1>1, OkIsInSync
  <1>5. DriftSeen'
    BY <1>3, <1>4 DEF DriftSeen
  <1> QED
    BY <1>1, <1>2, <1>5 DEF AnchorIInv

(* A ported function brings its anchor and its decorator along.            *)
LEMMA AddDefKeeps ==
  ASSUME AnchorIInv, AddDef
  PROVE  AnchorIInv'
  <1> USE DEF AnchorIInv
  <1>0. PICK s \in Symbol : \E head \in Heads(s) :
          /\ Edited
          /\ lines' \in {(head \o <<Def(s), Other>>) \o lines, lines \o (head \o <<Def(s), Other>>)}
          /\ oracle' = oracle
    BY DEF AddDef
  <1>1. PICK head \in Heads(s) :
          /\ Edited
          /\ lines' \in {(head \o <<Def(s), Other>>) \o lines, lines \o (head \o <<Def(s), Other>>)}
          /\ oracle' = oracle
    BY <1>0
  <1> DEFINE new == head \o <<Def(s), Other>>
  <1>2. todo = {} /\ todo' = {} /\ verdict' = NotChecked /\ stamped' = stamped
    BY <1>1 DEF Edited
  <1>3. Def(s) \in Line /\ Other \in Line /\ Decorator \in Line
    BY DEF Line, Def
  <1>4. /\ new \in Seq(Line) /\ Placed(new)
        /\ \A k \in 1 .. Len(new) : new[k].kind = "anchor" => new[k].sha = Unstamped
    <2> DEFINE body == <<Def(s), Other>>
    <2>1. body \in Seq(Line) /\ Len(body) = 2 /\ body[1] = Def(s) /\ body[2] = Other
      BY <1>3
    <2>2. /\ head \in Seq(Line) /\ Len(head) \in {0, 1}
          /\ Len(head) = 1 => \/ head[1] = Decorator
                              \/ \E p \in Path : head[1] = Anchor(p, s, Unstamped)
      <3>1. \A p \in Path : Anchor(p, s, Unstamped) \in Line
        BY DEF Line, AnchorLine, Anchor
      <3>2. CASE head = << >>
        BY <3>2
      <3>3. CASE head = <<Decorator>>
        BY <1>3, <3>3
      <3>4. ASSUME NEW p \in Path, head = <<Anchor(p, s, Unstamped)>>
            PROVE  /\ head \in Seq(Line) /\ Len(head) \in {0, 1}
                   /\ \E q \in Path : head[1] = Anchor(q, s, Unstamped)
        BY <3>1, <3>4
      <3> QED
        BY <3>2, <3>3, <3>4, Zenon DEF Heads
    <2> HIDE DEF body
    <2>3. /\ new \in Seq(Line) /\ Len(new) = Len(head) + 2
          /\ \A k \in 1 .. Len(head) + 2 :
               new[k] = IF k <= Len(head) THEN head[k] ELSE body[k - Len(head)]
      <3>1. new = head \o body
        BY DEF body
      <3> HIDE DEF new
      <3>2. Len(head) \in Nat
        BY <2>2
      <3>3. /\ head \o body \in Seq(Line) /\ Len(head \o body) = Len(head) + 2
            /\ \A k \in 1 .. Len(head) + 2 :
                 (head \o body)[k] = IF k <= Len(head) THEN head[k] ELSE body[k - Len(head)]
        <4>1. /\ head \o body \in Seq(Line) /\ Len(head \o body) = Len(head) + Len(body)
              /\ \A k \in 1 .. Len(head) + Len(body) :
                   (head \o body)[k] = IF k <= Len(head) THEN head[k] ELSE body[k - Len(head)]
          BY <2>1, <2>2, ConcatProperties, Zenon
        <4> QED
          BY <2>1, <4>1, Zenon
      <3> QED
        BY <3>1, <3>3, Zenon
    <2>4. /\ Def(s).kind = "def" /\ Other.kind = "other" /\ Decorator.kind = "decorator"
          /\ \A p : /\ Anchor(p, s, Unstamped).kind = "anchor" /\ Anchor(p, s, Unstamped).symbol = s
                     /\ Anchor(p, s, Unstamped).sha = Unstamped
      BY DEF Def, Other, Decorator, Anchor
    <2> HIDE DEF new
    <2>5. ASSUME NEW i \in 1 .. Len(new), new[i].kind = "anchor"
          PROVE  /\ i = 1 /\ Len(head) = 1 /\ new[i].sha = Unstamped /\ new[i].symbol = s
                 /\ new[2] = Def(s)
      <3>1. CASE Len(head) = 0
        <4>1. new[i] = body[1] \/ new[i] = body[2]
          BY <2>3, <3>1
        <4> QED
          BY <2>1, <2>4, <2>5, <4>1
      <3>2. CASE Len(head) = 1
        <4>1. new[1] = head[1] /\ new[2] = body[1] /\ new[3] = body[2] /\ i \in {1, 2, 3}
          BY <2>3, <3>2
        <4>2. i = 1
          BY <2>1, <2>4, <2>5, <4>1
        <4> QED
          BY <2>1, <2>2, <2>4, <2>5, <3>2, <4>1, <4>2
      <3> QED
        BY <2>2, <3>1, <3>2
    <2>6. \A i \in 1 .. Len(new) : new[i].kind = "anchor" => Leads(new, i + 1, new[i].symbol)
      <3> SUFFICES ASSUME NEW i \in 1 .. Len(new), new[i].kind = "anchor"
                   PROVE  Leads(new, i + 1, new[i].symbol)
        OBVIOUS
      <3>1. 2 \in i + 1 .. Len(new) /\ i + 1 .. 2 - 1 = {} /\ new[2] = Def(new[i].symbol)
        BY <2>3, <2>5
      <3> QED
        BY <3>1 DEF Leads
    <2> QED
      BY <2>3, <2>5, <2>6 DEF Placed
  <1> HIDE DEF new
  <1>5. lines \in Seq(Line) /\ (lines' = new \o lines \/ lines' = lines \o new)
    BY <1>1 DEF AnchorTypeInv, new
  <1>6. lines' \in Seq(Line) /\ Placed(lines')
    BY <1>4, <1>5, ConcatKeepsLeads
  <1>7. ASSUME NEW k \in 1 .. Len(lines')
        PROVE  \/ \E i \in 1 .. Len(lines) : lines'[k] = lines[i]
               \/ \E i \in 1 .. Len(new) : lines'[k] = new[i]
    <2>1. new \in Seq(Line) /\ lines \in Seq(Line) /\ Len(new) \in Nat /\ Len(lines) \in Nat
      BY <1>4, <1>5
    <2>2. CASE lines' = new \o lines
      <3>1. lines'[k] = IF k <= Len(new) THEN new[k] ELSE lines[k - Len(new)]
        BY <2>1, <2>2, ConcatProperties
      <3>2. k <= Len(new) => k \in 1 .. Len(new)
        OBVIOUS
      <3>3. ~(k <= Len(new)) => k - Len(new) \in 1 .. Len(lines)
        BY <2>1, <2>2, ConcatProperties
      <3> QED
        BY <3>1, <3>2, <3>3
    <2>3. CASE lines' = lines \o new
      <3>1. lines'[k] = IF k <= Len(lines) THEN lines[k] ELSE new[k - Len(lines)]
        BY <2>1, <2>3, ConcatProperties
      <3>2. k <= Len(lines) => k \in 1 .. Len(lines)
        OBVIOUS
      <3>3. ~(k <= Len(lines)) => k - Len(lines) \in 1 .. Len(new)
        BY <2>1, <2>3, ConcatProperties
      <3> QED
        BY <3>1, <3>2, <3>3
    <2> QED
      BY <1>5, <2>2, <2>3
  <1>8. StampsAreLast(lines', stamped')
    BY <1>2, <1>4, <1>7 DEF StampsAreLast
  <1>9. AnchorTypeInv'
    BY <1>1, <1>2, <1>6 DEF AnchorTypeInv
  <1> QED
    BY <1>2, <1>6, <1>8, <1>9 DEF Pending, DriftSeen, NotChecked

(* An edit of the C++ moves no line; the last check is out of date.        *)
LEMMA CppEditKeeps ==
  ASSUME AnchorIInv, AddCpp \/ ChangeCpp \/ RemoveCpp \/ RemoveFile
  PROVE  AnchorIInv'
  <1>1. Edited /\ lines' = lines
    BY DEF AddCpp, ChangeCpp, RemoveCpp, RemoveFile
  <1>2. todo = {} /\ todo' = {} /\ verdict' = NotChecked /\ stamped' = stamped
    BY <1>1 DEF Edited
  <1> DEFINE Typed == DOMAIN oracle' \subseteq Path /\ \A q \in DOMAIN oracle' : oracle'[q] \in Seq(PlaceOf)
  <1>3. DOMAIN oracle \subseteq Path /\ \A q \in DOMAIN oracle : oracle[q] \in Seq(PlaceOf)
    BY DEF AnchorIInv, AnchorTypeInv
  <1>4. ASSUME NEW p \in DOMAIN oracle, NEW places \in Seq(PlaceOf),
               oracle' = [oracle EXCEPT ![p] = places]
        PROVE  Typed
    <2>1. DOMAIN oracle' = DOMAIN oracle
      BY <1>4
    <2>2. \A q \in DOMAIN oracle : oracle'[q] = IF q = p THEN places ELSE oracle[q]
      BY <1>4
    <2> QED
      BY <1>3, <2>1, <2>2, Zenon
  <1> HIDE DEF Typed
  <1>5. ASSUME AddCpp
        PROVE  Typed
    <2>1. PICK p \in DOMAIN oracle, d \in Cpp : oracle' = [oracle EXCEPT ![p] = Append(oracle[p], d)]
      BY <1>5 DEF AddCpp
    <2>2. d \in PlaceOf
      BY AnchorAssumption
    <2>3. Append(oracle[p], d) \in Seq(PlaceOf)
      BY <1>3, <2>2, AppendProperties
    <2> QED
      BY <1>4, <2>1, <2>3
  <1>6. ASSUME ChangeCpp
        PROVE  Typed
    <2>1. PICK p \in DOMAIN oracle, d \in Cpp : \E i \in DOMAIN oracle[p] :
            oracle' = [oracle EXCEPT ![p] = [oracle[p] EXCEPT ![i] = d]]
      BY <1>6 DEF ChangeCpp
    <2>2. PICK i \in DOMAIN oracle[p] : oracle' = [oracle EXCEPT ![p] = [oracle[p] EXCEPT ![i] = d]]
      BY <2>1
    <2>3. oracle[p] \in Seq(PlaceOf) /\ i \in 1 .. Len(oracle[p]) /\ d \in PlaceOf
      BY <1>3, <2>2, AnchorAssumption
    <2>5. [oracle[p] EXCEPT ![i] = d] \in Seq(PlaceOf)
      BY <2>3, ExceptSeq
    <2> QED
      BY <1>4, <2>2, <2>5
  <1>7. ASSUME RemoveCpp
        PROVE  Typed
    <2>1. PICK p \in DOMAIN oracle : \E i \in DOMAIN oracle[p] :
            oracle' = [oracle EXCEPT ![p] = RemoveAt(oracle[p], i)]
      BY <1>7 DEF RemoveCpp
    <2>2. PICK i \in DOMAIN oracle[p] : oracle' = [oracle EXCEPT ![p] = RemoveAt(oracle[p], i)]
      BY <2>1
    <2>3. RemoveAt(oracle[p], i) \in Seq(PlaceOf)
      <3>1. oracle[p] \in Seq(PlaceOf) /\ i \in 1 .. Len(oracle[p])
        BY <1>3, <2>2
      <3> DEFINE before == SubSeq(oracle[p], 1, i - 1)
                 behind == SubSeq(oracle[p], i + 1, Len(oracle[p]))
      <3>2. before \in Seq(PlaceOf) /\ behind \in Seq(PlaceOf)
        BY <3>1, SubSeqProperties
      <3>3. RemoveAt(oracle[p], i) = before \o behind
        BY Zenon DEF RemoveAt
      <3> HIDE DEF before, behind
      <3>4. before \o behind \in Seq(PlaceOf)
        BY <3>2, ConcatProperties
      <3> QED
        BY <3>3, <3>4, Zenon
    <2> QED
      BY <1>4, <2>2, <2>3
  <1>8. ASSUME RemoveFile
        PROVE  Typed
    <2>1. PICK p \in DOMAIN oracle : oracle' = [q \in DOMAIN oracle \ {p} |-> oracle[q]]
      BY <1>8 DEF RemoveFile
    <2> QED
      BY <1>3, <2>1, Zenon DEF Typed
  <1>9. Typed
    BY <1>5, <1>6, <1>7, <1>8, Zenon
  <1>10. AnchorTypeInv'
    BY <1>1, <1>2, <1>9 DEF AnchorIInv, AnchorTypeInv, Typed
  <1> QED
    BY <1>1, <1>2, <1>10 DEF AnchorIInv, Pending, DriftSeen, NotChecked

LEMMA AnchorsKept ==
  ASSUME AnchorIInv, [AnchorNext]_anchorVars
  PROVE  AnchorIInv'
  <1>1. CASE Autoanchor
    BY <1>1, AutoanchorKeeps
  <1>2. CASE Insert
    BY <1>2, InsertKeeps
  <1>3. CASE Update
    BY <1>3, UpdateKeeps
  <1>4. CASE Check
    BY <1>4, CheckKeeps
  <1>5. CASE AddDef
    BY <1>5, AddDefKeeps
  <1>6. CASE AddCpp \/ ChangeCpp \/ RemoveCpp \/ RemoveFile
    BY <1>6, CppEditKeeps
  <1>7. CASE UNCHANGED anchorVars
    <2>1. lines' = lines /\ todo' = todo /\ oracle' = oracle /\ verdict' = verdict /\ stamped' = stamped
      BY <1>7 DEF anchorVars
    <2>2. /\ Anchors' = Anchors
          /\ \A i \in Anchors : (AsExpected(i)' <=> AsExpected(i)) /\ (InSync(i)' <=> InSync(i))
      BY <2>1 DEF Anchors, IsAnchor, InSync, AsExpected, Target, Plain, Candidates, Definitions, Spots
    <2>3. DriftSeen'
      BY <2>1, <2>2 DEF AnchorIInv, DriftSeen
    <2>4. AnchorTypeInv' /\ Pending'
      BY <2>1 DEF AnchorIInv, AnchorTypeInv, Pending
    <2> QED
      BY <2>1, <2>3, <2>4 DEF AnchorIInv
  <1> QED
    BY <1>1, <1>2, <1>3, <1>4, <1>5, <1>6, <1>7 DEF AnchorNext

(* However the ported files are anchored and edited, every anchor stands   *)
(* above the def of its own symbol, where the review looks for it, and no  *)
(* def gets a second one: of autoanchor's insertions none goes astray.     *)
THEOREM AnchorsInPlace == AnchorSpec => []AnchorsStayPut
  <1>1. AnchorInit => AnchorIInv
    BY AnchorsStart
  <1>2. AnchorIInv /\ [AnchorNext]_anchorVars => AnchorIInv'
    BY AnchorsKept
  <1>3. AnchorIInv => AnchorsStayPut
    BY PlacedStayPut DEF AnchorIInv
  <1> QED
    BY <1>1, <1>2, <1>3, PTL DEF AnchorSpec

(* A check with exit code 0 (main) has found in sync with the one          *)
(* definition of its symbol every anchor whose C++ is written as the tool  *)
(* expects, now and when it was stamped; a check that fails has met an     *)
(* anchor out of sync or C++ written otherwise (extract_symbol_source).    *)
THEOREM DriftIsSeen == AnchorSpec => []DriftSeen
  <1>1. AnchorInit => AnchorIInv
    BY AnchorsStart
  <1>2. AnchorIInv /\ [AnchorNext]_anchorVars => AnchorIInv'
    BY AnchorsKept
  <1>3. AnchorIInv => DriftSeen
    BY DEF AnchorIInv
  <1> QED
    BY <1>1, <1>2, <1>3, PTL DEF AnchorSpec

------------------------------------------------------------------------------
(* The validation suite                                                    *)
------------------------------------------------------------------------------

(* The steps there are.                                                    *)
Step == ({"bridges", "ledger", "abi", "summary", "compiler"} \X {"-"})
        \union ({"generate", "gate"} \X Matrices)
        \union ({"target"} \X (Required \union Discovered))
        \union ({"lower"} \X Lowered)

Among(x, s) == \E i \in 1 .. Len(s) : s[i] = x

(* A list of steps in which no gate comes before its generator.            *)
Steps(s) ==
  /\ s \in Seq(Step)
  /\ \A i \in 1 .. Len(s) : s[i][1] = "gate" =>
       \E j \in 1 .. i - 1 : s[j] = <<"generate", s[i][2]>>

LEMMA StepsJoined ==
  ASSUME NEW s1, NEW s2, Steps(s1), Steps(s2)
  PROVE  /\ Steps(s1 \o s2)
         /\ \A x : Among(x, s1) \/ Among(x, s2) => Among(x, s1 \o s2)
  <1> DEFINE s == s1 \o s2
  <1>1. s1 \in Seq(Step) /\ s2 \in Seq(Step) /\ Len(s1) \in Nat /\ Len(s2) \in Nat
    BY DEF Steps
  <1>2. /\ s \in Seq(Step) /\ Len(s) = Len(s1) + Len(s2)
        /\ \A i \in 1 .. Len(s1) + Len(s2) : s[i] = IF i <= Len(s1) THEN s1[i] ELSE s2[i - Len(s1)]
    BY <1>1, ConcatProperties
  <1> HIDE DEF s
  <1>3. /\ \A i \in 1 .. Len(s1) : i \in 1 .. Len(s) /\ s[i] = s1[i]
        /\ \A i \in 1 .. Len(s2) : i + Len(s1) \in 1 .. Len(s) /\ s[i + Len(s1)] = s2[i]
    <2>1. ASSUME NEW i \in 1 .. Len(s1)
          PROVE  i \in 1 .. Len(s) /\ s[i] = s1[i]
      <3>1. i \in 1 .. Len(s1) + Len(s2) /\ i <= Len(s1)
        BY <1>1
      <3> QED
        BY <1>2, <3>1
    <2>2. ASSUME NEW i \in 1 .. Len(s2)
          PROVE  i + Len(s1) \in 1 .. Len(s) /\ s[i + Len(s1)] = s2[i]
      <3>1. i + Len(s1) \in 1 .. Len(s1) + Len(s2) /\ ~(i + Len(s1) <= Len(s1))
            /\ (i + Len(s1)) - Len(s1) = i
        BY <1>1
      <3> QED
        BY <1>2, <3>1
    <2> QED
      BY <2>1, <2>2
  <1>4. \A x : Among(x, s1) \/ Among(x, s2) => Among(x, s)
    BY <1>3 DEF Among
  <1>5. ASSUME NEW i \in 1 .. Len(s), s[i][1] = "gate"
        PROVE  \E j \in 1 .. i - 1 : s[j] = <<"generate", s[i][2]>>
    <2>1. CASE i <= Len(s1)
      <3>1. s[i] = s1[i] /\ i \in 1 .. Len(s1)
        BY <1>1, <1>2, <2>1
      <3>2. PICK j \in 1 .. i - 1 : s1[j] = <<"generate", s1[i][2]>>
        BY <1>5, <3>1 DEF Steps
      <3>3. s[j] = s1[j]
        BY <1>3, <3>1
      <3> QED
        BY <3>1, <3>2, <3>3
    <2>2. CASE i > Len(s1)
      <3> DEFINE k == i - Len(s1)
      <3>1. s[i] = s2[k] /\ k \in 1 .. Len(s2)
        BY <1>1, <1>2, <2>2
      <3>2. PICK j \in 1 .. k - 1 : s2[j] = <<"generate", s2[k][2]>>
        BY <1>5, <3>1 DEF Steps
      <3>3. j + Len(s1) \in 1 .. i - 1 /\ s[j + Len(s1)] = s2[j]
        BY <1>1, <1>3, <3>1
      <3> QED
        BY <3>1, <3>2, <3>3
    <2> QED
      BY <1>1, <1>2, <2>1, <2>2
  <1> QED
    BY <1>2, <1>4, <1>5 DEF Steps, s

LEMMA NoSteps == Steps(<< >>)
  BY DEF Steps

LEMMA SingleStep ==
  ASSUME NEW name \in {"bridges", "ledger", "abi", "summary", "compiler"}
  PROVE  Steps(Single(name)) /\ Among(<<name, "-">>, Single(name))
  <1>1. <<name, "-">> \in Step
    BY DEF Step
  <1> DEFINE s == Single(name)
  <1>2. s \in Seq(Step) /\ Len(s) = 1 /\ s[1] = <<name, "-">>
    BY <1>1 DEF Single
  <1> HIDE DEF s
  <1>3. Steps(s) /\ Among(<<name, "-">>, s)
    BY <1>2 DEF Steps, Among
  <1> QED
    BY <1>3 DEF s

LEMMA EachStep ==
  ASSUME NEW name \in {"target", "lower"}, NEW set, IsFiniteSet(set), {name} \X set \subseteq Step
  PROVE  Steps(Each(name, set)) /\ \A x \in set : Among(<<name, x>>, Each(name, set))
  <1> DEFINE n == Cardinality(set)
             order == SetToSeq(set)
             s == Each(name, set)
  <1>1. n \in Nat /\ order \in [1 .. n -> set] /\ \A x \in set : \E i \in 1 .. n : order[i] = x
    BY InOrder
  <1>2. s = [i \in 1 .. n |-> <<name, order[i]>>]
    BY DEF Each
  <1> HIDE DEF n, order, s
  <1>3. s \in Seq(Step) /\ Len(s) = n /\ \A i \in 1 .. n : s[i] = <<name, order[i]>>
    BY <1>1, <1>2
  <1>4. Steps(s)
    BY <1>1, <1>3 DEF Steps
  <1>5. \A x \in set : Among(<<name, x>>, s)
    BY <1>1, <1>3 DEF Among
  <1> QED
    BY <1>4, <1>5 DEF s

LEMMA FinitelyManyMatrices == IsFiniteSet(Matrices)
  <1>1. IsFiniteSet({"system"})
    BY FS_Singleton
  <1>2. IsFiniteSet({"system"} \union {"imgui"})
    BY <1>1, FS_AddElement
  <1>3. IsFiniteSet(({"system"} \union {"imgui"}) \union {"passes"})
    BY <1>2, FS_AddElement
  <1>4. IsFiniteSet((({"system"} \union {"imgui"}) \union {"passes"}) \union {"ir"})
    BY <1>3, FS_AddElement
  <1>5. IsFiniteSet(((({"system"} \union {"imgui"}) \union {"passes"}) \union {"ir"}) \union {"spirv"})
    BY <1>4, FS_AddElement
  <1>6. MatrixNames = ((({"system"} \union {"imgui"}) \union {"passes"}) \union {"ir"}) \union {"spirv"}
    BY DEF MatrixNames
  <1> QED
    BY <1>5, <1>6, SuiteAssumption, FS_Subset

LEMMA GeneratedAndGated ==
  /\ Steps(GenerateAndGate)
  /\ \A m \in Matrices : Among(<<"generate", m>>, GenerateAndGate) /\ Among(<<"gate", m>>, GenerateAndGate)
  <1> DEFINE n == Cardinality(Matrices)
             order == SetToSeq(Matrices)
             s == GenerateAndGate
  <1>1. n \in Nat /\ order \in [1 .. n -> Matrices] /\ \A m \in Matrices : \E i \in 1 .. n : order[i] = m
    BY FinitelyManyMatrices, InOrder
  <1>2. s = [i \in 1 .. 2 * n |-> <<IF i % 2 = 1 THEN "generate" ELSE "gate", order[(i + 1) \div 2]>>]
    BY DEF GenerateAndGate
  <1> HIDE DEF n, order, s
  <1>3. \A i \in 1 .. 2 * n : (i + 1) \div 2 \in 1 .. n
    BY <1>1
  <1>4. \A k \in 1 .. n : /\ 2 * k - 1 \in 1 .. 2 * n /\ (2 * k - 1) % 2 = 1 /\ ((2 * k - 1) + 1) \div 2 = k
                          /\ 2 * k \in 1 .. 2 * n /\ (2 * k) % 2 # 1 /\ (2 * k + 1) \div 2 = k
    BY <1>1
  <1>5. \A i \in 1 .. 2 * n : i % 2 # 1 =>
          i - 1 \in 1 .. 2 * n /\ (i - 1) % 2 = 1 /\ ((i - 1) + 1) \div 2 = (i + 1) \div 2
    BY <1>1
  <1>6. \A i \in 1 .. 2 * n :
          s[i] = IF i % 2 = 1 THEN <<"generate", order[(i + 1) \div 2]>> ELSE <<"gate", order[(i + 1) \div 2]>>
    BY <1>2
  <1>7. /\ \A m \in Matrices : <<"generate", m>> \in Step /\ <<"gate", m>> \in Step
        /\ \A i \in 1 .. 2 * n : order[(i + 1) \div 2] \in Matrices
    BY <1>1, <1>3 DEF Step
  <1>8. s \in Seq(Step) /\ Len(s) = 2 * n
    <2>1. s \in [1 .. 2 * n -> Step]
      BY <1>2, <1>6, <1>7
    <2> QED
      BY <1>1, <2>1
  <1>9. ASSUME NEW i \in 1 .. Len(s), s[i][1] = "gate"
        PROVE  \E j \in 1 .. i - 1 : s[j] = <<"generate", s[i][2]>>
    <2>1. i \in 1 .. 2 * n /\ i % 2 # 1 /\ s[i] = <<"gate", order[(i + 1) \div 2]>>
      BY <1>6, <1>8, <1>9
    <2>2. s[i - 1] = <<"generate", order[(i + 1) \div 2]>>
      BY <1>5, <1>6, <2>1
    <2>3. i - 1 \in 1 .. i - 1
      BY <1>5, <2>1
    <2>4. s[i - 1] = <<"generate", s[i][2]>>
      BY <2>1, <2>2
    <2> QED
      BY <2>3, <2>4
  <1>10. ASSUME NEW m \in Matrices
         PROVE  Among(<<"generate", m>>, s) /\ Among(<<"gate", m>>, s)
    <2>1. PICK k \in 1 .. n : order[k] = m
      BY <1>1
    <2>2. s[2 * k - 1] = <<"generate", m>> /\ s[2 * k] = <<"gate", m>>
      BY <1>4, <1>6, <2>1
    <2> QED
      BY <1>4, <1>8, <2>2 DEF Among
  <1> QED
    BY <1>8, <1>9, <1>10 DEF Steps, s

(* What a command line selects is in the list.                             *)
LEMMA SelectedSteps ==
  ASSUME tree \in Trees, NEW o \in Switches
  PROVE  /\ Steps(Selected(o))
         /\ o.bridges => Among(<<"bridges", "-">>, Selected(o))
         /\ o.ledger => /\ Among(<<"ledger", "-">>, Selected(o))
                        /\ \A m \in Matrices : /\ Among(<<"generate", m>>, Selected(o))
                                                /\ Among(<<"gate", m>>, Selected(o))
         /\ o.targets => /\ Among(<<"summary", "-">>, Selected(o))
                         /\ \A t \in (Required \union Discovered) \intersect tree.targets :
                              Among(<<"target", t>>, Selected(o))
         /\ o.lowering => /\ Among(<<"compiler", "-">>, Selected(o))
                          /\ tree.compiler => \A f \in Lowered : Among(<<"lower", f>>, Selected(o))
  <1>1. Steps(Ledgers) /\ Among(<<"ledger", "-">>, Ledgers)
        /\ \A m \in Matrices : Among(<<"generate", m>>, Ledgers) /\ Among(<<"gate", m>>, Ledgers)
    <2>1. Steps(Single("ledger")) /\ Steps(Single("abi")) /\ Among(<<"ledger", "-">>, Single("ledger"))
      BY SingleStep
    <2>2. /\ Steps(Single("ledger") \o Single("abi"))
          /\ Among(<<"ledger", "-">>, Single("ledger") \o Single("abi"))
      BY <2>1, StepsJoined
    <2> QED
      BY <2>2, GeneratedAndGated, StepsJoined DEF Ledgers
  <1>2. /\ Steps(Targets) /\ Among(<<"summary", "-">>, Targets)
        /\ \A t \in (Required \union Discovered) \intersect tree.targets : Among(<<"target", t>>, Targets)
    <2> DEFINE tests == (Required \union Discovered) \intersect tree.targets
    <2>1. IsFiniteSet(tests) /\ {"target"} \X tests \subseteq Step
      <3>1. IsFiniteSet(Required \union Discovered)
        BY SuiteAssumption, FS_Union
      <3>2. IsFiniteSet(tests)
        BY <3>1, FS_Subset
      <3> QED
        BY <3>2 DEF Step
    <2> HIDE DEF tests
    <2>2. Steps(Each("target", tests)) /\ \A t \in tests : Among(<<"target", t>>, Each("target", tests))
      BY <2>1, EachStep
    <2>3. Steps(Single("summary")) /\ Among(<<"summary", "-">>, Single("summary"))
      BY SingleStep
    <2>4. Targets = Each("target", tests) \o Single("summary")
      BY DEF Targets, tests
    <2> QED
      BY <2>2, <2>3, <2>4, StepsJoined DEF tests
  <1>3. /\ Steps(Lowering) /\ Among(<<"compiler", "-">>, Lowering)
        /\ tree.compiler => \A f \in Lowered : Among(<<"lower", f>>, Lowering)
    <2> DEFINE lower == IF tree.compiler THEN Each("lower", Lowered) ELSE << >>
    <2>1. IsFiniteSet(Lowered) /\ {"lower"} \X Lowered \subseteq Step
      BY SuiteAssumption DEF Step
    <2>2. Steps(lower) /\ (tree.compiler => \A f \in Lowered : Among(<<"lower", f>>, lower))
      BY <2>1, EachStep, NoSteps
    <2>3. Steps(Single("compiler")) /\ Among(<<"compiler", "-">>, Single("compiler"))
      BY SingleStep
    <2>4. Lowering = Single("compiler") \o lower
      BY DEF Lowering
    <2> HIDE DEF lower
    <2> QED
      BY <2>2, <2>3, <2>4, StepsJoined
  <1> DEFINE bridges == IF o.bridges THEN Single("bridges") ELSE << >>
             ledgers == IF o.ledger THEN Ledgers ELSE << >>
             targets == IF o.targets THEN Targets ELSE << >>
             lowerings == IF o.lowering THEN Lowering ELSE << >>
  <1>4. Steps(bridges) /\ (o.bridges => Among(<<"bridges", "-">>, bridges))
    BY SingleStep, NoSteps
  <1>5. Steps(ledgers) /\ (o.ledger => ledgers = Ledgers)
    BY <1>1, NoSteps
  <1>6. Steps(targets) /\ (o.targets => targets = Targets)
    BY <1>2, NoSteps
  <1>7. Steps(lowerings) /\ (o.lowering => lowerings = Lowering)
    BY <1>3, NoSteps
  <1>8. Selected(o) = ((bridges \o ledgers) \o targets) \o lowerings
    BY DEF Selected
  <1> HIDE DEF bridges, ledgers, targets, lowerings
  <1>9. /\ Steps(bridges \o ledgers)
        /\ \A x : Among(x, bridges) \/ Among(x, ledgers) => Among(x, bridges \o ledgers)
    BY <1>4, <1>5, StepsJoined
  <1>10. /\ Steps((bridges \o ledgers) \o targets)
         /\ \A x : Among(x, bridges \o ledgers) \/ Among(x, targets) =>
              Among(x, (bridges \o ledgers) \o targets)
    BY <1>6, <1>9, StepsJoined
  <1>11. /\ Steps(Selected(o))
         /\ \A x : Among(x, (bridges \o ledgers) \o targets) \/ Among(x, lowerings) => Among(x, Selected(o))
    BY <1>7, <1>8, <1>10, StepsJoined
  <1>12. \A x : Among(x, bridges) \/ Among(x, ledgers) \/ Among(x, targets) \/ Among(x, lowerings) =>
           Among(x, Selected(o))
    BY <1>9, <1>10, <1>11, Zenon
  <1> QED
    BY <1>1, <1>2, <1>3, <1>4, <1>5, <1>6, <1>7, <1>11, <1>12

------------------------------------------------------------------------------
(* A gate that passes on a matrix of the port as it is.                    *)
------------------------------------------------------------------------------

LEMMA SystemPorted ==
  ASSUME NEW f, f.elisa # NotPorted, SystemStatus(f) = "MATCHED"
  PROVE  Ported("system", f)
  <1> DEFINE c == SystemCpp(f.cpp)
             e == SystemElisa(f.elisa)
             alike == \/ c = e
                      \/ c = "STUBBED_ORBIS_OK" /\ e = "OTHER"
                      \/ c \in {"ERROR_GUARDED", "STATEFUL"} /\ e \in {"ERROR_GUARDED", "STATEFUL"}
                      \/ e = "HOST_BACKED" /\ c \in {"ERROR_GUARDED", "STATEFUL"}
  <1>1. c # "STUBBED_ORBIS_OK" => f.tested
    <2> SUFFICES ASSUME c # "STUBBED_ORBIS_OK", ~f.tested
                 PROVE  SystemStatus(f) # "MATCHED"
      OBVIOUS
    <2>1. CASE ~alike
      <3>1. SystemStatus(f) = "MISMATCH_BEHAVIOR"
        BY <2>1, Zenon DEF SystemStatus
      <3> QED
        BY <3>1
    <2>2. CASE alike
      <3>1. SystemStatus(f) = "UNTESTED_BEHAVIOR"
        BY <2>2, Zenon DEF SystemStatus
      <3> QED
        BY <3>1
    <2> QED
      BY <2>1, <2>2
  <1>2. \/ "host" \in f.cpp
        \/ {"error", "state"} \intersect f.cpp # {} /\ ~({"stubbed log", "return ok"} \subseteq f.cpp)
        => c # "STUBBED_ORBIS_OK"
    <2>1. "host" \in f.cpp \/ "error" \in f.cpp \/ "state" \in f.cpp => f.cpp # {"return ok"}
      OBVIOUS
    <2>2. CASE "host" \in f.cpp
      <3>1. c = "HOST_BACKED"
        BY <2>1, <2>2 DEF SystemCpp
      <3> QED
        BY <3>1
    <2>3. CASE /\ "host" \notin f.cpp /\ ("error" \in f.cpp \/ "state" \in f.cpp)
               /\ ~({"stubbed log", "return ok"} \subseteq f.cpp)
      <3>1. c \in {"STATEFUL", "ERROR_GUARDED"}
        BY <2>1, <2>3 DEF SystemCpp
      <3> QED
        BY <3>1
    <2> QED
      BY <2>2, <2>3
  <1> QED
    BY <1>1, <1>2 DEF Ported

LEMMA ImguiPorted ==
  ASSUME NEW f, f.elisa # NotPorted, ImguiStatus(f, tree.buckets) = "MATCHED"
  PROVE  Ported("imgui", f)
  <1> DEFINE c == ImguiCpp(f.cpp)
             e == ImguiElisa(f.elisa)
             alike == \/ c = e
                      \/ c \in Exercised \union {"OTHER"} /\ e \in {"STATEFUL", "HOST_BACKED"}
                      \/ c = "STATEFUL" /\ e = "ERROR_GUARDED"
                      \/ c = "STUBBED_ORBIS_OK" /\ e = "OTHER"
             good == alike /\ f.needs \subseteq f.elisa
  <1>1. c \in Exercised \ tree.buckets => f.tested
    <2> SUFFICES ASSUME c \in Exercised \ tree.buckets, ~f.tested
                 PROVE  ImguiStatus(f, tree.buckets) # "MATCHED"
      OBVIOUS
    <2>1. CASE ~good
      <3>1. ImguiStatus(f, tree.buckets) = "MISMATCH_BEHAVIOR"
        BY <2>1, Zenon DEF ImguiStatus
      <3> QED
        BY <3>1
    <2>2. CASE good
      <3>1. ImguiStatus(f, tree.buckets) = "UNTESTED_BEHAVIOR"
        BY <2>2, Zenon DEF ImguiStatus
      <3> QED
        BY <3>1
    <2> QED
      BY <2>1, <2>2
  <1>2. "host" \in f.cpp /\ "return ok" \notin f.cpp => c = "HOST_BACKED" /\ c \in Exercised
    BY DEF ImguiCpp, Exercised
  <1> QED
    BY <1>1, <1>2 DEF Ported

LEMMA PassPorted ==
  ASSUME NEW f, f.elisa # NotPorted, PassStatus(f) = "MATCHED"
  PROVE  Ported("passes", f)
  <1> DEFINE c == PassCpp(f.cpp)
             e == PassElisa(f.elisa)
             alike == \/ c = e
                      \/ c \in {"STATEFUL", "OTHER"} /\ e = "ERROR_GUARDED"
                      \/ c = "ERROR_GUARDED" /\ e = "STATEFUL"
  <1>1. c \in Exercised => f.tested
    <2> SUFFICES ASSUME c \in Exercised, ~f.tested
                 PROVE  PassStatus(f) # "MATCHED"
      OBVIOUS
    <2>1. CASE ~alike
      <3>1. PassStatus(f) = "MISMATCH_BEHAVIOR"
        BY <2>1, Zenon DEF PassStatus
      <3> QED
        BY <3>1
    <2>2. CASE alike
      <3>1. PassStatus(f) = "UNTESTED_BEHAVIOR"
        BY <2>2, Zenon DEF PassStatus
      <3> QED
        BY <3>1
    <2> QED
      BY <2>1, <2>2
  <1>2. \/ "walker" \in f.cpp
        \/ {"host", "mutates", "assert", "loop"} \intersect f.cpp # {} /\ "plain return" \notin f.cpp
        => c \in Exercised
    BY DEF PassCpp, Exercised
  <1> QED
    BY <1>1, <1>2 DEF Ported

(* Every status but "MATCHED" stops the gate, and "MATCHED" means ported.  *)
LEMMA GatePorted ==
  ASSUME NEW m \in Matrices, NEW functions, NEW f \in functions,
         GateOk(m, Matrix(m, functions, tree.buckets), functions)
  PROVE  Ported(m, f)
  <1> DEFINE status == MatrixStatus(m, f, tree.buckets)
  <1>1. status = "MATCHED" /\ (m = "ir" => ~Placeholder(f) /\ ~Remnant(f))
    BY DEF GateOk, AllMatched, Matrix
  <1>2. m \in {"system", "imgui", "passes", "ir", "spirv"}
    BY SuiteAssumption DEF MatrixNames
  <1>3. ASSUME m # "spirv"
        PROVE  f.elisa # NotPorted
    <2> SUFFICES ASSUME f.elisa = NotPorted
                 PROVE  FALSE
      OBVIOUS
    <2>1. status = "MISSING_IN_ELISA"
      BY <1>3, Zenon DEF MatrixStatus
    <2> QED
      BY <1>1, <2>1
  <1>4. CASE m = "system"
    <2>1. m # "spirv" /\ m # "ir" /\ m # "imgui" /\ m # "passes"
      BY <1>4
    <2>2. status = SystemStatus(f)
      BY <1>3, <1>4, <2>1, Zenon DEF MatrixStatus
    <2> QED
      BY <1>1, <1>3, <1>4, <2>2, SystemPorted
  <1>5. CASE m = "imgui"
    <2>1. m # "spirv" /\ m # "ir" /\ m # "system" /\ m # "passes"
      BY <1>5
    <2>2. status = ImguiStatus(f, tree.buckets)
      BY <1>3, <1>5, <2>1, Zenon DEF MatrixStatus
    <2> QED
      BY <1>1, <1>3, <1>5, <2>2, ImguiPorted
  <1>6. CASE m = "passes"
    <2>1. m # "spirv" /\ m # "ir" /\ m # "system" /\ m # "imgui"
      BY <1>6
    <2>2. status = PassStatus(f)
      BY <1>3, <1>6, <2>1, Zenon DEF MatrixStatus
    <2> QED
      BY <1>1, <1>3, <1>6, <2>2, PassPorted
  <1>7. CASE m = "ir"
    BY <1>1, <1>3, <1>7 DEF Ported, Placeholder, Remnant
  <1>8. CASE m = "spirv"
    <2>1. status = SpirvStatus(f)
      BY <1>8, Zenon DEF MatrixStatus
    <2>2. f.elisa # NotPorted \/ f.file \in {"backend/spirv", "recompiler"}
      BY <1>1, <2>1 DEF SpirvStatus, HostCovered
    <2> QED
      BY <1>8, <2>2 DEF Ported
  <1> QED
    BY <1>2, <1>4, <1>5, <1>6, <1>7, <1>8

------------------------------------------------------------------------------
(* The run of the suite                                                    *)
------------------------------------------------------------------------------

SuiteFields == {"run", "pc", "ok", "opts", "todo", "before", "stepOk"}

SuiteTypeInv ==
  /\ tree \in Trees
  /\ DOMAIN matrix = Matrices
  /\ lowered = [f \in Lowered |-> lowered[f]]
  /\ start = [f \in Lowered |-> start[f]]
  /\ DOMAIN suite = SuiteFields
  /\ suite.pc \in {"off", "step", "compare"}
  /\ suite.ok \in BOOLEAN
  /\ suite.opts \in Switches

(* While a suite runs, and behind its end until the port is changed.       *)
Active == ~Off \/ code \in {0, 1}

(* The steps still to do are the end of the list, and if none has failed   *)
(* the ones before them passed.                                            *)
Progress ==
  LET list == Selected(suite.opts)
  IN  /\ suite.todo \in Seq(Step)
      /\ \E n \in 0 .. Len(list) :
           /\ Len(suite.todo) = Len(list) - n
           /\ \A i \in 1 .. Len(suite.todo) : suite.todo[i] = list[n + i]
           /\ suite.ok => \A i \in 1 .. n : list[i] \in passed

Phase ==
  /\ ~Off => code = NotEnded
  /\ code \in {NotEnded, Killed, 0, 1}
  /\ code \in {0, 1} => suite.todo = << >>
  /\ code = 0 => suite.ok
  /\ suite.pc = "compare" => suite.todo # << >> /\ suite.todo[1][1] = "lower"

Written(m) ==
  matrix[m] = [kind |-> "matrix", by |-> suite.run,
               table |-> Matrix(m, tree.functions[m], tree.buckets)]

(* What the matrix steps that passed say of the files and of the port.     *)
MatricesSeen == \A m \in Matrices :
  /\ <<"generate", m>> \in passed => Written(m)
  /\ suite.ok /\ <<"gate", m>> \in passed =>
       GateOk(m, Matrix(m, tree.functions[m], tree.buckets), tree.functions[m])

(* And the other ones.                                                     *)
PortSeen ==
  /\ <<"ledger", "-">> \in passed => LedgerInOrder(tree.ledger)
  /\ <<"summary", "-">> \in passed => Required \subseteq tree.targets
  /\ <<"compiler", "-">> \in passed => tree.compiler
  /\ \A f \in Lowered : <<"lower", f>> \in passed /\ suite.opts.drift => start[f] = tree.emits[f]

(* But for the file that is being lowered, nothing is changed; and of that *)
(* one it is known what it was.                                            *)
LoweredKept ==
  /\ suite.pc # "compare" => lowered = start
  /\ suite.pc = "compare" =>
       /\ Subject \in Lowered
       /\ suite.before = start[Subject]
       /\ \A f \in Lowered \ {Subject} : lowered[f] = start[f]
       /\ suite.stepOk => lowered[Subject] = tree.emits[Subject]

SuiteIInv ==
  /\ SuiteTypeInv
  /\ Phase
  /\ Active => Progress /\ MatricesSeen /\ PortSeen /\ LoweredKept

LEMMA StepNames ==
  ASSUME NEW s \in Step
  PROVE  /\ s = <<s[1], s[2]>>
         /\ s[1] \in {"generate", "gate"} => s[2] \in Matrices
         /\ s[1] = "lower" => s[2] \in Lowered
         /\ s[1] \in {"bridges", "ledger", "abi", "summary", "compiler"} => s[2] = "-"
  BY DEF Step

LEMMA IdleFields ==
  /\ DOMAIN SuiteIdle = SuiteFields /\ SuiteIdle.pc = "off" /\ SuiteIdle.ok = TRUE
  /\ SuiteIdle.opts \in Switches /\ SuiteIdle.todo = << >>
  BY SuiteAssumption DEF SuiteIdle, SuiteFields

(* A suite that ends with 0 looked at everything it was to look at.        *)
LEMMA GreenIsCurrent ==
  ASSUME SuiteIInv
  PROVE  SuiteGreenIsCurrent
  <1> DEFINE o == suite.opts
             list == Selected(o)
  <1>1. ASSUME code \in {0, 1}
        PROVE  lowered = start
    <2>1. Active /\ suite.pc # "compare"
      BY <1>1 DEF SuiteIInv, Active, Phase, Off, NotEnded
    <2> QED
      BY <2>1 DEF SuiteIInv, LoweredKept
  <1>2. ASSUME code = 0
        PROVE  /\ o.bridges => <<"bridges", "-">> \in passed
               /\ o.ledger => MatricesCurrent /\ LedgerComplete
               /\ o.targets => \A t \in Required : <<"target", t>> \in passed
               /\ o.lowering => NoDrift
    <2>1. Active /\ suite.todo = << >> /\ suite.ok /\ tree \in Trees /\ o \in Switches
      BY <1>2 DEF SuiteIInv, SuiteTypeInv, Phase, Active
    <2>2. Progress /\ MatricesSeen /\ PortSeen
      BY <2>1 DEF SuiteIInv
    <2>3. Steps(list)
      BY <2>1, SelectedSteps
    <2>4. Len(list) \in Nat
      BY <2>3 DEF Steps
    <2> HIDE DEF list
    <2>5. \A x : Among(x, list) => x \in passed
      <3>1. PICK n \in 0 .. Len(list) :
              /\ Len(suite.todo) = Len(list) - n
              /\ \A i \in 1 .. n : list[i] \in passed
        BY <2>1, <2>2 DEF Progress, list
      <3>2. n = Len(list)
        BY <2>1, <2>4, <3>1
      <3> QED
        BY <3>1, <3>2 DEF Among
    <2>6. o.bridges => <<"bridges", "-">> \in passed
      BY <2>1, <2>5, SelectedSteps DEF list
    <2>7. ASSUME o.ledger
          PROVE  MatricesCurrent /\ LedgerComplete
      <3>1. /\ <<"ledger", "-">> \in passed
            /\ \A m \in Matrices : <<"generate", m>> \in passed /\ <<"gate", m>> \in passed
        BY <2>1, <2>5, <2>7, SelectedSteps DEF list
      <3>2. ASSUME NEW m \in Matrices
            PROVE  matrix[m].by = suite.run /\ \A f \in tree.functions[m] : Ported(m, f)
        <4>1. Written(m) /\ GateOk(m, Matrix(m, tree.functions[m], tree.buckets), tree.functions[m])
          BY <2>1, <2>2, <3>1 DEF MatricesSeen
        <4>2. matrix[m].by = suite.run
          BY <4>1 DEF Written
        <4> QED
          BY <4>1, <4>2, GatePorted
      <3>3. LedgerInOrder(tree.ledger)
        BY <2>2, <3>1 DEF PortSeen
      <3>4. LedgerComplete
        BY <3>3 DEF LedgerInOrder, TargetInOrder, LedgerComplete
      <3> QED
        BY <3>2, <3>4 DEF MatricesCurrent
    <2>8. ASSUME o.targets
          PROVE  \A t \in Required : <<"target", t>> \in passed
      <3>1. <<"summary", "-">> \in passed
        BY <2>1, <2>5, <2>8, SelectedSteps DEF list
      <3>2. Required \subseteq tree.targets
        BY <2>2, <3>1 DEF PortSeen
      <3> QED
        BY <2>1, <2>5, <2>8, <3>2, SelectedSteps DEF list
    <2>9. ASSUME o.lowering
          PROVE  NoDrift
      <3>1. <<"compiler", "-">> \in passed
        BY <2>1, <2>5, <2>9, SelectedSteps DEF list
      <3>2. tree.compiler
        BY <2>2, <3>1 DEF PortSeen
      <3>3. \A f \in Lowered : <<"lower", f>> \in passed
        BY <2>1, <2>5, <2>9, <3>2, SelectedSteps DEF list
      <3> QED
        BY <2>2, <3>3 DEF PortSeen, NoDrift
    <2> QED
      BY <2>6, <2>7, <2>8, <2>9
  <1> QED
    BY <1>1, <1>2 DEF SuiteGreenIsCurrent

LEMMA SuiteStarts ==
  ASSUME SuiteInit
  PROVE  SuiteIInv
  <1>1. lowered = [f \in Lowered |-> lowered[f]] /\ start = [f \in Lowered |-> start[f]]
    BY SuiteAssumption DEF SuiteInit
  <1>2. SuiteTypeInv
    BY <1>1, IdleFields DEF SuiteInit, SuiteTypeInv
  <1>3. Phase /\ ~Active
    BY IdleFields DEF SuiteInit, Phase, Active, Off, NotEnded
  <1> QED
    BY <1>2, <1>3 DEF SuiteIInv

LEMMA StartSuiteKeeps ==
  ASSUME SuiteIInv, StartSuite
  PROVE  SuiteIInv'
  <1>1. PICK r \in SuiteRun, o \in Switches :
          /\ suite' = [SuiteIdle EXCEPT !.run = r, !.pc = "step", !.opts = o, !.todo = Selected(o)]
          /\ code' = NotEnded /\ start' = lowered /\ passed' = {}
          /\ tree' = tree /\ matrix' = matrix /\ lowered' = lowered
    BY DEF StartSuite
  <1>2. /\ DOMAIN suite' = SuiteFields /\ suite'.pc = "step" /\ suite'.opts = o /\ suite'.ok = TRUE
        /\ suite'.todo = Selected(o)
    BY <1>1, IdleFields DEF SuiteFields
  <1>3. SuiteTypeInv'
    BY <1>1, <1>2 DEF SuiteIInv, SuiteTypeInv
  <1>4. Phase'
    BY <1>1, <1>2 DEF Phase, Off, NotEnded
  <1>5. Progress'
    <2>1. Selected(suite.opts)' = Selected(o)
      BY <1>1, <1>2 DEF Selected, Targets, Lowering
    <2>2. Steps(Selected(o))
      BY SelectedSteps DEF SuiteIInv, SuiteTypeInv
    <2> DEFINE list == Selected(o)
    <2> HIDE DEF list
    <2>3. list \in Seq(Step) /\ Len(list) \in Nat
      BY <2>2 DEF Steps, list
    <2>4. \E n \in 0 .. Len(list) :
            /\ Len(list) = Len(list) - n
            /\ \A i \in 1 .. Len(list) : list[i] = list[n + i]
            /\ \A i \in 1 .. n : list[i] \in passed'
      <3>1. 0 \in 0 .. Len(list) /\ Len(list) = Len(list) - 0 /\ \A i \in 1 .. Len(list) : list[i] = list[0 + i]
        BY <2>3
      <3>2. \A i \in 1 .. 0 : list[i] \in passed'
        OBVIOUS
      <3> QED
        BY <3>1, <3>2, Zenon
    <2> QED
      BY <1>2, <2>1, <2>3, <2>4 DEF Progress, list
  <1>6. MatricesSeen' /\ PortSeen' /\ LoweredKept'
    BY <1>1, <1>2 DEF MatricesSeen, PortSeen, LoweredKept
  <1> QED
    BY <1>3, <1>4, <1>5, <1>6 DEF SuiteIInv

(* A step that is done and found ok or not ok: what it means for the list. *)
LEMMA DoneMoves ==
  ASSUME SuiteIInv, ~Off, suite.todo # << >>, NEW ok, Done(ok)
  PROVE  /\ Active /\ Progress /\ MatricesSeen /\ PortSeen /\ LoweredKept
         /\ tree' = tree /\ start' = start /\ code' = code
         /\ suite.todo[1] \in Step
         /\ DOMAIN suite' = SuiteFields /\ suite'.pc = "step" /\ suite'.ok \in BOOLEAN
         /\ suite'.opts = suite.opts /\ suite'.run = suite.run
         /\ suite'.ok => suite.ok /\ ok
         /\ \A x : x \in passed' => x \in passed \/ (x = suite.todo[1] /\ ok)
         /\ Progress' /\ Phase'
  <1> DEFINE list == Selected(suite.opts)
  <1>1. Active /\ Progress /\ MatricesSeen /\ PortSeen /\ LoweredKept
    BY DEF SuiteIInv, Active
  <1>2. DOMAIN suite = SuiteFields /\ suite.ok \in BOOLEAN
    BY DEF SuiteIInv, SuiteTypeInv
  <1>3. /\ suite' = [suite EXCEPT !.pc = "step", !.ok = Also(ok), !.todo = Tail(@)]
        /\ passed' = IF ok THEN passed \union {suite.todo[1]} ELSE passed
        /\ tree' = tree /\ code' = code /\ start' = start
    BY DEF Done
  <1>4. /\ DOMAIN suite' = SuiteFields /\ suite'.pc = "step" /\ suite'.ok = (ok /\ suite.ok)
        /\ suite'.opts = suite.opts /\ suite'.run = suite.run /\ suite'.todo = Tail(suite.todo)
    BY <1>2, <1>3 DEF SuiteFields, Also
  <1>5. suite.todo \in Seq(Step) /\ Len(suite.todo) \in Nat \ {0} /\ suite.todo[1] \in Step
    BY <1>1 DEF Progress
  <1>6. /\ suite'.todo \in Seq(Step) /\ Len(suite'.todo) = Len(suite.todo) - 1
        /\ \A i \in 1 .. Len(suite.todo) - 1 : suite'.todo[i] = suite.todo[i + 1]
    BY <1>4, <1>5, HeadTailProperties
  <1>7. Selected(suite.opts)' = list
    BY <1>3, <1>4 DEF Selected, Targets, Lowering
  <1>8. PICK n \in 0 .. Len(list) :
          /\ Len(suite.todo) = Len(list) - n
          /\ \A i \in 1 .. Len(suite.todo) : suite.todo[i] = list[n + i]
          /\ suite.ok => \A i \in 1 .. n : list[i] \in passed
    BY <1>1 DEF Progress
  <1>9. Len(list) \in Nat
    BY SelectedSteps DEF Steps, SuiteIInv, SuiteTypeInv
  <1> HIDE DEF list
  <1>10. suite.todo[1] = list[n + 1]
    BY <1>5, <1>8
  <1>11. /\ n + 1 \in 0 .. Len(list)
         /\ Len(suite'.todo) = Len(list) - (n + 1)
    BY <1>5, <1>6, <1>8, <1>9
  <1>12. ASSUME NEW i \in 1 .. Len(suite'.todo)
         PROVE  suite'.todo[i] = list[(n + 1) + i]
    <2>1. suite'.todo[i] = suite.todo[i + 1] /\ i + 1 \in 1 .. Len(suite.todo)
      BY <1>5, <1>6
    <2>2. suite.todo[i + 1] = list[n + (i + 1)] /\ n + (i + 1) = (n + 1) + i
      BY <1>8, <1>9, <2>1
    <2> QED
      BY <2>1, <2>2
  <1>13. ASSUME suite'.ok, NEW i \in 1 .. n + 1
         PROVE  list[i] \in passed'
    <2>1. CASE i = n + 1
      BY <1>3, <1>4, <1>10, <1>13, <2>1
    <2>2. CASE i # n + 1
      <3>1. i \in 1 .. n
        BY <1>8, <1>9, <2>2
      <3> QED
        BY <1>3, <1>4, <1>8, <1>13, <3>1
    <2> QED
      BY <2>1, <2>2
  <1>14. Progress'
    <2>1. \E k \in 0 .. Len(list) :
            /\ Len(suite'.todo) = Len(list) - k
            /\ \A i \in 1 .. Len(suite'.todo) : suite'.todo[i] = list[k + i]
            /\ suite'.ok => \A i \in 1 .. k : list[i] \in passed'
      BY <1>11, <1>12, <1>13
    <2> QED
      BY <1>6, <1>7, <2>1 DEF Progress
  <1>15. Phase'
    <2>1. code = NotEnded
      BY DEF SuiteIInv, Phase
    <2> QED
      BY <1>3, <1>4, <2>1 DEF Phase, NotEnded
  <1> QED
    BY <1>1, <1>3, <1>4, <1>5, <1>14, <1>15

(* Of a step that is no lowering the lowered files know nothing.           *)
LEMMA DoneElsewhere ==
  ASSUME SuiteIInv, suite.pc = "step", suite.todo # << >>, NEW ok, Done(ok),
         lowered' = lowered, DOMAIN matrix' = Matrices,
         MatricesSeen', PortSeen'
  PROVE  SuiteIInv'
  <1>1. ~Off
    BY DEF Off
  <1>2. /\ Progress' /\ Phase' /\ LoweredKept
        /\ tree' = tree /\ start' = start
        /\ DOMAIN suite' = SuiteFields /\ suite'.pc = "step" /\ suite'.ok \in BOOLEAN /\ suite'.opts = suite.opts
    BY <1>1, DoneMoves
  <1>3. SuiteTypeInv'
    BY <1>2 DEF SuiteIInv, SuiteTypeInv
  <1>4. LoweredKept'
    BY <1>2 DEF LoweredKept
  <1> QED
    BY <1>2, <1>3, <1>4 DEF SuiteIInv

(* What was seen stays true if a step adds what it has seen itself.        *)
LEMMA PortStaysSeen ==
  ASSUME SuiteIInv, ~Off, suite.todo # << >>, NEW ok, Done(ok), ok => suite.todo[1][1] \notin {"ledger", "summary", "compiler", "lower"}
  PROVE  PortSeen'
  <1>1. /\ PortSeen /\ tree' = tree /\ start' = start /\ suite'.opts = suite.opts
        /\ \A x : x \in passed' => x \in passed \/ (x = suite.todo[1] /\ ok)
    BY DoneMoves
  <1>2. \A x : x \in passed' /\ x[1] \in {"ledger", "summary", "compiler", "lower"} => x \in passed
    BY <1>1
  <1>3. /\ \A y : <<"ledger", y>>[1] = "ledger" /\ <<"summary", y>>[1] = "summary"
        /\ \A y : <<"compiler", y>>[1] = "compiler" /\ <<"lower", y>>[1] = "lower"
    OBVIOUS
  <1>4. \A y : /\ <<"ledger", y>> \in passed' => <<"ledger", y>> \in passed
               /\ <<"summary", y>> \in passed' => <<"summary", y>> \in passed
               /\ <<"compiler", y>> \in passed' => <<"compiler", y>> \in passed
               /\ <<"lower", y>> \in passed' => <<"lower", y>> \in passed
    BY <1>2, <1>3
  <1> QED
    BY <1>1, <1>4 DEF PortSeen

LEMMA MatricesStaySeen ==
  ASSUME SuiteIInv, ~Off, suite.todo # << >>, NEW ok, Done(ok), matrix' = matrix,
         suite.todo[1][1] \notin {"generate", "gate"}
  PROVE  MatricesSeen'
  <1>1. /\ MatricesSeen /\ tree' = tree /\ suite'.run = suite.run /\ (suite'.ok => suite.ok)
        /\ \A x : x \in passed' => x \in passed \/ (x = suite.todo[1] /\ ok)
    BY DoneMoves
  <1>2. \A y : <<"generate", y>>[1] = "generate" /\ <<"gate", y>>[1] = "gate"
    OBVIOUS
  <1>3. \A y : /\ <<"generate", y>> \in passed' => <<"generate", y>> \in passed
               /\ <<"gate", y>> \in passed' => <<"gate", y>> \in passed
    BY <1>1, <1>2
  <1> QED
    BY <1>1, <1>3 DEF MatricesSeen, Written

LEMMA CheckerKeeps ==
  ASSUME SuiteIInv, Checker
  PROVE  SuiteIInv'
  <1>1. PICK ok \in BOOLEAN : Done(ok)
    BY DEF Checker
  <1>2. /\ suite.pc = "step" /\ suite.todo # << >> /\ ~Off
        /\ suite.todo[1][1] \in {"bridges", "abi", "target"} /\ matrix' = matrix /\ lowered' = lowered
    BY DEF Checker, Due, Off
  <1>3. MatricesSeen' /\ PortSeen'
    BY <1>1, <1>2, MatricesStaySeen, PortStaysSeen
  <1> QED
    BY <1>1, <1>2, <1>3, DoneElsewhere DEF SuiteIInv, SuiteTypeInv

(* The ledger, the summary and the compiler: each looks at the port.       *)
LEMMA LookKeeps ==
  ASSUME SuiteIInv, CheckLedger \/ TargetSummary \/ FindCompiler
  PROVE  SuiteIInv'
  <1> DEFINE name == suite.todo[1][1]
             ok == IF name = "ledger" THEN LedgerInOrder(tree.ledger)
                   ELSE IF name = "summary" THEN Required \subseteq tree.targets ELSE tree.compiler
  <1>1. /\ suite.pc = "step" /\ suite.todo # << >> /\ ~Off
        /\ name \in {"ledger", "summary", "compiler"} /\ Done(ok)
        /\ matrix' = matrix /\ lowered' = lowered
    <2>1. CASE CheckLedger
      BY <2>1 DEF CheckLedger, Due, Off
    <2>2. CASE TargetSummary
      BY <2>2 DEF TargetSummary, Due, Off
    <2>3. CASE FindCompiler
      BY <2>3 DEF FindCompiler, Due, Off
    <2> QED
      BY <2>1, <2>2, <2>3
  <1> HIDE DEF ok
  <1>2. MatricesSeen'
    BY <1>1, MatricesStaySeen
  <1>3. /\ PortSeen /\ tree' = tree /\ start' = start /\ suite'.opts = suite.opts
        /\ \A x : x \in passed' => x \in passed \/ (x = suite.todo[1] /\ ok)
    BY <1>1, DoneMoves
  <1>4. \A y : \A n : <<n, y>> \in passed' => <<n, y>> \in passed \/ (n = name /\ ok)
    <2>1. \A y : \A n : <<n, y>>[1] = n
      OBVIOUS
    <2> QED
      BY <1>3, <2>1
  <1>5. <<"ledger", "-">> \in passed' => LedgerInOrder(tree.ledger)
    BY <1>3, <1>4 DEF PortSeen, ok
  <1>6. <<"summary", "-">> \in passed' => Required \subseteq tree.targets
    BY <1>3, <1>4 DEF PortSeen, ok
  <1>7. <<"compiler", "-">> \in passed' => tree.compiler
    BY <1>3, <1>4 DEF PortSeen, ok
  <1>8. \A f : <<"lower", f>> \in passed' => <<"lower", f>> \in passed
    BY <1>1, <1>4
  <1>9. PortSeen'
    BY <1>3, <1>5, <1>6, <1>7, <1>8 DEF PortSeen
  <1> QED
    BY <1>1, <1>2, <1>9, DoneElsewhere DEF SuiteIInv, SuiteTypeInv

(* A matrix that is generated is that of the port as it is.                *)
LEMMA GenerateKeeps ==
  ASSUME SuiteIInv, Generate
  PROVE  SuiteIInv'
  <1> DEFINE m == suite.todo[1][2]
             file == [kind |-> "matrix", by |-> suite.run,
                      table |-> Matrix(m, tree.functions[m], tree.buckets)]
  <1>1. /\ suite.pc = "step" /\ suite.todo # << >> /\ ~Off
        /\ suite.todo[1][1] = "generate" /\ lowered' = lowered
    BY DEF Generate, Due, Off
  <1>2. DOMAIN matrix = Matrices
    BY DEF SuiteIInv, SuiteTypeInv
  <1>3. ASSUME NEW ok, Done(ok),
               \/ ok /\ matrix' = [matrix EXCEPT ![m] = file]
               \/ ~ok /\ matrix' = matrix
        PROVE  SuiteIInv'
    <2>1. /\ MatricesSeen /\ tree' = tree /\ suite'.run = suite.run /\ (suite'.ok => suite.ok)
          /\ \A x : x \in passed' => x \in passed \/ (x = suite.todo[1] /\ ok)
          /\ suite.todo[1] \in Step
      BY <1>1, <1>3, DoneMoves
    <2>2. m \in Matrices /\ suite.todo[1] = <<"generate", m>>
      BY <1>1, <2>1, StepNames
    <2>3. \A x \in Matrices : <<"gate", x>> \in passed' => <<"gate", x>> \in passed
      BY <2>1, <2>2
    <2>4. \A x \in Matrices : <<"generate", x>> \in passed' => <<"generate", x>> \in passed \/ (x = m /\ ok)
      BY <2>1, <2>2
    <2>5. /\ DOMAIN matrix' = Matrices
          /\ \A x \in Matrices : matrix'[x] = IF x = m /\ ok THEN file ELSE matrix[x]
      BY <1>2, <1>3, <2>2
    <2>6. ASSUME NEW x \in Matrices, <<"generate", x>> \in passed'
          PROVE  matrix'[x] = [kind |-> "matrix", by |-> suite.run,
                               table |-> Matrix(x, tree.functions[x], tree.buckets)]
      BY <2>1, <2>4, <2>5, <2>6 DEF MatricesSeen, Written
    <2>7. MatricesSeen'
      BY <2>1, <2>3, <2>6 DEF MatricesSeen, Written
    <2>8. PortSeen'
      BY <1>1, <1>3, PortStaysSeen
    <2> QED
      BY <1>1, <1>3, <2>5, <2>7, <2>8, DoneElsewhere
  <1> QED
    <2>1. \/ matrix' = [matrix EXCEPT ![m] = file] /\ Done(TRUE)
          \/ matrix' = matrix /\ Done(FALSE)
      BY DEF Generate, Subject
    <2> HIDE DEF file, m
    <2> QED
      BY <1>3, <2>1

(* A gate stands behind its generator: if none has failed, what it reads is*)
(* the matrix of this run.                                                 *)
LEMMA GateKeeps ==
  ASSUME SuiteIInv, Gate
  PROVE  SuiteIInv'
  <1> DEFINE m == suite.todo[1][2]
             ok == matrix[m].kind = "matrix" /\ GateOk(m, matrix[m].table, tree.functions[m])
             list == Selected(suite.opts)
  <1>1. /\ suite.pc = "step" /\ suite.todo # << >> /\ ~Off
        /\ suite.todo[1][1] = "gate" /\ Done(ok) /\ matrix' = matrix /\ lowered' = lowered
    BY DEF Gate, Due, Off, Subject
  <1>2. /\ MatricesSeen /\ Progress /\ tree' = tree /\ suite'.run = suite.run
        /\ suite'.ok => suite.ok /\ ok
        /\ \A x : x \in passed' => x \in passed \/ (x = suite.todo[1] /\ ok)
        /\ suite.todo[1] \in Step
    <2> HIDE DEF ok
    <2> QED
      BY <1>1, DoneMoves
  <1>3. m \in Matrices /\ suite.todo[1] = <<"gate", m>>
    BY <1>1, <1>2, StepNames
  <1>4. suite.ok => <<"generate", m>> \in passed
    <2>1. PICK n \in 0 .. Len(list) :
            /\ Len(suite.todo) = Len(list) - n
            /\ \A i \in 1 .. Len(suite.todo) : suite.todo[i] = list[n + i]
            /\ suite.ok => \A i \in 1 .. n : list[i] \in passed
      BY <1>2 DEF Progress
    <2>2. Steps(list)
      BY SelectedSteps DEF SuiteIInv, SuiteTypeInv
    <2> HIDE DEF list, m
    <2>3. suite.todo \in Seq(Step) /\ list \in Seq(Step)
      BY <1>2, <2>2 DEF Progress, Steps
    <2>4. n + 1 \in 1 .. Len(list) /\ list[n + 1] = <<"gate", m>>
      <3>1. Len(suite.todo) \in Nat \ {0} /\ Len(list) \in Nat
        BY <1>1, <2>3
      <3>2. suite.todo[1] = list[n + 1]
        BY <2>1, <3>1
      <3>3. n + 1 \in 1 .. Len(list)
        BY <2>1, <3>1
      <3> QED
        BY <1>3, <3>2, <3>3
    <2>5. PICK j \in 1 .. (n + 1) - 1 : list[j] = <<"generate", list[n + 1][2]>>
      <3>1. list[n + 1][1] = "gate"
        BY <2>4
      <3>2. \A i \in 1 .. Len(list) : list[i][1] = "gate" =>
              \E j \in 1 .. i - 1 : list[j] = <<"generate", list[i][2]>>
        BY <2>2 DEF Steps
      <3> QED
        BY <2>4, <3>1, <3>2, Zenon
    <2>6. j \in 1 .. n /\ list[j] = <<"generate", m>>
      BY <2>1, <2>4, <2>5
    <2> QED
      BY <2>1, <2>6
  <1>5. suite'.ok => GateOk(m, Matrix(m, tree.functions[m], tree.buckets), tree.functions[m])
    <2> SUFFICES ASSUME suite'.ok
                 PROVE  GateOk(m, Matrix(m, tree.functions[m], tree.buckets), tree.functions[m])
      OBVIOUS
    <2>1. Written(m) /\ GateOk(m, matrix[m].table, tree.functions[m])
      BY <1>2, <1>3, <1>4 DEF MatricesSeen
    <2>2. matrix[m].table = Matrix(m, tree.functions[m], tree.buckets)
      BY <2>1 DEF Written
    <2> QED
      BY <2>1, <2>2
  <1> HIDE DEF ok
  <1>6. /\ \A x : <<"generate", x>> \in passed' => <<"generate", x>> \in passed
        /\ \A x : <<"gate", x>> \in passed' => <<"gate", x>> \in passed \/ x = m
    BY <1>2, <1>3
  <1>7. MatricesSeen'
    BY <1>1, <1>2, <1>5, <1>6 DEF MatricesSeen, Written
  <1>8. PortSeen'
    BY <1>1, PortStaysSeen
  <1> QED
    BY <1>1, <1>7, <1>8, DoneElsewhere DEF SuiteIInv, SuiteTypeInv

LEMMA LowerKeeps ==
  ASSUME SuiteIInv, Lower
  PROVE  SuiteIInv'
  <1> DEFINE f == suite.todo[1][2]
  <1>1. PICK emitted \in BOOLEAN, ok \in BOOLEAN :
          /\ ok => emitted
          /\ lowered' = IF emitted THEN [lowered EXCEPT ![f] = tree.emits[f]] ELSE lowered
          /\ suite' = [suite EXCEPT !.pc = "compare", !.before = lowered[f], !.stepOk = ok]
    BY DEF Lower, Subject
  <1>2. /\ suite.pc = "step" /\ suite.todo # << >> /\ suite.todo[1][1] = "lower"
        /\ tree' = tree /\ matrix' = matrix /\ code' = code /\ start' = start /\ passed' = passed
    BY DEF Lower, Due
  <1>3. DOMAIN suite = SuiteFields /\ suite.ok \in BOOLEAN /\ suite.opts \in Switches
    BY DEF SuiteIInv, SuiteTypeInv
  <1>4. /\ DOMAIN suite' = SuiteFields /\ suite'.pc = "compare" /\ suite'.before = lowered[f]
        /\ suite'.stepOk = ok /\ suite'.ok = suite.ok /\ suite'.opts = suite.opts
        /\ suite'.run = suite.run /\ suite'.todo = suite.todo
    BY <1>1, <1>3 DEF SuiteFields
  <1>5. Progress /\ MatricesSeen /\ PortSeen /\ LoweredKept
    BY <1>2 DEF SuiteIInv, Active, Off
  <1>6. f \in Lowered
    <2>1. suite.todo[1] \in Step
      BY <1>2, <1>5 DEF Progress
    <2> QED
      BY <1>2, <2>1, StepNames
  <1>7. lowered = start /\ lowered = [x \in Lowered |-> lowered[x]] /\ DOMAIN lowered = Lowered
    BY <1>2, <1>5 DEF LoweredKept, SuiteIInv, SuiteTypeInv
  <1>8. /\ lowered' = [x \in Lowered |-> lowered'[x]]
        /\ \A x \in Lowered : lowered'[x] = IF x = f /\ emitted THEN tree.emits[f] ELSE lowered[x]
    <2>1. CASE emitted
      <3>1. lowered' = [lowered EXCEPT ![f] = tree.emits[f]]
        BY <1>1, <2>1
      <3> HIDE DEF f
      <3>2. lowered' = [x \in Lowered |-> IF x = f THEN tree.emits[f] ELSE lowered[x]]
        BY <1>7, <3>1
      <3> QED
        BY <2>1, <3>2
    <2>2. CASE ~emitted
      BY <1>1, <1>7, <2>2
    <2> QED
      BY <2>1, <2>2
  <1>9. SuiteTypeInv'
    BY <1>2, <1>3, <1>4, <1>8 DEF SuiteIInv, SuiteTypeInv
  <1>10. Phase'
    BY <1>2, <1>4 DEF SuiteIInv, Phase, Off
  <1>11. Selected(suite.opts)' = Selected(suite.opts)
    BY <1>2, <1>4 DEF Selected, Targets, Lowering
  <1>12. Progress'
    BY <1>2, <1>4, <1>5, <1>11 DEF Progress
  <1>13. MatricesSeen' /\ PortSeen'
    BY <1>2, <1>4, <1>5 DEF MatricesSeen, Written, PortSeen
  <1>14. LoweredKept'
    <2>1. Subject' = f
      BY <1>4 DEF Subject
    <2>2. \A x \in Lowered \ {f} : lowered'[x] = start[x]
      BY <1>7, <1>8
    <2>3. ok => lowered'[f] = tree.emits[f]
      BY <1>1, <1>6, <1>8
    <2>4. lowered[f] = start[f]
      BY <1>7
    <2> HIDE DEF f
    <2> QED
      BY <1>2, <1>4, <1>6, <2>1, <2>2, <2>3, <2>4 DEF LoweredKept
  <1> QED
    BY <1>9, <1>10, <1>12, <1>13, <1>14 DEF SuiteIInv

(* The file is what it was before; asked for drift, the step passes only if*)
(* the compiler wrote just that.                                           *)
LEMMA PutBackKeeps ==
  ASSUME SuiteIInv, PutBack
  PROVE  SuiteIInv'
  <1> DEFINE f == suite.todo[1][2]
             ok == suite.stepOk /\ (suite.opts.drift => lowered[f] = suite.before)
  <1>1. suite.pc = "compare" /\ ~Off /\ suite.todo # << >> /\ suite.todo[1][1] = "lower"
    BY DEF PutBack, Off, SuiteIInv, Phase
  <1>2. lowered' = [lowered EXCEPT ![f] = suite.before] /\ Done(ok) /\ matrix' = matrix
    BY DEF PutBack, Subject
  <1> HIDE DEF ok
  <1>3. /\ PortSeen /\ LoweredKept /\ tree' = tree /\ start' = start /\ suite.todo[1] \in Step
        /\ DOMAIN suite' = SuiteFields /\ suite'.pc = "step" /\ suite'.ok \in BOOLEAN /\ suite'.opts = suite.opts
        /\ \A x : x \in passed' => x \in passed \/ (x = suite.todo[1] /\ ok)
        /\ Progress' /\ Phase'
    BY <1>1, <1>2, DoneMoves
  <1>4. suite.todo[1] = <<"lower", f>> /\ f \in Lowered
    BY <1>1, <1>3, StepNames
  <1>5. /\ suite.before = start[f]
        /\ \A x \in Lowered \ {f} : lowered[x] = start[x]
        /\ suite.stepOk => lowered[f] = tree.emits[f]
    BY <1>1, <1>3 DEF LoweredKept, Subject
  <1>6. lowered' = start
    <2>1. lowered = [x \in Lowered |-> lowered[x]] /\ start = [x \in Lowered |-> start[x]]
      BY DEF SuiteIInv, SuiteTypeInv
    <2>2. DOMAIN lowered = Lowered
      BY <2>1
    <2> HIDE DEF f
    <2>3. lowered' = [x \in Lowered |-> IF x = f THEN suite.before ELSE lowered[x]]
      BY <1>2, <2>2
    <2>4. lowered' = [x \in Lowered |-> start[x]]
      BY <1>5, <2>3
    <2> QED
      BY <2>1, <2>4
  <1>7. SuiteTypeInv'
    <2>1. lowered' = [x \in Lowered |-> lowered'[x]]
      BY <1>6 DEF SuiteIInv, SuiteTypeInv
    <2> QED
      BY <1>2, <1>3, <2>1 DEF SuiteIInv, SuiteTypeInv
  <1>8. MatricesSeen'
    BY <1>1, <1>2, MatricesStaySeen
  <1>9. ok /\ suite.opts.drift => start[f] = tree.emits[f]
    BY <1>5 DEF ok
  <1>10. /\ \A x : <<"lower", x>> \in passed' => <<"lower", x>> \in passed \/ (x = f /\ ok)
         /\ \A x : \A n \in {"ledger", "summary", "compiler"} : <<n, x>> \in passed' => <<n, x>> \in passed
    BY <1>3, <1>4
  <1>11. PortSeen'
    <2> HIDE DEF f
    <2> QED
      BY <1>3, <1>9, <1>10 DEF PortSeen
  <1>12. LoweredKept'
    BY <1>3, <1>6 DEF LoweredKept
  <1> QED
    BY <1>3, <1>7, <1>8, <1>11, <1>12 DEF SuiteIInv

LEMMA EndSuiteKeeps ==
  ASSUME SuiteIInv, EndSuite
  PROVE  SuiteIInv'
  <1>1. /\ suite.pc = "step" /\ suite.todo = << >>
        /\ suite' = [suite EXCEPT !.pc = "off"]
        /\ code' = IF suite.ok THEN 0 ELSE 1
        /\ tree' = tree /\ matrix' = matrix /\ lowered' = lowered /\ start' = start /\ passed' = passed
    BY DEF EndSuite
  <1>2. DOMAIN suite = SuiteFields /\ suite.ok \in BOOLEAN /\ suite.opts \in Switches
    BY DEF SuiteIInv, SuiteTypeInv
  <1>3. /\ DOMAIN suite' = SuiteFields /\ suite'.pc = "off" /\ suite'.ok = suite.ok
        /\ suite'.opts = suite.opts /\ suite'.run = suite.run /\ suite'.todo = suite.todo
    BY <1>1, <1>2 DEF SuiteFields
  <1>4. Progress /\ MatricesSeen /\ PortSeen /\ LoweredKept
    BY <1>1 DEF SuiteIInv, Active, Off
  <1>5. SuiteTypeInv' /\ Phase'
    BY <1>1, <1>2, <1>3 DEF SuiteIInv, SuiteTypeInv, Phase, Off, NotEnded, Killed
  <1>6. Selected(suite.opts)' = Selected(suite.opts)
    BY <1>1, <1>3 DEF Selected, Targets, Lowering
  <1>7. Progress'
    <2>1. suite'.todo = suite.todo /\ suite'.ok = suite.ok /\ passed' = passed
      BY <1>1, <1>3
    <2> QED
      BY <1>4, <1>6, <2>1 DEF Progress
  <1>8. MatricesSeen' /\ PortSeen'
    BY <1>1, <1>3, <1>4 DEF MatricesSeen, Written, PortSeen
  <1>9. LoweredKept'
    BY <1>1, <1>3, <1>4 DEF LoweredKept
  <1> QED
    BY <1>5, <1>7, <1>8, <1>9 DEF SuiteIInv

(* Behind a killed suite and a changed port nothing is claimed.            *)
LEMMA InterruptKeeps ==
  ASSUME SuiteIInv, Interrupt
  PROVE  SuiteIInv'
  <1>1. /\ suite' = [SuiteIdle EXCEPT !.run = suite.run] /\ code' = Killed
        /\ tree' = tree /\ start' = start
        /\ matrix' = matrix \/ matrix' = [matrix EXCEPT ![Subject] = [kind |-> "torn"]]
        /\ lowered' = lowered \/ lowered' = [lowered EXCEPT ![Subject] = "torn"]
    BY DEF Interrupt
  <1>2. /\ DOMAIN suite' = SuiteFields /\ suite'.pc = "off" /\ suite'.ok = TRUE
        /\ suite'.opts \in Switches /\ suite'.todo = << >>
    BY <1>1, IdleFields DEF SuiteFields
  <1>3. DOMAIN matrix' = Matrices
    BY <1>1 DEF SuiteIInv, SuiteTypeInv
  <1>4. lowered' = [x \in Lowered |-> lowered'[x]]
    <2>1. lowered = [x \in Lowered |-> lowered[x]]
      BY DEF SuiteIInv, SuiteTypeInv
    <2>2. DOMAIN lowered = Lowered
      BY <2>1
    <2>3. CASE lowered' = [lowered EXCEPT ![Subject] = "torn"]
      <3>1. lowered' = [x \in Lowered |-> IF x = Subject THEN "torn" ELSE lowered[x]]
        BY <2>2, <2>3
      <3> QED
        BY <3>1
    <2> QED
      BY <1>1, <2>1, <2>3
  <1>5. SuiteTypeInv'
    BY <1>1, <1>2, <1>3, <1>4 DEF SuiteIInv, SuiteTypeInv
  <1>6. Phase' /\ ~Active'
    BY <1>1, <1>2 DEF Phase, Active, Off, Killed, NotEnded
  <1> QED
    BY <1>5, <1>6 DEF SuiteIInv

LEMMA PortChangesKeeps ==
  ASSUME SuiteIInv, PortChanges
  PROVE  SuiteIInv'
  <1>1. PICK t \in Trees, checkIn \in BOOLEAN :
          /\ Off /\ tree' = t /\ code' = NotEnded
          /\ lowered' = IF checkIn THEN t.emits ELSE lowered
          /\ matrix' = matrix /\ suite' = suite /\ start' = start
    BY DEF PortChanges
  <1>2. lowered' = [x \in Lowered |-> lowered'[x]]
    BY <1>1, SuiteAssumption DEF SuiteIInv, SuiteTypeInv
  <1>3. SuiteTypeInv'
    BY <1>1, <1>2 DEF SuiteIInv, SuiteTypeInv
  <1>4. Phase' /\ ~Active'
    BY <1>1 DEF SuiteIInv, Phase, Active, Off, NotEnded
  <1> QED
    BY <1>3, <1>4 DEF SuiteIInv

LEMMA SuiteKept ==
  ASSUME SuiteIInv, [SuiteNext]_suiteVars
  PROVE  SuiteIInv'
  <1>1. CASE StartSuite
    BY <1>1, StartSuiteKeeps
  <1>2. CASE Checker
    BY <1>2, CheckerKeeps
  <1>3. CASE CheckLedger \/ TargetSummary \/ FindCompiler
    BY <1>3, LookKeeps
  <1>4. CASE Generate
    BY <1>4, GenerateKeeps
  <1>5. CASE Gate
    BY <1>5, GateKeeps
  <1>6. CASE Lower
    BY <1>6, LowerKeeps
  <1>7. CASE PutBack
    BY <1>7, PutBackKeeps
  <1>8. CASE EndSuite
    BY <1>8, EndSuiteKeeps
  <1>9. CASE Interrupt
    BY <1>9, InterruptKeeps
  <1>10. CASE PortChanges
    BY <1>10, PortChangesKeeps
  <1>11. CASE UNCHANGED suiteVars
    <2>1. /\ tree' = tree /\ matrix' = matrix /\ lowered' = lowered /\ suite' = suite
          /\ code' = code /\ start' = start /\ passed' = passed
      BY <1>11 DEF suiteVars
    <2>2. Selected(suite.opts)' = Selected(suite.opts)
      BY <2>1 DEF Selected, Targets, Lowering
    <2>3. SuiteTypeInv'
      BY <2>1 DEF SuiteIInv, SuiteTypeInv
    <2>4. Phase' /\ (Active' => Active)
      BY <2>1 DEF SuiteIInv, Phase, Active, Off
    <2>5. Progress => Progress'
      BY <2>1, <2>2 DEF Progress
    <2>6. MatricesSeen => MatricesSeen'
      BY <2>1 DEF MatricesSeen, Written
    <2>7. PortSeen => PortSeen'
      BY <2>1 DEF PortSeen
    <2>8. LoweredKept => LoweredKept'
      BY <2>1 DEF LoweredKept, Subject
    <2> QED
      BY <2>3, <2>4, <2>5, <2>6, <2>7, <2>8 DEF SuiteIInv
  <1> QED
    BY <1>1, <1>2, <1>3, <1>4, <1>5, <1>6, <1>7, <1>8, <1>9, <1>10, <1>11 DEF SuiteNext

(* A suite that ends leaves the lowered files as they were, and one that   *)
(* ends with 0 has looked, in that run and at the port as it is, at        *)
(* everything its command line selects, whatever earlier runs left behind. *)
THEOREM GreenSuiteIsCurrent == SuiteSpec => []SuiteGreenIsCurrent
  <1>1. SuiteInit => SuiteIInv
    BY SuiteStarts
  <1>2. SuiteIInv /\ [SuiteNext]_suiteVars => SuiteIInv'
    BY SuiteKept
  <1>3. SuiteIInv => SuiteGreenIsCurrent
    BY GreenIsCurrent
  <1> QED
    BY <1>1, <1>2, <1>3, PTL DEF SuiteSpec

------------------------------------------------------------------------------
(* The boot comparisons: positions that are counted                        *)
------------------------------------------------------------------------------

(* Positions of a list: finitely many, so that they can be counted.        *)
Places(S) == S \in SUBSET Nat /\ IsFiniteSet(S)

(* The positions of a list are finitely many numbers.                      *)
LEMMA PlacesOf ==
  ASSUME NEW T, NEW s \in Seq(T), NEW S \in SUBSET DOMAIN s
  PROVE  Places(S)
  <1>1. DOMAIN s = 1 .. Len(s) /\ Len(s) \in Nat
    OBVIOUS
  <1>2. IsFiniteSet(1 .. Len(s))
    BY <1>1, FS_Interval
  <1> QED
    BY <1>1, <1>2, FS_Subset DEF Places

(* What is n-th in a set of positions is counted one-to-one, in their      *)
(* order.                                                                  *)
LEMMA Counted ==
  ASSUME NEW S, Places(S)
  PROVE  /\ Cardinality(S) \in Nat
         /\ \A i \in S : Count(S, i) \in 1 .. Cardinality(S)
         /\ \A i, j \in S : i < j => Count(S, i) < Count(S, j)
         /\ \A i, j \in S : Count(S, i) = Count(S, j) => i = j
  <1>1. IsFiniteSet(S) /\ Cardinality(S) \in Nat /\ S \in SUBSET Nat
    BY FS_CardinalityType DEF Places
  <1>2. ASSUME NEW i \in S
        PROVE  Count(S, i) \in 1 .. Cardinality(S)
    <2> DEFINE C == {j \in S : j <= i}
    <2>1. C \subseteq S /\ i \in C /\ {i} \subseteq C
      BY <1>1
    <2>2. IsFiniteSet(C) /\ Cardinality(C) <= Cardinality(S) /\ Cardinality(C) \in Nat
      BY <1>1, <2>1, FS_Subset, FS_CardinalityType
    <2>3. Cardinality({i}) <= Cardinality(C)
      BY <2>1, <2>2, FS_Subset
    <2>4. Cardinality({i}) = 1
      BY FS_Singleton
    <2> QED
      BY <1>1, <2>2, <2>3, <2>4 DEF Count
  <1>3. ASSUME NEW i \in S, NEW j \in S, i < j
        PROVE  Count(S, i) < Count(S, j)
    <2> DEFINE C == {k \in S : k <= i}
               D == {k \in S : k <= j}
    <2>a. i \in Nat /\ j \in Nat /\ \A k \in S : k \in Nat
      BY <1>1
    <2>b. \A k \in S : k <= i => k <= j
      BY <1>3, <2>a
    <2>c. j <= j /\ ~(j <= i)
      BY <1>3, <2>a
    <2>1. C \subseteq D /\ j \in D /\ j \notin C
      BY <2>b, <2>c
    <2>2. IsFiniteSet(D) /\ D \subseteq S
      BY <1>1, FS_Subset
    <2>3. Cardinality(C) <= Cardinality(D) /\ (Cardinality(C) = Cardinality(D) => C = D)
      BY <2>1, <2>2, FS_Subset
    <2>4. C # D
      BY <2>1
    <2>5. Cardinality(C) \in Nat /\ Cardinality(D) \in Nat
      BY <2>1, <2>2, FS_Subset, FS_CardinalityType
    <2> QED
      BY <2>3, <2>4, <2>5 DEF Count
  <1>4. ASSUME NEW i \in S, NEW j \in S, Count(S, i) = Count(S, j)
        PROVE  i = j
    <2>1. i \in Nat /\ j \in Nat /\ Count(S, i) \in Nat
      BY <1>1, <1>2
    <2> QED
      BY <1>3, <1>4, <2>1
  <1> QED
    BY <1>1, <1>2, <1>3, <1>4

(* Up to its cardinality, a set has an n-th position: counting is          *)
(* one-to-one, and there are as many numbers as positions.                 *)
LEMMA NthIs ==
  ASSUME NEW S, Places(S), NEW n \in 1 .. Cardinality(S)
  PROVE  Nth(S, n) \in S /\ Count(S, Nth(S, n)) = n
  <1> DEFINE c == Cardinality(S)
             f == [i \in S |-> Count(S, i)]
  <1>1. c \in Nat /\ IsFiniteSet(S)
    BY Counted DEF Places
  <1>2. f \in Injection(S, 1 .. c)
    BY Counted DEF Injection, IsInjective
  <1>3. IsFiniteSet(1 .. c) /\ Cardinality(1 .. c) = c
    BY <1>1, FS_Interval
  <1>4. f \in Surjection(S, 1 .. c)
    BY <1>1, <1>2, <1>3, FS_Injection
  <1>5. \E i \in S : f[i] = n
    BY <1>4 DEF Surjection
  <1>6. \E i \in S : Count(S, i) = n
    BY <1>5
  <1> QED
    BY <1>6, Zenon DEF Nth

(* The last one of a set of positions is its greatest.                     *)
LEMMA MaxIsLast ==
  ASSUME NEW S, Places(S), S # {}
  PROVE  Max(S) \in S /\ \A i \in S : i <= Max(S)
  <1>1. Cardinality(S) \in Nat /\ S \in SUBSET Nat
    BY Counted DEF Places
  <1>2. Cardinality(S) \in 1 .. Cardinality(S)
    <2>1. PICK i \in S : TRUE
      OBVIOUS
    <2>2. Count(S, i) \in 1 .. Cardinality(S)
      BY <2>1, Counted
    <2> QED
      BY <1>1, <2>2
  <1> DEFINE m == Nth(S, Cardinality(S))
  <1>3. m \in S /\ Count(S, m) = Cardinality(S)
    BY <1>2, NthIs
  <1>4. ASSUME NEW i \in S
        PROVE  i <= m
    <2>1. Count(S, i) \in 1 .. Cardinality(S)
      BY Counted
    <2>2. ~(m < i)
      <3> SUFFICES ASSUME m < i
                   PROVE  FALSE
        OBVIOUS
      <3>1. Count(S, m) < Count(S, i)
        BY <1>3, Counted
      <3> QED
        BY <1>1, <1>3, <2>1, <3>1
    <2>3. m \in Nat /\ i \in Nat
      BY <1>1, <1>3
    <2> HIDE DEF m
    <2> QED
      BY <2>2, <2>3
  <1>5. \E x \in S : \A y \in S : x >= y
    BY <1>1, <1>3, <1>4
  <1>6. Max(S) \in S /\ \A y \in S : Max(S) >= y
    BY <1>5 DEF Max
  <1> QED
    BY <1>1, <1>6

LEMMA MaxOfOne ==
  ASSUME NEW i \in Nat
  PROVE  Max({i}) = i
  BY DEF Max

(* A list of the events at some positions has one event for each of them.  *)
LEMMA ListedIs ==
  ASSUME NEW T, NEW s \in Seq(T), NEW S \in SUBSET DOMAIN s
  PROVE  /\ Cardinality(S) \in Nat
         /\ Listed(s, S) \in Seq(T)
         /\ Len(Listed(s, S)) = Cardinality(S)
         /\ DOMAIN Listed(s, S) = 1 .. Cardinality(S)
         /\ \A n \in 1 .. Cardinality(S) : /\ Nth(S, n) \in S
                                           /\ Listed(s, S)[n] = s[Nth(S, n)]
  <1>1. Places(S) /\ Cardinality(S) \in Nat
    BY PlacesOf, Counted
  <1>2. \A n \in 1 .. Cardinality(S) : Nth(S, n) \in S /\ s[Nth(S, n)] \in T
    BY <1>1, NthIs
  <1>3. Listed(s, S) \in [1 .. Cardinality(S) -> T]
    BY <1>2 DEF Listed
  <1> QED
    BY <1>1, <1>2, <1>3 DEF Listed

------------------------------------------------------------------------------
(* What is printed of an event                                             *)
------------------------------------------------------------------------------

(* The events by kind, and the fields that each has.                       *)
LEMMA EventKinds ==
  ASSUME NEW e \in Event
  PROVE  /\ e.kind \in {"module", "entry", "resolve", "modstart", "hle"}
         /\ e.kind = "module" => e \in [kind : {"module"}, name : FileName, base : Int, size : Int]
         /\ e.kind = "entry" => e \in [kind : {"entry"}, addr : Int]
         /\ e.kind = "resolve" => e \in [kind : {"resolve"}, nid : Int, resolved : {0, 1}, stub : BOOLEAN]
         /\ e.kind = "modstart" =>
              e \in [kind : {"modstart"}, module : FileName, phase : STRING, entry : Int]
         /\ e.kind = "hle" => /\ e.symbol \in STRING /\ e.module \in STRING
                              /\ \E A \in SUBSET Args :
                                   /\ DOMAIN e = {"kind", "module", "symbol", "return"} \union A
                                   /\ \A r \in A : e[r] \in Nat
  <1>1. CASE e.kind = "hle"
    <2>1. CASE e \in [kind : {"hle"}, module : STRING, symbol : STRING, return : Nat, rdi : Nat]
      <3>1. DOMAIN e = {"kind", "module", "symbol", "return"} \union {"rdi"} /\ e["rdi"] \in Nat
        BY <2>1
      <3> QED
        BY <1>1, <2>1, <3>1 DEF Args
    <2>2. CASE e \in [kind : {"hle"}, module : STRING, symbol : STRING, return : Nat,
                      rdi : Nat, rsi : Nat]
      <3>1. /\ DOMAIN e = {"kind", "module", "symbol", "return"} \union {"rdi", "rsi"}
            /\ e["rdi"] \in Nat /\ e["rsi"] \in Nat
        BY <2>2
      <3> QED
        BY <1>1, <2>2, <3>1 DEF Args
    <2>3. CASE e \in [kind : {"hle"}, module : STRING, symbol : STRING, return : Nat,
                      rdi : Nat, rsi : Nat, rdx : Nat]
      <3>1. /\ DOMAIN e = {"kind", "module", "symbol", "return"} \union {"rdi", "rsi", "rdx"}
            /\ e["rdi"] \in Nat /\ e["rsi"] \in Nat /\ e["rdx"] \in Nat
        BY <2>3
      <3> QED
        BY <1>1, <2>3, <3>1 DEF Args
    <2> QED
      BY <1>1, <2>1, <2>2, <2>3 DEF Event
  <1>2. CASE e.kind # "hle"
    BY <1>2 DEF Event
  <1> QED
    BY <1>1, <1>2

(* The fields of each kind after normalize_fields.                         *)
LEMMA ModuleFields ==
  ASSUME NEW e \in Event, e.kind = "module", NEW n, NEW f, f = Normalized("module", OracleFields(e, n))
  PROVE  /\ DOMAIN f = {"name", "module", "base", "size", "index"}
         /\ f["name"] = BaseName(e.name) /\ f["module"] = BaseName(e.name)
         /\ f["size"] = e.size /\ f["index"] = n
         /\ DOMAIN OracleFields(e, n) = {"name", "base", "size", "index"}
         /\ OracleFields(e, n)["index"] = n
  <1>1. DOMAIN e = {"kind", "name", "base", "size"}
    BY EventKinds
  <1> DEFINE g == OracleFields(e, n)
             h == Both(g, "name", "module")
  <1>2. g = Set(Fields(e), "index", n)
    BY DEF OracleFields
  <1>3. /\ DOMAIN g = {"name", "base", "size", "index"}
        /\ g["name"] = e.name /\ g["size"] = e.size /\ g["index"] = n
    BY <1>1, <1>2 DEF Set, Fields
  <1> HIDE DEF g
  <1>4. h = Set(g, "module", g["name"])
    BY <1>3 DEF Both, Alias, Has
  <1>5. /\ DOMAIN h = {"name", "module", "base", "size", "index"}
        /\ h["name"] = e.name /\ h["module"] = e.name /\ h["size"] = e.size /\ h["index"] = n
    BY <1>3, <1>4 DEF Set
  <1>6. f = [h EXCEPT !["name"] = BaseName(@), !["module"] = BaseName(@)]
    BY DEF Normalized, g
  <1> HIDE DEF h
  <1> QED
    BY <1>3, <1>5, <1>6 DEF g

LEMMA EntryFields ==
  ASSUME NEW v, NEW g, NEW f, f = Normalized("entry", g),
         \/ DOMAIN g = {"addr"} /\ g["addr"] = v
         \/ DOMAIN g = {"entry"} /\ g["entry"] = v
  PROVE  DOMAIN f = {"addr", "entry"} /\ f["addr"] = v /\ f["entry"] = v
  <1>1. f = Both(g, "addr", "entry")
    BY DEF Normalized
  <1> QED
    BY <1>1 DEF Both, Alias, Has, Set

LEMMA ResolveFields ==
  ASSUME NEW e \in Event, e.kind = "resolve", NEW n, NEW f, f = Normalized("resolve", OracleFields(e, n))
  PROVE  /\ DOMAIN f = {"nid", "resolved", "resolved_addr"}
         /\ f["nid"] = e.nid /\ f["resolved"] = e.resolved /\ f["resolved_addr"] = e.resolved
         /\ OracleFields(e, n)["nid"] = e.nid
  <1>1. DOMAIN e = {"kind", "nid", "resolved", "stub"}
    BY EventKinds
  <1> DEFINE g == OracleFields(e, n)
  <1>2. g = Fields(e)
    BY DEF OracleFields
  <1>3. DOMAIN g = {"nid", "resolved"} /\ g["nid"] = e.nid /\ g["resolved"] = e.resolved
    BY <1>1, <1>2 DEF Fields
  <1> HIDE DEF g
  <1>4. f = Both(Both(Both(g, "symbol", "name"), "resolved", "resolved_addr"), "kind", "resolution")
    BY DEF Normalized, g
  <1>5. Both(g, "symbol", "name") = g
    BY <1>3 DEF Both, Alias, Has
  <1> DEFINE h == Both(g, "resolved", "resolved_addr")
  <1>6. h = Set(g, "resolved_addr", g["resolved"])
    BY <1>3 DEF Both, Alias, Has
  <1>7. /\ DOMAIN h = {"nid", "resolved", "resolved_addr"}
        /\ h["nid"] = e.nid /\ h["resolved"] = e.resolved /\ h["resolved_addr"] = e.resolved
    BY <1>3, <1>6 DEF Set
  <1>8. Both(h, "kind", "resolution") = h
    BY <1>7 DEF Both, Alias, Has
  <1> HIDE DEF h
  <1> QED
    BY <1>3, <1>4, <1>5, <1>7, <1>8 DEF g, h

LEMMA ProbeFields ==
  ASSUME NEW e \in Event, e.kind = "resolve", NEW f, f = Normalized("resolve", ProbeRow(e).fields)
  PROVE  /\ DOMAIN f = {"nid", "resolved", "resolved_addr"} /\ f["nid"] = e.nid
         /\ f["resolved"] = IF e.resolved = 0 THEN 0 ELSE PointerThreshold
         /\ f["resolved_addr"] = f["resolved"]
  <1> DEFINE g == ProbeRow(e).fields
             v == IF e.resolved = 0 THEN 0 ELSE PointerThreshold
  <1>1. DOMAIN g = {"nid", "resolved_addr"} /\ g["nid"] = e.nid /\ g["resolved_addr"] = v
    BY DEF ProbeRow
  <1> HIDE DEF g, v
  <1>2. f = Both(Both(Both(g, "symbol", "name"), "resolved", "resolved_addr"), "kind", "resolution")
    BY DEF Normalized, g
  <1>3. Both(g, "symbol", "name") = g
    BY <1>1 DEF Both, Alias, Has
  <1> DEFINE h == Both(g, "resolved", "resolved_addr")
  <1>4. h = Set(g, "resolved", g["resolved_addr"])
    BY <1>1 DEF Both, Alias, Has, Set
  <1>5. /\ DOMAIN h = {"nid", "resolved", "resolved_addr"}
        /\ h["nid"] = e.nid /\ h["resolved"] = v /\ h["resolved_addr"] = v
    BY <1>1, <1>4 DEF Set
  <1>6. Both(h, "kind", "resolution") = h
    BY <1>5 DEF Both, Alias, Has
  <1> HIDE DEF h
  <1> QED
    BY <1>2, <1>3, <1>5, <1>6 DEF h, v

LEMMA StubFields ==
  ASSUME NEW e, NEW f, f = Normalized("resolve", StubRow(e).fields)
  PROVE  DOMAIN f = {"nid", "kind", "resolution"} /\ f["nid"] = e.nid
  <1> DEFINE g == StubRow(e).fields
  <1>1. DOMAIN g = {"nid", "resolution"} /\ g["nid"] = e.nid
    BY DEF StubRow
  <1> HIDE DEF g
  <1>2. f = Both(Both(Both(g, "symbol", "name"), "resolved", "resolved_addr"), "kind", "resolution")
    BY DEF Normalized, g
  <1>3. Both(g, "symbol", "name") = g /\ Both(g, "resolved", "resolved_addr") = g
    BY <1>1 DEF Both, Alias, Has
  <1>4. Both(g, "kind", "resolution") = Set(g, "kind", g["resolution"])
    BY <1>1 DEF Both, Alias, Has, Set
  <1> QED
    BY <1>1, <1>2, <1>3, <1>4 DEF Set

LEMMA ModstartFields ==
  ASSUME NEW e \in Event, e.kind = "modstart", NEW n, NEW g, NEW f, f = Normalized("modstart", g),
         \/ g = OracleFields(e, n)
         \/ g = ElisaFields(e, n)
  PROVE  /\ DOMAIN f \in {{"module", "phase", "entry"}, {"module", "phase", "entry", "seq"}}
         /\ f["module"] = Library(e.module) /\ f["phase"] = e.phase
  <1>1. DOMAIN e = {"kind", "module", "phase", "entry"}
    BY EventKinds
  <1>2. g = Fields(e) \/ g = Set(Fields(e), "seq", n)
    BY DEF OracleFields, ElisaFields
  <1>3. /\ DOMAIN g \in {{"module", "phase", "entry"}, {"module", "phase", "entry", "seq"}}
        /\ g["module"] = e.module /\ g["phase"] = e.phase
    <2>1. /\ DOMAIN Fields(e) = {"module", "phase", "entry"}
          /\ Fields(e)["module"] = e.module /\ Fields(e)["phase"] = e.phase
      BY <1>1 DEF Fields
    <2>2. CASE g = Fields(e)
      BY <2>1, <2>2
    <2>3. CASE g = Set(Fields(e), "seq", n)
      BY <2>1, <2>3 DEF Set
    <2> QED
      BY <1>2, <2>2, <2>3
  <1>4. f = [g EXCEPT !["module"] = Library(@)]
    BY DEF Normalized
  <1> QED
    BY <1>3, <1>4

LEMMA CallFields ==
  ASSUME NEW e \in Event, e.kind = "hle", NEW n, NEW f,
         f = Normalized("hle", OracleFields(e, n)) \/ f = Fields(e)
  PROVE  /\ DOMAIN f \ {"seq"} = {"module", "symbol", "return"} \union (Args \intersect DOMAIN e)
         /\ \A k \in DOMAIN f \ {"seq"} : f[k] = e[k]
  <1>1. PICK A \in SUBSET Args : DOMAIN e = {"kind", "module", "symbol", "return"} \union A
    BY EventKinds
  <1>2. f = Set(Fields(e), "seq", n) \/ f = Fields(e)
    BY DEF Normalized, OracleFields
  <1>3. /\ DOMAIN Fields(e) = {"module", "symbol", "return"} \union A
        /\ A = Args \intersect DOMAIN e /\ "seq" \notin DOMAIN Fields(e)
        /\ \A k \in DOMAIN Fields(e) : Fields(e)[k] = e[k]
    BY <1>1 DEF Fields, Args
  <1>4. CASE f = Fields(e)
    BY <1>3, <1>4
  <1>5. CASE f = Set(Fields(e), "seq", n)
    <2>1. DOMAIN f = DOMAIN Fields(e) \union {"seq"}
      BY <1>5 DEF Set
    <2>2. \A k \in DOMAIN Fields(e) : f[k] = Fields(e)[k]
      BY <1>3, <1>5 DEF Set
    <2> QED
      BY <1>3, <2>1, <2>2
  <1> QED
    BY <1>2, <1>4, <1>5

(* Two pointers have one offset in the page just if pages lie between them.*)
LEMMA ModuloEqual ==
  ASSUME NEW l \in Nat, NEW r \in Nat
  PROVE  l % PageSize = r % PageSize <=> (l - r) % PageSize = 0
  BY DEF PageSize

LEMMA ArgEqual ==
  ASSUME NEW l \in Nat, NEW r \in Nat, NEW k \in Args
  PROVE  l = 0 \/ FieldEqual("hle", k, l, r) <=> SameArg(l, r)
  BY ModuloEqual DEF FieldEqual, SameArg

(* compare_records finds the fields of two records equal just if their     *)
(* events are the same behaviour, kind by kind.                            *)
LEMMA AgreeModule ==
  ASSUME NEW e \in Event, NEW p, port[p] \in Event, e.kind = "module", port[p].kind = "module",
         NEW n, NEW x, NEW y, x.kind = "module",
         x.fields = Normalized("module", OracleFields(e, n)),
         y.fields = Normalized("module", OracleFields(port[p], n))
  PROVE  Agree(x, y) <=> Same(e, p)
  <1> DEFINE a == port[p]
             f == x.fields
             g == y.fields
             F == {"name", "module", "base", "size", "index"}
  <1>1. /\ DOMAIN f = F /\ f["name"] = BaseName(e.name) /\ f["module"] = BaseName(e.name)
        /\ f["size"] = e.size /\ f["index"] = n
    BY ModuleFields
  <1>2. /\ DOMAIN g = F /\ g["name"] = BaseName(a.name) /\ g["module"] = BaseName(a.name)
        /\ g["size"] = a.size /\ g["index"] = n
    BY ModuleFields
  <1>3. Agree(x, y) <=> \A k \in F : Ignored("module", k, f[k]) \/ FieldEqual("module", k, f[k], g[k])
    BY <1>1, <1>2 DEF Agree
  <1> HIDE DEF f, g
  <1>4. \A k \in F : Ignored("module", k, f[k]) <=> k = "base"
    BY DEF Ignored
  <1>5. \A k \in F : FieldEqual("module", k, f[k], g[k]) <=> f[k] = g[k]
    BY DEF FieldEqual
  <1>6. Agree(x, y) <=> BaseName(e.name) = BaseName(a.name) /\ e.size = a.size
    BY <1>1, <1>2, <1>3, <1>4, <1>5
  <1>7. e.name \in FileName /\ a.name \in FileName
    BY EventKinds
  <1>8. BaseName(e.name) = BaseName(a.name) <=> e.name.stem = a.name.stem /\ e.name.ext = a.name.ext
    BY <1>7 DEF FileName, BaseName
  <1> QED
    BY <1>6, <1>8 DEF Same

LEMMA AgreeEntry ==
  ASSUME NEW e \in Event, e.kind = "entry", NEW n, NEW v,
         NEW x, NEW y, x.kind = "entry",
         x.fields = Normalized("entry", OracleFields(e, n)),
         y.fields = Normalized("entry", [entry |-> v])
  PROVE  Agree(x, y) <=> e.addr = v
  <1> DEFINE f == x.fields
             g == y.fields
             F == {"addr", "entry"}
  <1>1. DOMAIN e = {"kind", "addr"} /\ OracleFields(e, n) = Fields(e)
    BY EventKinds DEF OracleFields
  <1>2. DOMAIN OracleFields(e, n) = {"addr"} /\ OracleFields(e, n)["addr"] = e.addr
    BY <1>1 DEF Fields
  <1>3. DOMAIN f = F /\ f["addr"] = e.addr /\ f["entry"] = e.addr
    BY <1>2, EntryFields
  <1>4. DOMAIN g = F /\ g["addr"] = v /\ g["entry"] = v
    <2> DEFINE h == [entry |-> v]
    <2>1. DOMAIN h = {"entry"} /\ h["entry"] = v
      OBVIOUS
    <2> HIDE DEF h
    <2>2. g = Normalized("entry", h)
      BY DEF h
    <2> QED
      BY <2>1, <2>2, EntryFields
  <1>5. Agree(x, y) <=> \A k \in F : Ignored("entry", k, f[k]) \/ FieldEqual("entry", k, f[k], g[k])
    BY <1>3, <1>4 DEF Agree
  <1> HIDE DEF f, g
  <1>6. \A k \in F : ~Ignored("entry", k, f[k]) /\ (FieldEqual("entry", k, f[k], g[k]) <=> f[k] = g[k])
    BY DEF Ignored, FieldEqual
  <1> QED
    BY <1>3, <1>4, <1>5, <1>6

(* Of an import, a row of its module tells whether it is resolved, a probe *)
(* the address and a stub's row neither.                                   *)
LEMMA AgreeResolve ==
  ASSUME NEW e \in Event, NEW a \in Event, e.kind = "resolve", a.kind = "resolve", NEW n, NEW m,
         e.nid = a.nid, NEW x, NEW y, x.kind = "resolve",
         x.fields = Normalized("resolve", OracleFields(e, n))
  PROVE  /\ y.fields = Normalized("resolve", OracleFields(a, m))
              => (Agree(x, y) <=> e.resolved = a.resolved)
         /\ y.fields = Normalized("resolve", ProbeRow(a).fields)
              => (Agree(x, y) <=> e.resolved = 0 /\ a.resolved = 0)
         /\ y.fields = Normalized("resolve", StubRow(a).fields) => Agree(x, y)
  <1> DEFINE f == x.fields
             g == y.fields
             F == {"nid", "resolved", "resolved_addr"}
  <1>1. /\ DOMAIN f = F /\ f["nid"] = e.nid
        /\ f["resolved"] = e.resolved /\ f["resolved_addr"] = e.resolved
    BY ResolveFields
  <1>2. Agree(x, y) <=> \A k \in F \intersect DOMAIN g :
          Ignored("resolve", k, f[k]) \/ FieldEqual("resolve", k, f[k], g[k])
    BY <1>1 DEF Agree
  <1>3. ASSUME y.fields = Normalized("resolve", OracleFields(a, m))
        PROVE  /\ DOMAIN g = F /\ g["nid"] = a.nid
               /\ g["resolved"] = a.resolved /\ g["resolved_addr"] = a.resolved
    BY <1>3, ResolveFields
  <1>4. ASSUME y.fields = Normalized("resolve", ProbeRow(a).fields)
        PROVE  /\ DOMAIN g = F /\ g["nid"] = a.nid /\ g["resolved_addr"] = g["resolved"]
               /\ g["resolved"] = IF a.resolved = 0 THEN 0 ELSE PointerThreshold
    BY <1>4, ProbeFields
  <1>5. ASSUME y.fields = Normalized("resolve", StubRow(a).fields)
        PROVE  DOMAIN g = {"nid", "kind", "resolution"} /\ g["nid"] = a.nid
    BY <1>5, StubFields
  <1>6. e.resolved \in {0, 1} /\ a.resolved \in {0, 1} /\ PointerThreshold \notin {0, 1}
    <2>1. e.resolved \in {0, 1} /\ a.resolved \in {0, 1}
      BY EventKinds
    <2> QED
      BY <2>1 DEF PointerThreshold
  <1> HIDE DEF f, g
  <1>7. \A k \in F : /\ ~Ignored("resolve", k, f[k])
                     /\ FieldEqual("resolve", k, f[k], g[k]) <=> f[k] = g[k]
    BY DEF Ignored, FieldEqual
  <1>8. ASSUME y.fields = Normalized("resolve", OracleFields(a, m))
        PROVE  Agree(x, y) <=> e.resolved = a.resolved
    BY <1>1, <1>2, <1>3, <1>7, <1>8
  <1>9. ASSUME y.fields = Normalized("resolve", ProbeRow(a).fields)
        PROVE  Agree(x, y) <=> e.resolved = 0 /\ a.resolved = 0
    <2>1. Agree(x, y) <=> e.resolved = g["resolved"]
      BY <1>1, <1>2, <1>4, <1>7, <1>9
    <2> QED
      BY <1>4, <1>6, <1>9, <2>1
  <1>10. ASSUME y.fields = Normalized("resolve", StubRow(a).fields)
         PROVE  Agree(x, y)
    BY <1>1, <1>2, <1>5, <1>7, <1>10
  <1> QED
    BY <1>8, <1>9, <1>10

LEMMA AgreeModstart ==
  ASSUME NEW e \in Event, NEW p, port[p] \in Event, e.kind = "modstart", port[p].kind = "modstart",
         NEW n, NEW m, NEW x, NEW y, x.kind = "modstart",
         x.fields = Normalized("modstart", OracleFields(e, n)),
         y.fields = Normalized("modstart", ElisaFields(port[p], m))
  PROVE  Agree(x, y) <=> Same(e, p)
  <1> DEFINE a == port[p]
             f == x.fields
             g == y.fields
             F == DOMAIN f \intersect DOMAIN g
  <1>1. /\ DOMAIN f \in {{"module", "phase", "entry"}, {"module", "phase", "entry", "seq"}}
        /\ f["module"] = Library(e.module) /\ f["phase"] = e.phase
    BY ModstartFields
  <1>2. /\ DOMAIN g \in {{"module", "phase", "entry"}, {"module", "phase", "entry", "seq"}}
        /\ g["module"] = Library(a.module) /\ g["phase"] = a.phase
    BY ModstartFields
  <1>3. Agree(x, y) <=>
          \A k \in F : Ignored("modstart", k, f[k]) \/ FieldEqual("modstart", k, f[k], g[k])
    BY <1>1, <1>2 DEF Agree
  <1>4. F \in {{"module", "phase", "entry"}, {"module", "phase", "entry", "seq"}}
    BY <1>1, <1>2
  <1> HIDE DEF f, g, F
  <1>5. \A k \in F : Ignored("modstart", k, f[k]) <=> k \in {"entry", "seq"}
    BY <1>4 DEF Ignored
  <1>6. \A k \in F : FieldEqual("modstart", k, f[k], g[k]) <=> f[k] = g[k]
    BY DEF FieldEqual
  <1>7. Agree(x, y) <=> Library(e.module) = Library(a.module) /\ e.phase = a.phase
    BY <1>1, <1>2, <1>3, <1>4, <1>5, <1>6
  <1>8. e.module \in FileName /\ a.module \in FileName
    BY EventKinds
  <1> DEFINE Stripped(ext) == IF ext = ".prx" THEN "" ELSE ext
  <1>9. \A b \in FileName : Library(b) = [dir |-> "", stem |-> b.stem, ext |-> Stripped(b.ext)]
    BY DEF FileName, Library, BaseName
  <1>10. Library(e.module) = Library(a.module)
           <=> e.module.stem = a.module.stem /\ Stripped(e.module.ext) = Stripped(a.module.ext)
    <2> HIDE DEF Stripped
    <2> DEFINE s == e.module.stem
               t == a.module.stem
               u == Stripped(e.module.ext)
               v == Stripped(a.module.ext)
    <2>1. /\ Library(e.module) = [dir |-> "", stem |-> s, ext |-> u]
          /\ Library(a.module) = [dir |-> "", stem |-> t, ext |-> v]
      BY <1>8, <1>9
    <2> HIDE DEF s, t, u, v
    <2> DEFINE mine == [dir |-> "", stem |-> s, ext |-> u]
               theirs == [dir |-> "", stem |-> t, ext |-> v]
    <2>2. mine = theirs => mine.stem = theirs.stem /\ mine.ext = theirs.ext
      <3> HIDE DEF mine, theirs
      <3> QED
        OBVIOUS
    <2>3. mine.stem = s /\ mine.ext = u /\ theirs.stem = t /\ theirs.ext = v
      OBVIOUS
    <2>4. s = t /\ u = v => mine = theirs
      OBVIOUS
    <2>5. Library(e.module) = mine /\ Library(a.module) = theirs
      BY <2>1
    <2> HIDE DEF mine, theirs
    <2> QED
      BY <2>2, <2>3, <2>4, <2>5, Zenon DEF s, t, u, v
  <1>11. Stripped(e.module.ext) = Stripped(a.module.ext) <=>
           \/ e.module.ext = a.module.ext
           \/ {e.module.ext, a.module.ext} = {".prx", ""}
    OBVIOUS
  <1> QED
    BY <1>7, <1>10, <1>11 DEF Same

LEMMA AgreeCall ==
  ASSUME NEW e \in Event, NEW p, port[p] \in Event, e.kind = "hle", port[p].kind = "hle",
         NEW n, NEW m, NEW x, NEW y, x.kind = "hle",
         x.fields = Normalized("hle", OracleFields(e, n)),
         y.fields = Normalized("hle", OracleFields(port[p], m)) \/ y.fields = Fields(port[p])
  PROVE  Agree(x, y) <=> Same(e, p)
  <1> DEFINE a == port[p]
             f == x.fields
             g == y.fields
             R == Args \intersect DOMAIN e \intersect DOMAIN a
             F == DOMAIN f \intersect DOMAIN g
  <1>1. /\ DOMAIN f \ {"seq"} = {"module", "symbol", "return"} \union (Args \intersect DOMAIN e)
        /\ \A k \in DOMAIN f \ {"seq"} : f[k] = e[k]
    BY CallFields
  <1>2. /\ DOMAIN g \ {"seq"} = {"module", "symbol", "return"} \union (Args \intersect DOMAIN a)
        /\ \A k \in DOMAIN g \ {"seq"} : g[k] = a[k]
    BY CallFields
  <1>3. Agree(x, y) <=> \A k \in F : Ignored("hle", k, f[k]) \/ FieldEqual("hle", k, f[k], g[k])
    BY DEF Agree
  <1>4. F \ {"seq"} = {"module", "symbol", "return"} \union R
    BY <1>1, <1>2 DEF Args
  <1>5. \A k \in F \ {"seq"} : f[k] = e[k] /\ g[k] = a[k]
    BY <1>1, <1>2
  <1> HIDE DEF f, g, F
  <1>6. Ignored("hle", "seq", f["seq"]) /\ Ignored("hle", "return", f["return"])
    BY DEF Ignored
  <1>7. \A k \in {"module", "symbol"} : /\ ~Ignored("hle", k, f[k])
                                        /\ FieldEqual("hle", k, f[k], g[k]) <=> f[k] = g[k]
    BY DEF Ignored, FieldEqual, Args
  <1>8. \A k \in R : e[k] \in Nat /\ a[k] \in Nat
    <2>1. ASSUME NEW b \in Event, b.kind = "hle"
          PROVE  \A k \in Args \intersect DOMAIN b : b[k] \in Nat
      <3>1. PICK A \in SUBSET Args : /\ DOMAIN b = {"kind", "module", "symbol", "return"} \union A
                                     /\ \A r \in A : b[r] \in Nat
        BY <2>1, EventKinds
      <3>2. Args \intersect {"kind", "module", "symbol", "return"} = {}
        BY DEF Args
      <3> QED
        BY <3>1, <3>2
    <2> QED
      BY <2>1
  <1>9. \A k \in R : Ignored("hle", k, e[k]) <=> e[k] = 0
    BY DEF Ignored, Args
  <1>10. \A k \in R : Ignored("hle", k, e[k]) \/ FieldEqual("hle", k, e[k], a[k]) <=> SameArg(e[k], a[k])
    BY <1>8, <1>9, ArgEqual
  <1>11. Agree(x, y) <=> /\ e.module = a.module /\ e.symbol = a.symbol
                         /\ \A k \in R : SameArg(e[k], a[k])
    BY <1>3, <1>4, <1>5, <1>6, <1>7, <1>10
  <1> QED
    BY <1>11 DEF Same

------------------------------------------------------------------------------
(* The records of the two traces                                           *)
------------------------------------------------------------------------------

(* Logs and questions as they are in every reachable state.                *)
EventKind == {"module", "entry", "resolve", "hle", "modstart"}
Logged == boot \in Seq(Event) /\ port \in Seq(Event)
Asked == diff.kinds \subseteq EventKind /\ diff.limit \in Nat /\ diff.cut \in BOOLEAN

(* What compare_records is given, and the key an event of the reference is *)
(* looked up by.                                                           *)
Expected == Only(OracleRecords(OracleRows), diff.kinds)
Recorded == ElisaRecords(ElisaRows(diff.cut), Facts(diff.cut))
Actual == Only(Recorded, diff.kinds)
KeyOf(i) == <<boot[i].kind, CASE boot[i].kind = "entry" -> 0
                              [] boot[i].kind = "resolve" -> boot[i].nid
                              [] OTHER -> Number(i)>>

(* Positions are numbers, and sets of them can be counted.                 *)
LEMMA Positions ==
  ASSUME Logged
  PROVE  /\ \A i \in DOMAIN boot : boot[i] \in Event /\ i \in Nat
         /\ \A p \in DOMAIN port : port[p] \in Event /\ p \in Nat /\ 1 <= p
         /\ \A S \in SUBSET DOMAIN boot : Places(S)
         /\ \A S \in SUBSET DOMAIN port : Places(S)
  <1>1. boot \in Seq(Event) /\ port \in Seq(Event)
    BY DEF Logged
  <1>2. \A i \in DOMAIN boot : boot[i] \in Event /\ i \in Nat
    BY <1>1
  <1>3. \A p \in DOMAIN port : port[p] \in Event /\ p \in Nat /\ 1 <= p
    BY <1>1
  <1>4. \A S \in SUBSET DOMAIN boot : Places(S)
    BY <1>1, PlacesOf
  <1>5. \A S \in SUBSET DOMAIN port : Places(S)
    BY <1>1, PlacesOf
  <1> QED
    BY <1>2, <1>3, <1>4, <1>5

(* parse_boot_oracle keeps all but the calls of unknown wrappers.          *)
LEMMA RowsKept ==
  ASSUME Logged
  PROVE  KeptRows(OracleRows) = {i \in DOMAIN boot : Named(boot[i])}
  <1> DEFINE g(i) == OracleFields(boot[i], NumberOf(boot, i))
  <1>1. /\ DOMAIN OracleRows = DOMAIN boot
        /\ \A i \in DOMAIN boot : OracleRows[i].kind = boot[i].kind /\ OracleRows[i].fields = g(i)
    BY DEF OracleRows
  <1>2. ASSUME NEW i \in DOMAIN boot, boot[i].kind = "hle"
        PROVE  Has(g(i), "module") /\ g(i)["symbol"] = boot[i].symbol
    <2>1. boot[i] \in Event
      BY Positions
    <2>2. PICK A \in SUBSET Args : DOMAIN boot[i] = {"kind", "module", "symbol", "return"} \union A
      BY <1>2, <2>1, EventKinds
    <2>3. g(i) = Set(Fields(boot[i]), "seq", NumberOf(boot, i))
      BY <1>2 DEF OracleFields
    <2>4. /\ {"module", "symbol"} \subseteq DOMAIN Fields(boot[i])
          /\ Fields(boot[i])["symbol"] = boot[i].symbol
      BY <2>2 DEF Fields
    <2> QED
      BY <2>3, <2>4 DEF Set, Has
  <1> HIDE DEF g
  <1>3. \A i \in DOMAIN boot : Kept(OracleRows[i]) <=> Named(boot[i])
    BY <1>1, <1>2 DEF Kept, Named
  <1> QED
    BY <1>1, <1>3 DEF KeptRows

(* The records expected: one for each event compared, under its number     *)
(* among those of its kind.                                                *)
LEMMA ExpectedIs ==
  ASSUME Logged
  PROVE  /\ DOMAIN Expected = Compare
         /\ \A i \in Compare :
              /\ Expected[i].kind = boot[i].kind
              /\ Expected[i].fields = Normalized(boot[i].kind, OracleFields(boot[i], NumberOf(boot, i)))
              /\ Expected[i].key = KeyOf(i)
              /\ boot[i].kind = "module" => NumberOf(boot, i) = Number(i)
  <1> DEFINE K == {i \in DOMAIN boot : Named(boot[i])}
             n(i) == NumberOf(Restrict(OracleRows, K), i)
             f(i) == Normalized(boot[i].kind, OracleFields(boot[i], NumberOf(boot, i)))
  <1>1. OracleRecords(OracleRows) = [i \in K |-> Record(OracleRows[i], n(i))]
    BY RowsKept DEF OracleRecords
  <1>2. \A i \in DOMAIN boot : /\ OracleRows[i].kind = boot[i].kind
                               /\ OracleRows[i].fields = OracleFields(boot[i], NumberOf(boot, i))
    BY DEF OracleRows
  <1>3. \A i \in K : Record(OracleRows[i], n(i)) =
          [kind |-> boot[i].kind, fields |-> f(i), key |-> Key(boot[i].kind, f(i), n(i))]
    BY <1>2 DEF Record
  <1>4. /\ DOMAIN Expected = {i \in K : boot[i].kind \in diff.kinds}
        /\ \A i \in DOMAIN Expected : Expected[i] = Record(OracleRows[i], n(i))
    <2> DEFINE R == OracleRecords(OracleRows)
               r(i) == Record(OracleRows[i], n(i))
    <2>1. DOMAIN R = K /\ \A i \in K : R[i] = r(i)
      BY <1>1
    <2>2. \A i \in K : R[i].kind = boot[i].kind
      <3> HIDE DEF R, K, n, f
      <3>1. ASSUME NEW i \in K
            PROVE  r(i).kind = boot[i].kind
        <4> DEFINE key == Key(boot[i].kind, f(i), n(i))
                   fields == f(i)
        <4>1. r(i) = [kind |-> boot[i].kind, fields |-> fields, key |-> key]
          BY <1>3
        <4> HIDE DEF r, key, fields
        <4> QED
          BY <4>1
      <3> QED
        BY <2>1, <3>1
    <2>3. Expected = Restrict(R, {i \in DOMAIN R : R[i].kind \in diff.kinds})
      BY DEF Expected, Only
    <2> HIDE DEF R, r, K
    <2>4. {i \in DOMAIN R : R[i].kind \in diff.kinds} = {i \in K : boot[i].kind \in diff.kinds}
      BY <2>1, <2>2
    <2>5. Expected = [i \in {j \in K : boot[j].kind \in diff.kinds} |-> R[i]]
      BY <2>3, <2>4 DEF Restrict
    <2>6. \A i \in DOMAIN Expected : Expected[i] = r(i)
      BY <2>1, <2>5
    <2> QED
      BY <2>5, <2>6 DEF r
  <1>5. DOMAIN Expected = Compare
    BY <1>4 DEF Compare
  <1>6. ASSUME NEW i \in Compare
        PROVE  n(i) = Number(i)
    <2>1. i \in K /\ boot[i].kind \in diff.kinds
      BY DEF Compare
    <2>2. /\ DOMAIN Restrict(OracleRows, K) = K
          /\ \A j \in K : Restrict(OracleRows, K)[j].kind = boot[j].kind
      BY <1>2 DEF Restrict
    <2>3. OfKind(boot[i].kind, Restrict(OracleRows, K)) = {j \in K : boot[j].kind = boot[i].kind}
      BY <2>2 DEF OfKind
    <2>4. {j \in K : boot[j].kind = boot[i].kind} = {j \in Compare : boot[j].kind = boot[i].kind}
      BY <2>1 DEF Compare
    <2> QED
      BY <2>1, <2>2, <2>3, <2>4 DEF NumberOf, Number
  <1>7. ASSUME NEW i \in Compare, boot[i].kind = "module"
        PROVE  NumberOf(boot, i) = Number(i)
    <2>1. OfKind("module", boot) = {j \in Compare : boot[j].kind = boot[i].kind}
      BY <1>7 DEF OfKind, Compare, Named
    <2> QED
      BY <1>7, <2>1 DEF NumberOf, Number
  <1>8. ASSUME NEW i \in Compare
        PROVE  Key(boot[i].kind, f(i), n(i)) = KeyOf(i)
    <2>1. boot[i] \in Event
      BY Positions DEF Compare
    <2>2. CASE boot[i].kind = "module"
      <3>1. Has(f(i), "index") /\ f(i)["index"] = NumberOf(boot, i)
        BY <2>1, <2>2, ModuleFields DEF Has
      <3> QED
        BY <1>7, <2>2, <3>1 DEF Key, KeyOf, Either
    <2>3. CASE boot[i].kind = "resolve"
      <3>1. Has(f(i), "nid") /\ f(i)["nid"] = boot[i].nid
        BY <2>1, <2>3, ResolveFields DEF Has
      <3> QED
        BY <2>3, <3>1 DEF Key, KeyOf, Either
    <2>4. CASE boot[i].kind = "entry"
      BY <2>4 DEF Key, KeyOf
    <2>5. CASE boot[i].kind \in {"hle", "modstart"}
      BY <1>6, <2>5 DEF Key, KeyOf
    <2> QED
      BY <2>1, <2>2, <2>3, <2>4, <2>5, EventKinds
  <1> HIDE DEF n, f
  <1>9. \A i \in Compare : Expected[i] =
          [kind |-> boot[i].kind, fields |-> f(i), key |-> KeyOf(i)]
    BY <1>3, <1>4, <1>5, <1>8
  <1> QED
    BY <1>5, <1>7, <1>9 DEF f

(* The rows of the artifact file, the last of them, and the key of the n-th*)
(* event of a kind.                                                        *)
Rows == DOMAIN ElisaRows(diff.cut)
End == Max(Rows \union {0})
KeyFor(k, n) == <<k, IF k = "entry" THEN 0 ELSE n>>

(* The last of a set of numbers is its greatest, whatever its sign.        *)
LEMMA MaxIs ==
  ASSUME NEW S \in SUBSET Int, NEW m \in S, \A i \in S : i <= m
  PROVE  Max(S) = m
  <1>1. \E x \in S : \A y \in S : x >= y
    OBVIOUS
  <1>2. Max(S) \in S /\ \A y \in S : Max(S) >= y
    BY <1>1 DEF Max
  <1>3. Max(S) \in Int /\ m \in Int /\ Max(S) >= m /\ Max(S) <= m
    BY <1>2
  <1> QED
    BY <1>3

(* The probes stand before the other rows, the stubs behind, and End is the*)
(* last of all.                                                            *)
LEMMA RowsAre ==
  ASSUME Logged
  PROVE  /\ Len(port) \in Nat /\ DOMAIN port = 1 .. Len(port)
         /\ Rows = Emitted(diff.cut) \union {p - Len(port) : p \in Probes}
                                    \union {p + Len(port) : p \in Stubs}
         /\ \A p \in Emitted(diff.cut) : p \in DOMAIN port /\ p \in Nat /\ p >= 1 /\ p <= Len(port)
         /\ \A p \in Probes : p \in DOMAIN port /\ p \in Nat /\ p - Len(port) < 1
         /\ \A p \in Stubs : p \in DOMAIN port /\ p \in Nat /\ p + Len(port) > Len(port)
         /\ End \in Nat /\ \A q \in Rows : q \in Int /\ q <= End
  <1> DEFINE len == Len(port)
             E == Emitted(diff.cut)
             before == {p - len : p \in Probes}
             behind == {p + len : p \in Stubs}
             N == E \union behind \union {0}
  <1>1. len \in Nat /\ DOMAIN port = 1 .. len
    BY DEF Logged
  <1>2. Rows = E \union before \union behind
    BY DEF Rows, ElisaRows
  <1>3. E \subseteq DOMAIN port /\ Probes \subseteq DOMAIN port /\ Stubs \subseteq DOMAIN port
    BY DEF Emitted, Probes, Stubs, Imports, OfKind
  <1>4. Places(E) /\ Places(Stubs)
    BY <1>3, Positions
  <1> HIDE DEF E, len
  <1>5. /\ \A p \in E : p \in Nat /\ p >= 1 /\ p <= len
        /\ \A p \in Probes : p \in Nat /\ p - len < 1 /\ p - len \in Int
        /\ \A p \in Stubs : p \in Nat /\ p + len > len /\ p + len \in Int
    BY <1>1, <1>3
  <1>6. Places(N)
    <2>1. \A p \in Stubs : p + len \in 0 .. len + len
      BY <1>1, <1>3
    <2>2. E \subseteq 0 .. len + len /\ 0 \in 0 .. len + len /\ 0 .. len + len \subseteq Nat
      BY <1>1, <1>3
    <2>3. behind \subseteq 0 .. len + len
      BY <2>1
    <2>4. N \subseteq 0 .. len + len
      BY <2>2, <2>3
    <2>5. IsFiniteSet(0 .. len + len)
      BY <1>1, FS_Interval
    <2> HIDE DEF N
    <2>6. IsFiniteSet(N) /\ N \subseteq Nat
      BY <2>2, <2>4, <2>5, FS_Subset
    <2> QED
      BY <2>6 DEF Places
  <1>7. Max(N) \in N /\ Max(N) \in Nat /\ \A q \in N : q <= Max(N)
    <2>1. N # {}
      OBVIOUS
    <2> HIDE DEF N
    <2> QED
      BY <1>6, <2>1, MaxIsLast DEF Places
  <1>8. \A q \in Rows \union {0} : q \in Int /\ q <= Max(N)
    <2>1. \A q \in before : q \in Int /\ q <= 0
      BY <1>5
    <2>2. 0 \in N /\ \A q \in E \union behind : q \in N /\ q \in Int
      BY <1>5
    <2> HIDE DEF N, before, behind
    <2>3. 0 <= Max(N)
      BY <1>7, <2>2
    <2>4. \A q \in before : q <= Max(N)
      BY <1>7, <2>1, <2>3
    <2> QED
      BY <1>2, <1>7, <2>1, <2>2, <2>3, <2>4
  <1>9. Max(N) \in Rows \union {0}
    BY <1>2, <1>7
  <1>10. End = Max(N)
    <2> HIDE DEF N
    <2> QED
      BY <1>8, <1>9, MaxIs DEF End
  <1> QED
    BY <1>1, <1>2, <1>3, <1>5, <1>7, <1>8, <1>10 DEF E, len

(* The records of the three families of rows.                              *)
LEMMA RowIs ==
  ASSUME Logged, NEW p \in Emitted(diff.cut)
  PROVE  LET row == ElisaRecord(ElisaRows(diff.cut)[p])
             n == NumberOf(port, p)
         IN  /\ row.kind = port[p].kind
             /\ row.key = <<port[p].kind, IF port[p].kind = "resolve" THEN port[p].nid ELSE n>>
             /\ row.fields = Normalized(port[p].kind, ElisaFields(port[p], n))
  <1> DEFINE n == NumberOf(port, p)
             g == ElisaFields(port[p], n)
             key == <<port[p].kind, IF port[p].kind = "resolve" THEN port[p].nid ELSE n>>
             row == ElisaRecord(ElisaRows(diff.cut)[p])
  <1>1. port[p] \in Event /\ port[p].kind # "entry"
    BY Positions DEF Emitted
  <1>2. ElisaRows(diff.cut)[p] = [kind |-> port[p].kind, fields |-> g]
    <2>1. p \in Rows /\ ~(p < 1) /\ ~(p > Len(port))
      BY RowsAre
    <2> QED
      BY <2>1 DEF ElisaRows, Rows
  <1>3. row = [kind |-> port[p].kind, fields |-> Normalized(port[p].kind, g),
               key |-> ElisaKey(port[p].kind, g)]
    BY <1>2 DEF ElisaRecord
  <1>4. ElisaKey(port[p].kind, g) = key
    <2>1. CASE port[p].kind = "module"
      <3>1. g = OracleFields(port[p], n)
        BY <2>1 DEF ElisaFields
      <3>2. g["index"] = n
        BY <1>1, <2>1, <3>1, ModuleFields
      <3> QED
        BY <2>1, <3>2 DEF ElisaKey
    <2>2. CASE port[p].kind = "resolve"
      <3>1. g = OracleFields(port[p], n)
        BY <2>2 DEF ElisaFields
      <3>2. g["nid"] = port[p].nid
        BY <1>1, <2>2, <3>1, ResolveFields
      <3> QED
        BY <2>2, <3>2 DEF ElisaKey
    <2>3. CASE port[p].kind \in {"hle", "modstart"}
      <3>1. g = Set(Fields(port[p]), "seq", n)
        BY <2>3 DEF ElisaFields, OracleFields
      <3>2. g["seq"] = n
        BY <3>1 DEF Set
      <3> QED
        BY <2>3, <3>2 DEF ElisaKey
    <2> QED
      BY <1>1, <2>1, <2>2, <2>3, EventKinds
  <1> HIDE DEF g
  <1>5. /\ row.kind = port[p].kind /\ row.key = ElisaKey(port[p].kind, g)
        /\ row.fields = Normalized(port[p].kind, g)
    BY <1>3
  <1> QED
    BY <1>4, <1>5 DEF g

LEMMA ImportRowIs ==
  ASSUME Logged, NEW p
  PROVE  /\ p \in Probes =>
              LET row == ElisaRecord(ElisaRows(diff.cut)[p - Len(port)])
              IN  /\ row.kind = "resolve" /\ row.key = <<"resolve", port[p].nid>>
                  /\ row.fields = Normalized("resolve", ProbeRow(port[p]).fields)
         /\ p \in Stubs =>
              LET row == ElisaRecord(ElisaRows(diff.cut)[p + Len(port)])
              IN  /\ row.kind = "resolve" /\ row.key = <<"resolve", port[p].nid>>
                  /\ row.fields = Normalized("resolve", StubRow(port[p]).fields)
  <1>1. /\ ProbeRow(port[p]).kind = "resolve" /\ ProbeRow(port[p]).fields["nid"] = port[p].nid
        /\ StubRow(port[p]).kind = "resolve" /\ StubRow(port[p]).fields["nid"] = port[p].nid
    BY DEF ProbeRow, StubRow
  <1>2. ASSUME NEW r, r.kind = "resolve", r.fields["nid"] = port[p].nid
        PROVE  /\ ElisaRecord(r).kind = "resolve" /\ ElisaRecord(r).key = <<"resolve", port[p].nid>>
               /\ ElisaRecord(r).fields = Normalized("resolve", r.fields)
    <2> DEFINE f == Normalized("resolve", r.fields)
    <2>1. ElisaRecord(r) = [kind |-> "resolve", fields |-> f, key |-> <<"resolve", port[p].nid>>]
      BY <1>2 DEF ElisaRecord, ElisaKey
    <2> HIDE DEF f
    <2>2. ElisaRecord(r).fields = f
      BY <2>1
    <2> QED
      BY <2>1, <2>2 DEF f
  <1>3. ASSUME p \in Probes
        PROVE  ElisaRows(diff.cut)[p - Len(port)] = ProbeRow(port[p])
    <2>1. /\ p - Len(port) \in Rows /\ p - Len(port) < 1 /\ p - Len(port) + Len(port) = p
      BY <1>3, RowsAre
    <2> QED
      BY <2>1 DEF ElisaRows, Rows
  <1>4. ASSUME p \in Stubs
        PROVE  ElisaRows(diff.cut)[p + Len(port)] = StubRow(port[p])
    <2> DEFINE q == p + Len(port)
    <2>1. q \in Rows /\ ~(q < 1) /\ q > Len(port) /\ q - Len(port) = p
      BY <1>4, RowsAre
    <2> HIDE DEF q
    <2>2. ElisaRows(diff.cut)[q] = StubRow(port[q - Len(port)])
      BY <2>1 DEF ElisaRows, Rows
    <2> QED
      BY <2>1, <2>2 DEF q
  <1> QED
    BY <1>1, <1>2, <1>3, <1>4

(* The records of the artifact file: its rows, the entry of the facts, and *)
(* the last call if no row has one.                                        *)
Alike(r, kind, key, fields) == r.kind = kind /\ r.key = key /\ r.fields = fields
NoCallShown == OfKind("hle", port) # {} /\ OfKind("hle", port) \intersect Emitted(diff.cut) = {}

LEMMA RecordedIs ==
  ASSUME Logged
  PROVE  LET facts == Facts(diff.cut)
         IN  /\ DOMAIN Recorded = Rows \union (IF "entry" \in DOMAIN facts THEN {End + 1} ELSE {})
                                       \union (IF NoCallShown THEN {End + 2} ELSE {})
             /\ \A q \in Rows : Recorded[q] = ElisaRecord(ElisaRows(diff.cut)[q])
             /\ "entry" \in DOMAIN facts => Alike(Recorded[End + 1], "entry", <<"entry", 0>>,
                                               Normalized("entry", [entry |-> facts["entry"]]))
             /\ NoCallShown => Alike(Recorded[End + 2], "hle", <<"hle", 1>>,
                                     Fields(port[Max(OfKind("hle", port))]))
  <1> DEFINE calls == OfKind("hle", port)
             facts == Facts(diff.cut)
             rows == ElisaRows(diff.cut)
             entry == IF "entry" \in DOMAIN facts THEN {End + 1} ELSE {}
             call == IF NoCallShown THEN {End + 2} ELSE {}
             third == [kind |-> "hle", key |-> <<"hle", 1>>, fields |-> facts["last_hle"]]
             second == [kind |-> "entry", key |-> <<"entry", 0>>,
                        fields |-> Normalized("entry", [entry |-> facts["entry"]])]
             first(q) == ElisaRecord(rows[q])
  <1>1. \A r : ElisaRecord(r).kind = r.kind
    BY DEF ElisaRecord
  <1>2. DOMAIN rows = Rows
    BY DEF Rows
  <1>3. OfKind("hle", rows) = calls \intersect Emitted(diff.cut)
    <2>1. \A q \in Emitted(diff.cut) : q \in Rows /\ q \in DOMAIN port /\ rows[q].kind = port[q].kind
      BY <1>1, RowIs, RowsAre
    <2>2. \A q \in Rows \ Emitted(diff.cut) : rows[q].kind = "resolve"
      <3> SUFFICES ASSUME NEW q \in Rows \ Emitted(diff.cut)
                   PROVE  rows[q].kind = "resolve"
        OBVIOUS
      <3>1. (\E p \in Probes : q = p - Len(port)) \/ (\E p \in Stubs : q = p + Len(port))
        BY RowsAre
      <3>2. ElisaRecord(rows[q]).kind = "resolve"
        BY <3>1, ImportRowIs
      <3> QED
        BY <1>1, <3>2
    <2> HIDE DEF rows
    <2> QED
      BY <1>2, <2>1, <2>2 DEF OfKind
  <1>4. /\ Has(facts, "entry") <=> "entry" \in DOMAIN facts
        /\ Has(facts, "last_hle") <=> calls # {}
        /\ calls # {} => facts["last_hle"] = Fields(port[Max(calls)])
    BY DEF Facts, Has
  <1>5. Max(DOMAIN rows \union {0}) = End
    BY <1>2 DEF End
  <1>6. End + 1 # End + 2 /\ End + 1 \notin Rows /\ End + 2 \notin Rows
    BY RowsAre
  <1>7. Recorded = [i \in Rows \union entry \union call |->
                      IF i \in Rows THEN first(i) ELSE IF i = End + 1 THEN second ELSE third]
    BY <1>2, <1>3, <1>4, <1>5 DEF ElisaRecords, Recorded, NoCallShown
  <1>8. /\ Alike(second, "entry", <<"entry", 0>>, Normalized("entry", [entry |-> facts["entry"]]))
        /\ Alike(third, "hle", <<"hle", 1>>, facts["last_hle"])
    BY DEF Alike
  <1>9. NoCallShown => calls # {}
    BY DEF NoCallShown
  <1> HIDE DEF calls, facts, rows, second, third, first
  <1>10. \A q \in Rows : Recorded[q] = first(q)
    BY <1>7
  <1>11. "entry" \in DOMAIN facts => Recorded[End + 1] = second
    BY <1>6, <1>7
  <1>12. NoCallShown => Recorded[End + 2] = third
    BY <1>6, <1>7
  <1>13. DOMAIN Recorded = Rows \union entry \union call
    BY <1>7
  <1>14. "entry" \in DOMAIN facts =>
           Alike(Recorded[End + 1], "entry", <<"entry", 0>>, Normalized("entry", [entry |-> facts["entry"]]))
    BY <1>8, <1>11
  <1>15. NoCallShown => Alike(Recorded[End + 2], "hle", <<"hle", 1>>, Fields(port[Max(calls)]))
    BY <1>4, <1>8, <1>9, <1>12
  <1> QED
    BY <1>10, <1>13, <1>14, <1>15 DEF calls, facts, first, rows

(* The records compared, by where they come from: the rows of the events,  *)
(* of the probes and of the stubs, and the two facts.                      *)
LEMMA ActualIs ==
  ASSUME Logged
  PROVE  LET facts == Facts(diff.cut)
             len == Len(port)
         IN  /\ \A p \in Emitted(diff.cut) : port[p].kind \in diff.kinds =>
                  /\ p \in DOMAIN Actual
                  /\ LET n == NumberOf(port, p)
                     IN  Alike(Actual[p], port[p].kind,
                               <<port[p].kind, IF port[p].kind = "resolve" THEN port[p].nid ELSE n>>,
                               Normalized(port[p].kind, ElisaFields(port[p], n)))
             /\ \A p \in Probes : "resolve" \in diff.kinds =>
                  /\ p - len \in DOMAIN Actual
                  /\ Alike(Actual[p - len], "resolve", <<"resolve", port[p].nid>>,
                           Normalized("resolve", ProbeRow(port[p]).fields))
             /\ \A p \in Stubs : "resolve" \in diff.kinds =>
                  /\ p + len \in DOMAIN Actual
                  /\ Alike(Actual[p + len], "resolve", <<"resolve", port[p].nid>>,
                           Normalized("resolve", StubRow(port[p]).fields))
             /\ "entry" \in DOMAIN facts /\ "entry" \in diff.kinds =>
                  /\ End + 1 \in DOMAIN Actual
                  /\ Alike(Actual[End + 1], "entry", <<"entry", 0>>,
                           Normalized("entry", [entry |-> facts["entry"]]))
             /\ NoCallShown /\ "hle" \in diff.kinds =>
                  /\ End + 2 \in DOMAIN Actual
                  /\ Alike(Actual[End + 2], "hle", <<"hle", 1>>, Fields(port[Max(OfKind("hle", port))]))
             /\ \A q \in DOMAIN Actual :
                  \/ q \in Emitted(diff.cut) /\ port[q].kind \in diff.kinds
                  \/ "resolve" \in diff.kinds /\ \E p \in Probes : q = p - len
                  \/ "resolve" \in diff.kinds /\ \E p \in Stubs : q = p + len
                  \/ q = End + 1 /\ "entry" \in DOMAIN facts /\ "entry" \in diff.kinds
                  \/ q = End + 2 /\ NoCallShown /\ "hle" \in diff.kinds
  <1> DEFINE facts == Facts(diff.cut)
             len == Len(port)
             E == Emitted(diff.cut)
  <1>1. /\ DOMAIN Actual = {q \in DOMAIN Recorded : Recorded[q].kind \in diff.kinds}
        /\ \A q \in DOMAIN Actual : Actual[q] = Recorded[q]
    BY DEF Actual, Only, Restrict
  <1>2. /\ DOMAIN Recorded = Rows \union (IF "entry" \in DOMAIN facts THEN {End + 1} ELSE {})
                                  \union (IF NoCallShown THEN {End + 2} ELSE {})
        /\ \A q \in Rows : Recorded[q] = ElisaRecord(ElisaRows(diff.cut)[q])
        /\ "entry" \in DOMAIN facts => Alike(Recorded[End + 1], "entry", <<"entry", 0>>,
                                          Normalized("entry", [entry |-> facts["entry"]]))
        /\ NoCallShown => Alike(Recorded[End + 2], "hle", <<"hle", 1>>,
                                Fields(port[Max(OfKind("hle", port))]))
    BY RecordedIs
  <1>3. Rows = E \union {p - len : p \in Probes} \union {p + len : p \in Stubs}
    BY RowsAre
  <1>4. ASSUME NEW p \in E
        PROVE  /\ p \in DOMAIN Recorded
               /\ LET n == NumberOf(port, p)
                  IN  Alike(Recorded[p], port[p].kind,
                            <<port[p].kind, IF port[p].kind = "resolve" THEN port[p].nid ELSE n>>,
                            Normalized(port[p].kind, ElisaFields(port[p], n)))
    BY <1>2, <1>3, RowIs DEF Alike
  <1>5. ASSUME NEW p \in Probes
        PROVE  /\ p - len \in DOMAIN Recorded
               /\ Alike(Recorded[p - len], "resolve", <<"resolve", port[p].nid>>,
                        Normalized("resolve", ProbeRow(port[p]).fields))
    BY <1>2, <1>3, ImportRowIs DEF Alike
  <1>6. ASSUME NEW p \in Stubs
        PROVE  /\ p + len \in DOMAIN Recorded
               /\ Alike(Recorded[p + len], "resolve", <<"resolve", port[p].nid>>,
                        Normalized("resolve", StubRow(port[p]).fields))
    BY <1>2, <1>3, ImportRowIs DEF Alike
  <1>7. \A r, kind, key, fields : Alike(r, kind, key, fields) => r.kind = kind
    BY DEF Alike
  <1> HIDE DEF facts, len, E
  <1>8. \A p \in E : Recorded[p].kind = port[p].kind
    BY <1>4, <1>7
  <1>9. \A p \in Probes : Recorded[p - len].kind = "resolve"
    BY <1>5, <1>7
  <1>10. \A p \in Stubs : Recorded[p + len].kind = "resolve"
    BY <1>6, <1>7
  <1>11. "entry" \in DOMAIN facts => Recorded[End + 1].kind = "entry" /\ End + 1 \in DOMAIN Recorded
    BY <1>2, <1>7
  <1>12. NoCallShown => Recorded[End + 2].kind = "hle" /\ End + 2 \in DOMAIN Recorded
    BY <1>2, <1>7
  <1>13. ASSUME NEW q \in DOMAIN Actual
         PROVE  \/ q \in E /\ port[q].kind \in diff.kinds
                \/ "resolve" \in diff.kinds /\ \E p \in Probes : q = p - len
                \/ "resolve" \in diff.kinds /\ \E p \in Stubs : q = p + len
                \/ q = End + 1 /\ "entry" \in DOMAIN facts /\ "entry" \in diff.kinds
                \/ q = End + 2 /\ NoCallShown /\ "hle" \in diff.kinds
    <2>1. q \in DOMAIN Recorded /\ Recorded[q].kind \in diff.kinds
      BY <1>1
    <2>2. CASE q \in E
      BY <1>8, <2>1, <2>2
    <2>3. CASE \E p \in Probes : q = p - len
      BY <1>9, <2>1, <2>3
    <2>4. CASE \E p \in Stubs : q = p + len
      BY <1>10, <2>1, <2>4
    <2>5. CASE q = End + 1 /\ "entry" \in DOMAIN facts
      BY <1>11, <2>1, <2>5
    <2>6. CASE q = End + 2 /\ NoCallShown
      BY <1>12, <2>1, <2>6
    <2> QED
      BY <1>2, <1>3, <2>1, <2>2, <2>3, <2>4, <2>5, <2>6
  <1>14. \A p \in E : port[p].kind \in diff.kinds =>
           /\ p \in DOMAIN Actual
           /\ LET n == NumberOf(port, p)
              IN  Alike(Actual[p], port[p].kind,
                        <<port[p].kind, IF port[p].kind = "resolve" THEN port[p].nid ELSE n>>,
                        Normalized(port[p].kind, ElisaFields(port[p], n)))
    BY <1>1, <1>4, <1>8
  <1>15. \A p \in Probes : "resolve" \in diff.kinds =>
           /\ p - len \in DOMAIN Actual
           /\ Alike(Actual[p - len], "resolve", <<"resolve", port[p].nid>>,
                    Normalized("resolve", ProbeRow(port[p]).fields))
    BY <1>1, <1>5, <1>9
  <1>16. \A p \in Stubs : "resolve" \in diff.kinds =>
           /\ p + len \in DOMAIN Actual
           /\ Alike(Actual[p + len], "resolve", <<"resolve", port[p].nid>>,
                    Normalized("resolve", StubRow(port[p]).fields))
    BY <1>1, <1>6, <1>10
  <1>17. "entry" \in DOMAIN facts /\ "entry" \in diff.kinds =>
           /\ End + 1 \in DOMAIN Actual
           /\ Alike(Actual[End + 1], "entry", <<"entry", 0>>,
                    Normalized("entry", [entry |-> facts["entry"]]))
    BY <1>1, <1>2, <1>11
  <1>18. NoCallShown /\ "hle" \in diff.kinds =>
           /\ End + 2 \in DOMAIN Actual
           /\ Alike(Actual[End + 2], "hle", <<"hle", 1>>, Fields(port[Max(OfKind("hle", port))]))
    BY <1>1, <1>2, <1>12
  <1> QED
    BY <1>13, <1>14, <1>15, <1>16, <1>17, <1>18 DEF facts, len, E

(* What the record told of the event at p, as the n-th of a kind, says.    *)
Shows(k, p, n, f) ==
  CASE k = "entry" ->
         f = Normalized("entry", [entry |-> IF port[p].kind = "entry" THEN port[p].addr ELSE port[p].entry])
    [] k = "hle" -> \/ f = Normalized("hle", OracleFields(port[p], NumberOf(port, p)))
                    \/ f = Fields(port[p])
    [] OTHER -> f = Normalized(k, ElisaFields(port[p], n))

LEMMA NewestIs ==
  ASSUME NEW S, Places(S)
  PROVE  Newest(S) = IF S = {} THEN {} ELSE {Max(S)}
  <1>1. CASE S # {}
    <2> DEFINE m == Max(S)
    <2>1. m \in S /\ (\A i \in S : i <= m) /\ S \subseteq Nat
      BY <1>1, MaxIsLast DEF Places
    <2> HIDE DEF m
    <2>2. ASSUME NEW p \in S, \A q \in S : q <= p
          PROVE  p = m
      <3>1. p \in Nat /\ m \in Nat /\ p <= m /\ m <= p
        BY <2>1, <2>2
      <3> QED
        BY <3>1
    <2>3. Newest(S) = {m}
      BY <2>1, <2>2 DEF Newest
    <2> QED
      BY <1>1, <2>3 DEF m
  <1>2. CASE S = {}
    BY <1>2 DEF Newest
  <1> QED
    BY <1>1, <1>2

(* There is a record under the key of the n-th event of a kind just if the *)
(* artifacts tell such an event, and it is the record of what they tell.   *)
LEMMA RowsTold ==
  ASSUME Logged, Asked, NEW k \in diff.kinds \ {"resolve", "entry"}, NEW n \in Nat,
         k = "hle" => OfKind("hle", port) \intersect Emitted(diff.cut) # {}
  PROVE  LET keyed == Keyed(Actual, KeyFor(k, n))
         IN  /\ keyed = Told(k, n)
             /\ \A p \in keyed : /\ p \in DOMAIN port /\ port[p].kind = k /\ Max(keyed) = p
                                 /\ Shows(k, p, n, Actual[Max(keyed)].fields)
  <1> DEFINE keyed == Keyed(Actual, KeyFor(k, n))
             mine == OfKind(k, port)
             shown == mine \intersect Emitted(diff.cut)
  <1>1. Told(k, n) = {p \in shown : Count(mine, p) = n}
    BY DEF Told
  <1>2. \A p \in mine : NumberOf(port, p) = Count(mine, p) /\ port[p].kind = k /\ p \in DOMAIN port
    BY DEF NumberOf, OfKind
  <1>3. KeyFor(k, n) = <<k, n>>
    BY DEF KeyFor
  <1>4. ASSUME NEW p \in Emitted(diff.cut), port[p].kind \in diff.kinds
        PROVE  /\ p \in DOMAIN Actual /\ p \in DOMAIN port
               /\ Actual[p].key = <<port[p].kind, IF port[p].kind = "resolve" THEN port[p].nid
                                                                           ELSE NumberOf(port, p)>>
               /\ Actual[p].fields = Normalized(port[p].kind, ElisaFields(port[p], NumberOf(port, p)))
    BY <1>4, ActualIs DEF Alike, Emitted
  <1>5. ASSUME NEW q \in keyed
        PROVE  q \in Emitted(diff.cut) /\ port[q].kind = k /\ NumberOf(port, q) = n
    <2>1. q \in DOMAIN Actual /\ Actual[q].key = <<k, n>>
      BY <1>3 DEF Keyed
    <2>2. CASE q \in Emitted(diff.cut) /\ port[q].kind \in diff.kinds
      BY <1>4, <2>1, <2>2
    <2>3. CASE "resolve" \in diff.kinds /\ \E p \in Probes : q = p - Len(port)
      <3>1. Actual[q].key[1] = "resolve"
        BY <2>3, ActualIs DEF Alike
      <3> QED
        BY <2>1, <3>1
    <2>4. CASE "resolve" \in diff.kinds /\ \E p \in Stubs : q = p + Len(port)
      <3>1. Actual[q].key[1] = "resolve"
        BY <2>4, ActualIs DEF Alike
      <3> QED
        BY <2>1, <3>1
    <2>5. CASE q = End + 1 /\ "entry" \in DOMAIN Facts(diff.cut) /\ "entry" \in diff.kinds
      <3>1. Actual[q].key[1] = "entry"
        BY <2>5, ActualIs DEF Alike
      <3> QED
        BY <2>1, <3>1
    <2>6. CASE q = End + 2 /\ NoCallShown /\ "hle" \in diff.kinds
      <3>1. Actual[q].key[1] = "hle"
        BY <2>6, ActualIs DEF Alike
      <3> QED
        BY <2>1, <2>6, <3>1 DEF NoCallShown
    <2> QED
      BY <2>1, <2>2, <2>3, <2>4, <2>5, <2>6, ActualIs
  <1>6. \A p \in Emitted(diff.cut) : port[p].kind = k => p \in shown
    BY DEF OfKind, Emitted
  <1>7. \A p \in shown : Count(mine, p) = n => p \in keyed
    BY <1>2, <1>3, <1>4 DEF Keyed
  <1>8. keyed = Told(k, n)
    BY <1>1, <1>2, <1>5, <1>6, <1>7
  <1>9. Places(mine) /\ \A p \in mine : p \in Nat
    BY Positions DEF OfKind
  <1> SUFFICES ASSUME NEW p \in keyed
               PROVE  /\ p \in DOMAIN port /\ port[p].kind = k /\ Max(keyed) = p
                      /\ Shows(k, p, n, Actual[Max(keyed)].fields)
    BY <1>8
  <1>10. p \in shown /\ NumberOf(port, p) = n
    BY <1>5, <1>6
  <1>11. keyed = {p}
    <2> HIDE DEF keyed, shown, mine
    <2>1. shown \subseteq mine
      BY DEF shown
    <2> QED
      BY <1>1, <1>8, <1>9, <2>1, Counted
  <1>12. Max(keyed) = p
    <2> HIDE DEF keyed
    <2> QED
      BY <1>9, <1>10, <1>11, MaxOfOne
  <1>13. Actual[p].fields = Normalized(k, ElisaFields(port[p], n))
    BY <1>2, <1>4, <1>10
  <1>14. k = "hle" => ElisaFields(port[p], n) = OracleFields(port[p], n)
    BY <1>2, <1>10 DEF ElisaFields
  <1>15. Shows(k, p, n, Actual[p].fields)
    BY <1>10, <1>13, <1>14 DEF Shows
  <1> QED
    BY <1>2, <1>10, <1>12, <1>15

LEMMA FactsTold ==
  ASSUME Logged, Asked, NEW k \in diff.kinds, NEW n \in Nat,
         \/ k = "entry"
         \/ k = "hle" /\ OfKind("hle", port) \intersect Emitted(diff.cut) = {}
  PROVE  LET keyed == Keyed(Actual, KeyFor(k, n))
         IN  /\ keyed = {} <=> Told(k, n) = {}
             /\ \A p \in Told(k, n) : /\ p \in DOMAIN port /\ (k = "hle" => port[p].kind = k)
                                      /\ keyed # {} /\ Shows(k, p, n, Actual[Max(keyed)].fields)
  <1> DEFINE keyed == Keyed(Actual, KeyFor(k, n))
             E == Emitted(diff.cut)
             facts == Facts(diff.cut)
             calls == OfKind("hle", port)
             entries == OfKind("entry", port)
             starts == OfKind("modstart", port) \intersect E
  <1>1. Places(calls) /\ Places(entries) /\ Places(starts) /\ End \in Nat
    BY Positions, RowsAre DEF OfKind
  <1>2. \A p \in E : port[p].kind # "entry" /\ p \in DOMAIN port
    BY DEF Emitted
  <1>3. ASSUME NEW q \in keyed
        PROVE  \/ k = "entry" /\ q = End + 1 /\ "entry" \in DOMAIN facts
               \/ k = "hle" /\ q = End + 2 /\ NoCallShown /\ n = 1
    <2>1. q \in DOMAIN Actual /\ Actual[q].key = KeyFor(k, n) /\ KeyFor(k, n)[1] = k
      BY DEF Keyed, KeyFor
    <2>2. CASE q \in E /\ port[q].kind \in diff.kinds
      <3>1. Actual[q].key[1] = port[q].kind
        BY <2>2, ActualIs DEF Alike
      <3>2. port[q].kind = "hle"
        BY <1>2, <2>1, <2>2, <3>1
      <3> QED
        BY <1>2, <2>1, <2>2, <3>1, <3>2 DEF OfKind
    <2>3. CASE "resolve" \in diff.kinds /\ \E p \in Probes : q = p - Len(port)
      <3>1. Actual[q].key[1] = "resolve"
        BY <2>3, ActualIs DEF Alike
      <3> QED
        BY <2>1, <3>1
    <2>4. CASE "resolve" \in diff.kinds /\ \E p \in Stubs : q = p + Len(port)
      <3>1. Actual[q].key[1] = "resolve"
        BY <2>4, ActualIs DEF Alike
      <3> QED
        BY <2>1, <3>1
    <2>5. CASE q = End + 1 /\ "entry" \in DOMAIN facts /\ "entry" \in diff.kinds
      <3>1. Actual[q].key[1] = "entry"
        BY <2>5, ActualIs DEF Alike
      <3> QED
        BY <2>1, <2>5, <3>1
    <2>6. CASE q = End + 2 /\ NoCallShown /\ "hle" \in diff.kinds
      <3>1. Actual[q].key = <<"hle", 1>>
        BY <2>6, ActualIs DEF Alike
      <3>2. k = "hle" /\ n = 1
        BY <2>1, <3>1 DEF KeyFor
      <3> QED
        BY <2>6, <3>2
    <2> QED
      BY <2>1, <2>2, <2>3, <2>4, <2>5, <2>6, ActualIs
  <1>4. CASE k = "entry"
    <2> DEFINE S == IF starts # {} THEN starts ELSE entries
    <2>1. starts = IF diff.cut THEN {} ELSE OfKind("modstart", port)
      BY DEF Emitted, OfKind
    <2>2. /\ "entry" \in DOMAIN facts <=> S # {}
          /\ S # {} => facts["entry"] = IF starts # {} THEN port[Max(starts)].entry
                                                      ELSE port[Max(entries)].addr
      BY <2>1 DEF Facts
    <2>3. Told(k, n) = Newest(S)
      BY <1>4 DEF Told
    <2>4. Places(S) /\ S \subseteq DOMAIN port
      BY <1>1 DEF OfKind
    <2>5. Told(k, n) = IF S = {} THEN {} ELSE {Max(S)}
      BY <2>3, <2>4, NewestIs
    <2>6. S # {} => Max(S) \in S
      <3> HIDE DEF S
      <3> QED
        BY <2>4, MaxIsLast
    <2>7. S # {} => facts["entry"] = IF port[Max(S)].kind = "entry" THEN port[Max(S)].addr
                                                                   ELSE port[Max(S)].entry
      BY <2>2, <2>6 DEF OfKind
    <2>8. S # {} => keyed = {End + 1}
      <3>1. S # {} => End + 1 \in keyed
        BY <1>4, <2>2, ActualIs DEF Alike, Keyed, KeyFor
      <3> HIDE DEF keyed, S
      <3> QED
        BY <1>3, <1>4, <3>1
    <2>9. S = {} => keyed = {}
      <3> HIDE DEF keyed, S
      <3> QED
        BY <1>3, <1>4, <2>2
    <2>10. S # {} => Max(keyed) = End + 1
      <3> HIDE DEF keyed, S
      <3> QED
        BY <1>1, <2>8, MaxOfOne
    <2>11. S # {} => Actual[End + 1].fields = Normalized("entry", [entry |-> facts["entry"]])
      BY <1>4, <2>2, ActualIs DEF Alike
    <2> HIDE DEF S, keyed, facts
    <2>12. S # {} => Shows(k, Max(S), n, Actual[Max(keyed)].fields)
      BY <1>4, <2>7, <2>10, <2>11 DEF Shows
    <2> QED
      BY <1>4, <2>4, <2>5, <2>6, <2>8, <2>9, <2>12 DEF keyed
  <1>5. CASE k = "hle"
    <2>1. calls \intersect E = {}
      BY <1>5
    <2>2. Told(k, n) = {p \in Newest(calls) : n = 1}
      BY <1>5, <2>1 DEF Told
    <2>3. Told(k, n) = IF calls # {} /\ n = 1 THEN {Max(calls)} ELSE {}
      BY <1>1, <2>2, NewestIs
    <2>4. calls # {} <=> NoCallShown
      BY <2>1 DEF NoCallShown
    <2>5. calls # {} => Max(calls) \in DOMAIN port /\ port[Max(calls)].kind = "hle"
      BY <1>1, MaxIsLast DEF OfKind
    <2>6. calls # {} => End + 2 \in DOMAIN Actual /\ Actual[End + 2].key = <<"hle", 1>>
                         /\ Actual[End + 2].fields = Fields(port[Max(calls)])
      BY <1>5, <2>4, ActualIs DEF Alike
    <2>7. calls # {} /\ n = 1 => End + 2 \in keyed
      BY <1>5, <2>6 DEF Keyed, KeyFor
    <2> HIDE DEF calls, keyed
    <2>8. keyed = IF calls # {} /\ n = 1 THEN {End + 2} ELSE {}
      BY <1>3, <1>5, <2>4, <2>7
    <2>9. calls # {} /\ n = 1 => Max(keyed) = End + 2
      BY <1>1, <2>8, MaxOfOne
    <2>10. calls # {} /\ n = 1 => Shows(k, Max(calls), n, Actual[Max(keyed)].fields)
      BY <1>5, <2>6, <2>9 DEF Shows
    <2> QED
      BY <1>5, <2>3, <2>5, <2>8, <2>10 DEF keyed
  <1> QED
    BY <1>4, <1>5

LEMMA ToldIs ==
  ASSUME Logged, Asked, NEW k \in diff.kinds \ {"resolve"}, NEW n \in Nat
  PROVE  LET keyed == Keyed(Actual, KeyFor(k, n))
         IN  /\ keyed = {} <=> Told(k, n) = {}
             /\ \A p \in Told(k, n) : /\ p \in DOMAIN port /\ (k # "entry" => port[p].kind = k)
                                      /\ keyed # {} /\ Shows(k, p, n, Actual[Max(keyed)].fields)
  <1>1. CASE k # "entry" /\ (k = "hle" => OfKind("hle", port) \intersect Emitted(diff.cut) # {})
    BY <1>1, RowsTold
  <1>2. CASE k = "entry" \/ (k = "hle" /\ OfKind("hle", port) \intersect Emitted(diff.cut) = {})
    BY <1>2, FactsTold
  <1> QED
    BY <1>1, <1>2

(* Under the name of an import stand its probe, the rows of its modules and*)
(* its stubs, and the last of them is what the artifacts tell.             *)
LEMMA ImportTold ==
  ASSUME Logged, Asked, "resolve" \in diff.kinds, NEW nid
  PROVE  LET keyed == Keyed(Actual, <<"resolve", nid>>)
             f == Actual[Max(keyed)].fields
         IN  /\ keyed = {} <=> ToldImport(nid) = {}
             /\ \A p \in ToldImport(nid) :
                  /\ p \in DOMAIN port /\ port[p].kind = "resolve" /\ port[p].nid = nid /\ keyed # {}
                  /\ \/ p \in Stubs /\ f = Normalized("resolve", StubRow(port[p]).fields)
                     \/ /\ p \in Emitted(diff.cut) \ Stubs
                        /\ f = Normalized("resolve", OracleFields(port[p], NumberOf(port, p)))
                     \/ /\ p \notin Stubs \union Emitted(diff.cut)
                        /\ f = Normalized("resolve", ProbeRow(port[p]).fields)
  <1> DEFINE keyed == Keyed(Actual, <<"resolve", nid>>)
             named == {p \in Imports : port[p].nid = nid}
             E == Emitted(diff.cut)
             len == Len(port)
             A == named \intersect E
             B == named \intersect Probes
             C == named \intersect Stubs
             told == ToldImport(nid)
  <1>1. /\ len \in Nat
        /\ \A p \in named : p \in DOMAIN port /\ p \in Nat /\ 1 <= p /\ p <= len
        /\ \A p \in named : port[p].kind = "resolve" /\ port[p].nid = nid
    BY RowsAre DEF Imports, OfKind
  <1>2. Places(A) /\ Places(C)
    BY Positions DEF Imports, OfKind
  <1>3. \A p \in A : /\ p \in DOMAIN Actual /\ Actual[p].key = <<"resolve", nid>>
                    /\ Actual[p].fields = Normalized("resolve", OracleFields(port[p], NumberOf(port, p)))
    BY <1>1, ActualIs DEF Alike, ElisaFields
  <1>4. \A p \in B : /\ p - len \in DOMAIN Actual /\ Actual[p - len].key = <<"resolve", nid>>
                    /\ Actual[p - len].fields = Normalized("resolve", ProbeRow(port[p]).fields)
    BY <1>1, ActualIs DEF Alike
  <1>5. \A p \in C : /\ p + len \in DOMAIN Actual /\ Actual[p + len].key = <<"resolve", nid>>
                    /\ Actual[p + len].fields = Normalized("resolve", StubRow(port[p]).fields)
    BY <1>1, ActualIs DEF Alike
  <1>6. keyed = A \union {p - len : p \in B} \union {p + len : p \in C}
    <2>1. ASSUME NEW q \in keyed
          PROVE  q \in A \/ (\E p \in B : q = p - len) \/ (\E p \in C : q = p + len)
      <3>1. q \in DOMAIN Actual /\ Actual[q].key = <<"resolve", nid>>
        BY DEF Keyed
      <3>2. CASE q \in E /\ port[q].kind \in diff.kinds
        <4>1. Actual[q].key = <<port[q].kind, IF port[q].kind = "resolve" THEN port[q].nid
                                                                         ELSE NumberOf(port, q)>>
          BY <3>2, ActualIs DEF Alike
        <4>2. port[q].kind = "resolve" /\ port[q].nid = nid
          BY <3>1, <4>1
        <4> QED
          BY <3>2, <4>2 DEF Imports, OfKind, Emitted
      <3>3. CASE \E p \in Probes : q = p - len
        <4>1. PICK p \in Probes : q = p - len
          BY <3>3
        <4>2. Actual[q].key = <<"resolve", port[p].nid>>
          BY <4>1, ActualIs DEF Alike
        <4>3. port[p].nid = nid /\ p \in Imports
          BY <3>1, <4>2 DEF Probes
        <4> QED
          BY <4>1, <4>3
      <3>4. CASE \E p \in Stubs : q = p + len
        <4>1. PICK p \in Stubs : q = p + len
          BY <3>4
        <4>2. Actual[q].key = <<"resolve", port[p].nid>>
          BY <4>1, ActualIs DEF Alike
        <4>3. port[p].nid = nid /\ p \in Imports
          BY <3>1, <4>2 DEF Stubs
        <4> QED
          BY <4>1, <4>3
      <3>5. CASE q = End + 1 /\ "entry" \in DOMAIN Facts(diff.cut) /\ "entry" \in diff.kinds
        <4>1. Actual[q].key[1] = "entry"
          BY <3>5, ActualIs DEF Alike
        <4> QED
          BY <3>1, <4>1
      <3>6. CASE q = End + 2 /\ NoCallShown /\ "hle" \in diff.kinds
        <4>1. Actual[q].key[1] = "hle"
          BY <3>6, ActualIs DEF Alike
        <4> QED
          BY <3>1, <4>1
      <3> QED
        BY <3>1, <3>2, <3>3, <3>4, <3>5, <3>6, ActualIs
    <2>2. /\ \A p \in A : p \in keyed
          /\ \A p \in B : p - len \in keyed
          /\ \A p \in C : p + len \in keyed
      BY <1>3, <1>4, <1>5 DEF Keyed
    <2> HIDE DEF keyed, A, B, C, len
    <2> QED
      BY <2>1, <2>2
  <1>7. keyed \subseteq Int
    BY <1>1, <1>6
  <1>8. told = IF C # {} THEN Newest(C) ELSE IF A # {} THEN Newest(A) ELSE B
    BY DEF ToldImport
  <1> HIDE DEF keyed
  <1>9. CASE C # {}
    <2> DEFINE m == Max(C)
    <2>1. told = {m}
      BY <1>2, <1>8, <1>9, NewestIs
    <2>2. m \in C /\ \A i \in C : i <= m
      BY <1>2, <1>9, MaxIsLast
    <2> HIDE DEF m
    <2>3. m + len \in keyed /\ \A q \in keyed : q <= m + len
      <3>1. \A p \in named : p <= m + len /\ p - len <= m + len
        BY <1>1, <2>2
      <3>2. \A p \in C : p + len <= m + len
        BY <1>1, <2>2
      <3> QED
        BY <1>6, <2>2, <3>1, <3>2
    <2>4. Max(keyed) = m + len
      BY <1>7, <2>3, MaxIs
    <2> QED
      BY <1>1, <1>5, <2>1, <2>2, <2>3, <2>4 DEF keyed
  <1>10. CASE C = {} /\ A # {}
    <2> DEFINE m == Max(A)
    <2>1. told = {m}
      BY <1>2, <1>8, <1>10, NewestIs
    <2>2. m \in A /\ \A i \in A : i <= m
      BY <1>2, <1>10, MaxIsLast
    <2> HIDE DEF m
    <2>3. m \in keyed /\ \A q \in keyed : q <= m
      <3>1. \A p \in named : p - len <= m
        BY <1>1, <2>2
      <3> QED
        BY <1>6, <1>10, <2>2, <3>1
    <2>4. Max(keyed) = m
      BY <1>7, <2>3, MaxIs
    <2>5. m \notin Stubs
      BY <1>10, <2>2
    <2> QED
      BY <1>1, <1>3, <2>1, <2>2, <2>3, <2>4, <2>5 DEF keyed
  <1>11. CASE C = {} /\ A = {}
    <2>1. told = B /\ keyed = {p - len : p \in B}
      BY <1>6, <1>8, <1>11
    <2>2. \A p, q \in B : p = q
      <3>1. \A p, q \in B : ~(q < p)
        BY DEF Probes
      <3> QED
        BY <1>1, <3>1
    <2>3. \A p \in B : Max(keyed) = p - len /\ keyed # {}
      <3> SUFFICES ASSUME NEW p \in B
                   PROVE  Max(keyed) = p - len /\ keyed # {}
        OBVIOUS
      <3>1. keyed = {p - len} /\ p - len \in Int
        BY <1>1, <2>1, <2>2
      <3>2. \A q \in keyed : q <= p - len
        BY <3>1
      <3> QED
        BY <1>7, <3>1, <3>2, MaxIs
    <2>4. \A p \in B : p \notin Stubs \union E
      BY <1>11
    <2>5. \A p \in B : Actual[Max(keyed)].fields = Normalized("resolve", ProbeRow(port[p]).fields)
      BY <1>4, <2>3
    <2>6. keyed = {} <=> B = {}
      BY <2>1
    <2> QED
      BY <1>1, <2>1, <2>3, <2>4, <2>5, <2>6 DEF keyed
  <1> QED
    BY <1>9, <1>10, <1>11

(* The record found under the key of an event agrees with it just if the   *)
(* artifacts tell the same behaviour.                                      *)
LEMMA FoundIs ==
  ASSUME Logged, Asked, NEW i \in Compare
  PROVE  LET keyed == Keyed(Actual, KeyOf(i))
         IN  /\ keyed = {} <=> Counterpart(i) = {}
             /\ \A p \in Counterpart(i) :
                  keyed # {} /\ (Agree(Expected[i], Actual[Max(keyed)]) <=> Same(boot[i], p))
  <1> DEFINE keyed == Keyed(Actual, KeyOf(i))
             e == boot[i]
             x == Expected[i]
             y == Actual[Max(keyed)]
             n == NumberOf(boot, i)
             m == Number(i)
  <1>1. e \in Event /\ e.kind \in diff.kinds
    BY Positions DEF Compare
  <1>2. /\ x.kind = e.kind /\ x.fields = Normalized(e.kind, OracleFields(e, n))
        /\ e.kind = "module" => n = m
    BY ExpectedIs
  <1>3. m \in Nat
    <2>1. Places({j \in Compare : boot[j].kind = e.kind}) /\ i \in {j \in Compare : boot[j].kind = e.kind}
      BY Positions DEF Compare
    <2> QED
      BY <2>1, Counted DEF Number
  <1>4. CASE e.kind = "resolve"
    <2>1. KeyOf(i) = <<"resolve", e.nid>> /\ Counterpart(i) = ToldImport(e.nid)
      BY <1>4 DEF KeyOf, Counterpart
    <2>2. /\ keyed = {} <=> Counterpart(i) = {}
          /\ \A p \in Counterpart(i) :
               /\ p \in DOMAIN port /\ port[p].kind = "resolve" /\ port[p].nid = e.nid /\ keyed # {}
               /\ \/ p \in Stubs /\ y.fields = Normalized("resolve", StubRow(port[p]).fields)
                  \/ /\ p \in Emitted(diff.cut) \ Stubs
                     /\ y.fields = Normalized("resolve", OracleFields(port[p], NumberOf(port, p)))
                  \/ /\ p \notin Stubs \union Emitted(diff.cut)
                     /\ y.fields = Normalized("resolve", ProbeRow(port[p]).fields)
      BY <1>1, <1>4, <2>1, ImportTold
    <2> SUFFICES ASSUME NEW p \in Counterpart(i)
                 PROVE  Agree(x, y) <=> Same(e, p)
      BY <2>2
    <2> HIDE DEF x, y, e, n, keyed
    <2>3. port[p] \in Event /\ port[p].kind = "resolve" /\ e.nid = port[p].nid
      BY <2>2, Positions
    <2>4. x.kind = "resolve" /\ x.fields = Normalized("resolve", OracleFields(e, n))
      BY <1>2, <1>4
    <2>5. /\ y.fields = Normalized("resolve", OracleFields(port[p], NumberOf(port, p)))
               => (Agree(x, y) <=> e.resolved = port[p].resolved)
          /\ y.fields = Normalized("resolve", ProbeRow(port[p]).fields)
               => (Agree(x, y) <=> e.resolved = 0 /\ port[p].resolved = 0)
          /\ y.fields = Normalized("resolve", StubRow(port[p]).fields) => Agree(x, y)
      BY <1>1, <1>4, <2>3, <2>4, AgreeResolve
    <2>6. Same(e, p) <=> IF p \in Stubs \union Emitted(diff.cut)
                           THEN port[p].stub \/ e.resolved = port[p].resolved
                           ELSE e.resolved = 0 /\ port[p].resolved = 0
      BY <1>4 DEF Same
    <2>7. p \in Stubs => port[p].stub
      BY DEF Stubs
    <2>8. p \in Emitted(diff.cut) \ Stubs => ~port[p].stub
      <3> SUFFICES ASSUME p \in Emitted(diff.cut), port[p].stub
                   PROVE  p \in Stubs
        OBVIOUS
      <3>1. Owner(p) \in 1 .. MaxModules /\ MaxModules \in Nat
        BY <2>3, BootAssumption DEF Emitted
      <3> QED
        BY <2>2, <3>1 DEF Stubs, Imports, OfKind
    <2> QED
      BY <2>2, <2>5, <2>6, <2>7, <2>8
  <1>5. CASE e.kind # "resolve"
    <2>1. KeyOf(i) = KeyFor(e.kind, m) /\ Counterpart(i) = Told(e.kind, m)
      BY <1>5 DEF KeyOf, KeyFor, Counterpart
    <2>2. /\ keyed = {} <=> Counterpart(i) = {}
          /\ \A p \in Counterpart(i) :
               /\ p \in DOMAIN port /\ (e.kind # "entry" => port[p].kind = e.kind)
               /\ keyed # {} /\ Shows(e.kind, p, m, y.fields)
      BY <1>1, <1>3, <1>5, <2>1, ToldIs
    <2> SUFFICES ASSUME NEW p \in Counterpart(i)
                 PROVE  Agree(x, y) <=> Same(e, p)
      BY <2>2
    <2> HIDE DEF x, y, e, n, m, keyed
    <2>3. port[p] \in Event /\ Shows(e.kind, p, m, y.fields)
      BY <2>2, Positions
    <2>4. CASE e.kind = "module"
      <3>1. y.fields = Normalized("module", OracleFields(port[p], n))
        BY <1>2, <2>2, <2>3, <2>4 DEF Shows, ElisaFields
      <3> QED
        BY <1>1, <1>2, <2>2, <2>3, <2>4, <3>1, AgreeModule
    <2>5. CASE e.kind = "entry"
      <3> DEFINE v == IF port[p].kind = "entry" THEN port[p].addr ELSE port[p].entry
      <3>1. y.fields = Normalized("entry", [entry |-> v])
        BY <2>3, <2>5 DEF Shows
      <3>2. Same(e, p) <=> e.addr = v
        BY <2>5 DEF Same
      <3> HIDE DEF v
      <3>3. Agree(x, y) <=> e.addr = v
        BY <1>1, <1>2, <2>5, <3>1, AgreeEntry
      <3> QED
        BY <3>2, <3>3
    <2>6. CASE e.kind = "modstart"
      <3>1. y.fields = Normalized("modstart", ElisaFields(port[p], m))
        BY <2>3, <2>6 DEF Shows
      <3> QED
        BY <1>1, <1>2, <2>2, <2>3, <2>6, <3>1, AgreeModstart
    <2>7. CASE e.kind = "hle"
      <3>1. \/ y.fields = Normalized("hle", OracleFields(port[p], NumberOf(port, p)))
            \/ y.fields = Fields(port[p])
        BY <2>3, <2>7 DEF Shows
      <3> QED
        BY <1>1, <1>2, <2>2, <2>3, <2>7, <3>1, AgreeCall
    <2> QED
      BY <1>1, <1>5, <2>4, <2>5, <2>6, <2>7, EventKinds
  <1> QED
    BY <1>4, <1>5

(* The records missing or different are those of the events alone.         *)
LEMMA BadIs ==
  ASSUME Logged, Asked
  PROVE  /\ Bad(Expected, Actual, diff.limit) = Alone
         /\ Limited(Expected, diff.limit) =
              {i \in Compare : diff.limit = 0 \/ Count(Compare, i) <= diff.limit}
  <1> DEFINE within == {i \in Compare : diff.limit = 0 \/ Count(Compare, i) <= diff.limit}
  <1>1. DOMAIN Expected = Compare /\ \A i \in Compare : Expected[i].key = KeyOf(i)
    BY ExpectedIs
  <1>2. Limited(Expected, diff.limit) = within
    BY <1>1 DEF Limited
  <1>3. ASSUME NEW i \in Compare
        PROVE  (Keyed(Actual, KeyOf(i)) = {} \/ ~Agree(Expected[i], Actual[Max(Keyed(Actual, KeyOf(i)))]))
                 <=> ~\E p \in Counterpart(i) : Same(boot[i], p)
    <2> DEFINE other == Counterpart(i)
               keyed == Keyed(Actual, KeyOf(i))
    <2>1. /\ keyed = {} <=> other = {}
          /\ \A p \in other : /\ keyed # {}
                              /\ Agree(Expected[i], Actual[Max(keyed)]) <=> Same(boot[i], p)
      BY FoundIs
    <2> HIDE DEF other, keyed
    <2>2. (keyed = {} \/ ~Agree(Expected[i], Actual[Max(keyed)]))
            <=> ~\E p \in other : Same(boot[i], p)
      BY <2>1
    <2> QED
      BY <2>2 DEF other, keyed
  <1>4. Bad(Expected, Actual, diff.limit) =
          {i \in within : LET with == Keyed(Actual, KeyOf(i))
                          IN  with = {} \/ ~Agree(Expected[i], Actual[Max(with)])}
    <2>1. within \subseteq Compare
      OBVIOUS
    <2> HIDE DEF within
    <2> QED
      BY <1>1, <1>2, <2>1 DEF Bad
  <1>5. Alone = {i \in within : ~\E p \in Counterpart(i) : Same(boot[i], p)}
    BY DEF Alone
  <1> QED
    BY <1>2, <1>3, <1>4, <1>5

(* No record is expected under a key just if the reference has fewer of the*)
(* kind.                                                                   *)
LEMMA UnmatchedIs ==
  ASSUME Logged, Asked, NEW k \in diff.kinds \ {"resolve"}, NEW n \in Nat, 1 <= n
  PROVE  LET theirs == Cardinality({i \in Compare : boot[i].kind = k})
         IN  Keyed(Expected, KeyFor(k, n)) = {} <=> IF k = "entry" THEN theirs = 0 ELSE n > theirs
  <1> DEFINE mine == {i \in Compare : boot[i].kind = k}
             keyed == Keyed(Expected, KeyFor(k, n))
  <1>1. keyed = {i \in Compare : KeyOf(i) = KeyFor(k, n)}
    BY ExpectedIs DEF Keyed
  <1>2. Places(mine)
    BY Positions DEF Compare
  <1>3. CASE k = "entry"
    <2>1. \A i \in Compare : KeyOf(i) = KeyFor(k, n) <=> boot[i].kind = "entry"
      BY <1>3 DEF KeyOf, KeyFor
    <2>2. keyed = mine
      BY <1>1, <1>3, <2>1
    <2> HIDE DEF mine
    <2>3. mine = {} <=> Cardinality(mine) = 0
      BY <1>2, FS_EmptySet DEF Places
    <2> QED
      BY <1>3, <2>2, <2>3 DEF mine
  <1>4. CASE k # "entry"
    <2>1. \A i \in Compare : KeyOf(i) = KeyFor(k, n) <=> boot[i].kind = k /\ Number(i) = n
      BY <1>4 DEF KeyOf, KeyFor
    <2>2. \A i \in mine : Number(i) = Count(mine, i)
      BY DEF Number
    <2>3. keyed = {i \in mine : Count(mine, i) = n}
      BY <1>1, <2>1, <2>2
    <2> HIDE DEF mine, keyed
    <2>4. Cardinality(mine) \in Nat /\ \A i \in mine : Count(mine, i) \in 1 .. Cardinality(mine)
      BY <1>2, Counted
    <2>5. n \in 1 .. Cardinality(mine) => Nth(mine, n) \in mine /\ Count(mine, Nth(mine, n)) = n
      BY <1>2, NthIs
    <2>6. n > Cardinality(mine) => keyed = {}
      BY <2>3, <2>4
    <2>7. ~(n > Cardinality(mine)) => keyed # {}
      BY <2>3, <2>4, <2>5
    <2> QED
      BY <1>4, <2>6, <2>7 DEF mine, keyed
  <1> QED
    BY <1>3, <1>4

(* Records of other kinds than imports stand at natural numbers, under the *)
(* keys of numbers up to the length of the port's boot.                    *)
LEMMA KeysAre ==
  ASSUME Logged, Asked, NEW q \in DOMAIN Actual, Actual[q].kind # "resolve"
  PROVE  /\ q \in Nat /\ Actual[q].kind \in diff.kinds
         /\ \E n \in 1 .. Len(port) : Actual[q].key = KeyFor(Actual[q].kind, n)
  <1> DEFINE len == Len(port)
  <1>1. len \in Nat /\ DOMAIN port = 1 .. len /\ End \in Nat
    BY RowsAre
  <1>2. \A p \in DOMAIN port : 1 \in 1 .. len
    BY <1>1
  <1>3. CASE q \in Emitted(diff.cut) /\ port[q].kind \in diff.kinds
    <2> DEFINE k == port[q].kind
               mine == OfKind(k, port)
               n == NumberOf(port, q)
    <2>1. /\ Actual[q].kind = k /\ q \in Nat /\ q \in DOMAIN port
          /\ Actual[q].key = <<k, IF k = "resolve" THEN port[q].nid ELSE n>>
      BY <1>3, ActualIs, RowsAre DEF Alike
    <2>2. k # "resolve" /\ k # "entry"
      BY <1>3, <2>1 DEF Emitted
    <2>3. Places(mine) /\ mine \subseteq 1 .. len /\ q \in mine /\ n = Count(mine, q)
      BY <1>1, <2>1, Positions DEF OfKind, NumberOf
    <2> HIDE DEF k, mine, n
    <2>4. n \in 1 .. Cardinality(mine) /\ Cardinality(mine) \in Nat
      BY <2>3, Counted
    <2>5. Cardinality(mine) <= len
      <3>1. IsFiniteSet(1 .. len) /\ Cardinality(1 .. len) = len
        BY <1>1, FS_Interval
      <3> QED
        BY <2>3, <3>1, FS_Subset
    <2>6. n \in 1 .. len
      BY <1>1, <2>4, <2>5
    <2>7. Actual[q].key = KeyFor(k, n)
      BY <2>1, <2>2 DEF KeyFor
    <2> QED
      BY <1>3, <2>1, <2>6, <2>7 DEF k
  <1>4. CASE "resolve" \in diff.kinds /\ \E p \in Probes : q = p - len
    BY <1>4, ActualIs DEF Alike
  <1>5. CASE "resolve" \in diff.kinds /\ \E p \in Stubs : q = p + len
    BY <1>5, ActualIs DEF Alike
  <1>6. CASE q = End + 1 /\ "entry" \in DOMAIN Facts(diff.cut) /\ "entry" \in diff.kinds
    <2>1. Actual[q].kind = "entry" /\ Actual[q].key = KeyFor("entry", 1)
      BY <1>6, ActualIs DEF Alike, KeyFor
    <2>2. \E p \in DOMAIN port : TRUE
      BY <1>6 DEF Facts, OfKind
    <2> QED
      BY <1>1, <1>2, <1>6, <2>1, <2>2
  <1>7. CASE q = End + 2 /\ NoCallShown /\ "hle" \in diff.kinds
    <2>1. Actual[q].kind = "hle" /\ Actual[q].key = KeyFor("hle", 1)
      BY <1>7, ActualIs DEF Alike, KeyFor
    <2>2. \E p \in DOMAIN port : TRUE
      BY <1>7 DEF NoCallShown, OfKind
    <2> QED
      BY <1>1, <1>2, <1>7, <2>1, <2>2
  <1> QED
    BY <1>3, <1>4, <1>5, <1>6, <1>7, ActualIs

(* The kind of a record found under a key is that of the key.              *)
LEMMA KindOfKey ==
  ASSUME Logged, Asked, NEW q \in DOMAIN Actual
  PROVE  Actual[q].key[1] = Actual[q].kind
  BY ActualIs DEF Alike

(* There are extra records just if the artifacts tell more of some kind.   *)
LEMMA ExtraIs ==
  ASSUME Logged, Asked
  PROVE  /\ Extra(Expected, Actual) # {} <=> Surplus # {}
         /\ \A q \in Extra(Expected, Actual) : q \in Nat /\ Actual[q].key[1] \in Surplus
  <1> DEFINE theirs(k) == Cardinality({i \in Compare : boot[i].kind = k})
             more(k, n) == Told(k, n) # {} /\ IF k = "entry" THEN theirs(k) = 0 ELSE n > theirs(k)
  <1>1. \A k : k \in Surplus <=> k \in diff.kinds \ {"resolve"} /\ \E n \in 1 .. Len(port) : more(k, n)
    BY DEF Surplus
  <1>2. ASSUME NEW k \in diff.kinds \ {"resolve"}, NEW n \in 1 .. Len(port)
        PROVE  more(k, n) <=> /\ Keyed(Actual, KeyFor(k, n)) # {}
                              /\ Keyed(Expected, KeyFor(k, n)) = {}
    <2>1. n \in Nat /\ 1 <= n
      BY RowsAre
    <2>2. Keyed(Actual, KeyFor(k, n)) = {} <=> Told(k, n) = {}
      BY <2>1, ToldIs
    <2>3. Keyed(Expected, KeyFor(k, n)) = {} <=> IF k = "entry" THEN theirs(k) = 0 ELSE n > theirs(k)
      BY <2>1, UnmatchedIs
    <2> QED
      BY <2>2, <2>3
  <1> HIDE DEF more
  <1>3. ASSUME NEW q \in Extra(Expected, Actual)
        PROVE  q \in Nat /\ Actual[q].key[1] \in Surplus
    <2> DEFINE k == Actual[q].kind
    <2>1. q \in DOMAIN Actual /\ k # "resolve" /\ Keyed(Expected, Actual[q].key) = {}
      BY DEF Extra
    <2>2. q \in Nat /\ k \in diff.kinds /\ Actual[q].key[1] = k
      BY <2>1, KeysAre, KindOfKey
    <2>3. PICK n \in 1 .. Len(port) : Actual[q].key = KeyFor(k, n)
      BY <2>1, KeysAre
    <2> HIDE DEF k
    <2>4. q \in Keyed(Actual, KeyFor(k, n))
      BY <2>1, <2>3 DEF Keyed
    <2>5. more(k, n)
      BY <1>2, <2>1, <2>2, <2>3, <2>4
    <2> QED
      BY <1>1, <2>1, <2>2, <2>5
  <1>4. ASSUME NEW k \in Surplus
        PROVE  Extra(Expected, Actual) # {}
    <2>1. PICK n \in 1 .. Len(port) : more(k, n)
      BY <1>1
    <2>2. k \in diff.kinds \ {"resolve"}
      BY <1>1
    <2>3. PICK q \in Keyed(Actual, KeyFor(k, n)) : TRUE
      BY <1>2, <2>1, <2>2
    <2>4. q \in DOMAIN Actual /\ Actual[q].key = KeyFor(k, n)
      BY DEF Keyed
    <2>5. Actual[q].kind = k
      BY <2>4, KindOfKey DEF KeyFor
    <2>6. k \in {"module", "entry", "hle", "modstart"}
      BY <2>2 DEF Asked, EventKind
    <2>7. q \in Extra(Expected, Actual)
      BY <1>2, <2>1, <2>2, <2>4, <2>5, <2>6 DEF Extra
    <2> QED
      BY <2>7
  <1> QED
    BY <1>3, <1>4

(* The limit is not reached just if there are fewer events to compare: the *)
(* first ones, as many as the limit, are told apart by their numbers.      *)
LEMMA WithinLimit ==
  ASSUME Logged, Asked, diff.limit # 0
  PROVE  Cardinality({i \in Compare : diff.limit = 0 \/ Count(Compare, i) <= diff.limit}) < diff.limit
           <=> Cardinality(Compare) < diff.limit
  <1> DEFINE limit == diff.limit
             within == {i \in Compare : Count(Compare, i) <= limit}
             f == [n \in 1 .. limit |-> Nth(Compare, n)]
  <1>1. limit \in Nat /\ Places(Compare)
    BY Positions DEF Asked, Compare
  <1>2. IsFiniteSet(Compare) /\ Cardinality(Compare) \in Nat /\ within \subseteq Compare
    BY <1>1, Counted DEF Places
  <1>3. IsFiniteSet(within) /\ Cardinality(within) \in Nat /\ Cardinality(within) <= Cardinality(Compare)
    BY <1>2, FS_Subset, FS_CardinalityType
  <1>4. ASSUME limit <= Cardinality(Compare)
        PROVE  limit <= Cardinality(within)
    <2>1. \A n \in 1 .. limit : n \in 1 .. Cardinality(Compare)
      <3> HIDE DEF limit
      <3> QED
        BY <1>1, <1>2, <1>4
    <2>2. \A n \in 1 .. limit : Nth(Compare, n) \in Compare /\ Count(Compare, Nth(Compare, n)) = n
      BY <1>1, <2>1, NthIs
    <2>3. \A n \in 1 .. limit : n <= limit
      <3> HIDE DEF limit
      <3> QED
        BY <1>1
    <2>4. f \in Injection(1 .. limit, within)
      BY <2>2, <2>3 DEF Injection, IsInjective
    <2>5. IsFiniteSet(1 .. limit) /\ Cardinality(1 .. limit) = limit
      <3> HIDE DEF limit
      <3>1. 0 \in Int /\ 1 \in Int /\ limit \in Int /\ limit >= 1 - 1 /\ limit - 1 + 1 = limit
        BY <1>1
      <3> QED
        BY <1>1, <3>1, FS_Interval
    <2> HIDE DEF f, within, limit
    <2>6. Cardinality(1 .. limit) <= Cardinality(within)
      BY <1>3, <2>4, <2>5, FS_Injection
    <2> QED
      BY <2>5, <2>6
  <1>5. within = {i \in Compare : diff.limit = 0 \/ Count(Compare, i) <= diff.limit}
    OBVIOUS
  <1>6. Cardinality(within) < limit <=> Cardinality(Compare) < limit
    <2> HIDE DEF within, limit
    <2> QED
      BY <1>1, <1>2, <1>3, <1>4
  <1> QED
    BY <1>5, <1>6

(* What compare_records says is said of the earliest difference.           *)
LEMMA FirstReported ==
  ASSUME Logged, Asked, diff.says = CompareRecords(Expected, Actual, diff.limit)
  PROVE  DivergenceIsFirst
  <1> DEFINE within == Limited(Expected, diff.limit)
             extra == Extra(Expected, Actual)
             i == Min(Alone)
             q == Min(extra)
             open == diff.limit = 0 \/ Cardinality(Compare) < diff.limit
  <1>1. Bad(Expected, Actual, diff.limit) = Alone
    BY BadIs
  <1>2. (diff.limit = 0 \/ Cardinality(within) < diff.limit) <=> open
    BY BadIs, WithinLimit
  <1>3. diff.says = IF Alone # {}
                      THEN [what |-> IF Keyed(Actual, Expected[i].key) = {} THEN "missing" ELSE "field",
                            key |-> Expected[i].key]
                      ELSE IF extra # {} /\ open
                             THEN [what |-> "extra", key |-> Actual[q].key]
                             ELSE [what |-> "ok", key |-> << >>]
    BY <1>1, <1>2 DEF CompareRecords
  <1>4. CASE Alone # {}
    <2>1. Alone \subseteq Compare /\ \A j \in Alone : j \in Nat
      BY Positions DEF Alone, Compare
    <2>2. i \in Compare
      BY <1>4, <2>1, MinIsLeast
    <2>3. Expected[i].key = KeyOf(i)
      BY <2>2, ExpectedIs
    <2>4. Keyed(Actual, KeyOf(i)) = {} <=> Counterpart(i) = {}
      BY <2>2, FoundIs
    <2>5. /\ diff.says.what = IF Counterpart(i) = {} THEN "missing" ELSE "field"
          /\ diff.says.key = KeyOf(i)
      BY <1>3, <1>4, <2>3, <2>4
    <2> QED
      BY <1>4, <2>5 DEF DivergenceIsFirst, KeyOf
  <1>5. CASE Alone = {} /\ Surplus # {} /\ open
    <2>1. extra # {} /\ \A p \in extra : p \in Nat /\ Actual[p].key[1] \in Surplus
      BY <1>5, ExtraIs
    <2>2. q \in extra
      <3> HIDE DEF extra
      <3> QED
        BY <2>1, MinIsLeast
    <2>3. diff.says.what = "extra" /\ diff.says.key[1] \in Surplus
      BY <1>3, <1>5, <2>1, <2>2
    <2> QED
      BY <1>5, <2>3 DEF DivergenceIsFirst
  <1>6. CASE Alone = {} /\ ~(Surplus # {} /\ open)
    <2>1. ~(extra # {} /\ open)
      BY <1>6, ExtraIs
    <2>2. diff.says.what = "ok"
      BY <1>3, <1>6, <2>1
    <2> QED
      BY <1>6, <2>2 DEF DivergenceIsFirst
  <1> QED
    BY <1>4, <1>5, <1>6

(* The canonical events of the difftest are those of the log, in order.    *)
LEMMA EntriesAre ==
  ASSUME NEW s \in Seq(Event)
  PROVE  LET listed == Listed(s, OfKind("entry", s))
         IN  /\ listed \in Seq(Event) /\ Len(listed) \in Nat /\ DOMAIN listed = 1 .. Len(listed)
             /\ \A n \in DOMAIN listed : listed[n].kind = "entry"
             /\ listed = << >> <=> Len(listed) = 0
             /\ Entries(s) = << >> <=> Len(listed) = 0
             /\ \A n \in DOMAIN listed : Entries(s)[n] = listed[n].addr
  <1> DEFINE S == OfKind("entry", s)
             listed == Listed(s, S)
  <1>1. S \in SUBSET DOMAIN s /\ \A i \in S : s[i].kind = "entry"
    BY DEF OfKind
  <1>2. Entries(s) = [n \in DOMAIN listed |-> listed[n].addr]
    BY DEF Entries
  <1> HIDE DEF S
  <1>3. /\ listed \in Seq(Event) /\ DOMAIN listed = 1 .. Cardinality(S) /\ Len(listed) = Cardinality(S)
        /\ Cardinality(S) \in Nat
        /\ \A n \in 1 .. Cardinality(S) : Nth(S, n) \in S /\ listed[n] = s[Nth(S, n)]
    BY <1>1, ListedIs
  <1>4. \A n \in DOMAIN listed : listed[n].kind = "entry"
    BY <1>1, <1>3
  <1> HIDE DEF listed
  <1>5. listed = << >> <=> Len(listed) = 0
    BY <1>3
  <1>6. Entries(s) = << >> <=> Len(listed) = 0
    <2>1. DOMAIN Entries(s) = 1 .. Len(listed) /\ Len(listed) \in Nat
      BY <1>2, <1>3
    <2>2. ASSUME Entries(s) = << >>
          PROVE  Len(listed) = 0
      <3>1. 1 .. Len(listed) = {}
        BY <2>1, <2>2
      <3>2. Len(listed) # 0 => 1 \in 1 .. Len(listed)
        BY <2>1
      <3> QED
        BY <3>1, <3>2
    <2>3. ASSUME Len(listed) = 0
          PROVE  Entries(s) = << >>
      <3>1. DOMAIN listed = {}
        BY <1>3, <2>3
      <3> QED
        BY <1>2, <3>1
    <2> QED
      BY <2>2, <2>3
  <1> QED
    BY <1>2, <1>3, <1>4, <1>5, <1>6 DEF S, listed

LEMMA FallbacksAre ==
  ASSUME NEW s \in Seq(Event)
  PROVE  /\ Len(Fell(s)) \in Nat /\ DOMAIN Fell(s) = 1 .. Len(Fell(s))
         /\ \A n \in DOMAIN Fell(s) : Fell(s)[n].kind = "modstart" /\ Fell(s)[n].phase = "fallback"
         /\ Fallbacks(s) = [n \in 1 .. Len(Fell(s)) |-> Fell(s)[n].module.stem]
  <1> DEFINE S == {i \in OfKind("modstart", s) : s[i].phase = "fallback"}
  <1>1. S \in SUBSET DOMAIN s /\ \A i \in S : s[i].kind = "modstart" /\ s[i].phase = "fallback"
    BY DEF OfKind
  <1>2. Fell(s) = Listed(s, S)
    BY DEF Fell
  <1> HIDE DEF S
  <1>3. /\ Listed(s, S) \in Seq(Event) /\ DOMAIN Listed(s, S) = 1 .. Cardinality(S)
        /\ Len(Listed(s, S)) = Cardinality(S) /\ Cardinality(S) \in Nat
        /\ \A n \in 1 .. Cardinality(S) : Nth(S, n) \in S /\ Listed(s, S)[n] = s[Nth(S, n)]
    BY <1>1, ListedIs
  <1>4. \A n \in DOMAIN Fell(s) : Fell(s)[n].kind = "modstart" /\ Fell(s)[n].phase = "fallback"
    BY <1>1, <1>2, <1>3
  <1>5. Len(Fell(s)) \in Nat /\ DOMAIN Fell(s) = 1 .. Len(Fell(s))
    BY <1>2, <1>3
  <1> QED
    BY <1>4, <1>5 DEF Fallbacks

(* What the difftest says of whole logs is right.                          *)
LEMMA FoundEquivalent ==
  ASSUME Logged, diff.says = Difftest(boot, port)
  PROVE  DifftestRight
  <1> DEFINE mine == Listed(port, OfKind("entry", port))
             theirs == Listed(boot, OfKind("entry", boot))
             alike == /\ Len(Fell(port)) = Len(Fell(boot))
                      /\ \A i \in DOMAIN Fell(boot) :
                           Fell(boot)[i].module.stem = Fell(port)[i].module.stem
             entered == mine # << >> /\ theirs # << >> /\ theirs[1].addr = mine[1].addr
  <1>1. boot \in Seq(Event) /\ port \in Seq(Event)
    BY DEF Logged
  <1>2. /\ Entries(boot) # << >> /\ Entries(port) # << >> /\ Entries(boot)[1] = Entries(port)[1]
        <=> entered
    <2>1. /\ mine \in Seq(Event) /\ Len(mine) \in Nat /\ DOMAIN mine = 1 .. Len(mine)
          /\ \A n \in DOMAIN mine : mine[n].kind = "entry"
          /\ mine = << >> <=> Len(mine) = 0
          /\ Entries(port) = << >> <=> Len(mine) = 0
          /\ \A n \in DOMAIN mine : Entries(port)[n] = mine[n].addr
      BY <1>1, EntriesAre
    <2>2. /\ theirs \in Seq(Event) /\ Len(theirs) \in Nat /\ DOMAIN theirs = 1 .. Len(theirs)
          /\ \A n \in DOMAIN theirs : theirs[n].kind = "entry"
          /\ theirs = << >> <=> Len(theirs) = 0
          /\ Entries(boot) = << >> <=> Len(theirs) = 0
          /\ \A n \in DOMAIN theirs : Entries(boot)[n] = theirs[n].addr
      BY <1>1, EntriesAre
    <2> HIDE DEF mine, theirs
    <2>3. CASE Len(mine) = 0 \/ Len(theirs) = 0
      BY <2>1, <2>2, <2>3
    <2>4. CASE Len(mine) # 0 /\ Len(theirs) # 0
      <3>1. 1 \in DOMAIN mine /\ 1 \in DOMAIN theirs
        BY <2>1, <2>2, <2>4
      <3> QED
        BY <2>1, <2>2, <2>4, <3>1
    <2> QED
      BY <2>3, <2>4
  <1>3. Fallbacks(boot) = Fallbacks(port) <=> alike
    <2> DEFINE b == Fell(boot)
               p == Fell(port)
    <2>1. /\ Len(b) \in Nat /\ DOMAIN b = 1 .. Len(b)
          /\ \A n \in DOMAIN b : b[n].kind = "modstart" /\ b[n].phase = "fallback"
          /\ Fallbacks(boot) = [n \in 1 .. Len(b) |-> b[n].module.stem]
      BY <1>1, FallbacksAre
    <2>2. /\ Len(p) \in Nat /\ DOMAIN p = 1 .. Len(p)
          /\ \A n \in DOMAIN p : p[n].kind = "modstart" /\ p[n].phase = "fallback"
          /\ Fallbacks(port) = [n \in 1 .. Len(p) |-> p[n].module.stem]
      BY <1>1, FallbacksAre
    <2> HIDE DEF b, p
    <2>3. ASSUME Fallbacks(boot) = Fallbacks(port)
          PROVE  Len(b) = Len(p)
      <3>1. 1 .. Len(b) = 1 .. Len(p)
        BY <2>1, <2>2, <2>3
      <3>2. Len(b) < Len(p) => Len(p) \in 1 .. Len(p) /\ Len(p) \notin 1 .. Len(b)
        BY <2>1, <2>2
      <3>3. Len(p) < Len(b) => Len(b) \in 1 .. Len(b) /\ Len(b) \notin 1 .. Len(p)
        BY <2>1, <2>2
      <3>4. ~(Len(b) < Len(p)) /\ ~(Len(p) < Len(b))
        BY <3>1, <3>2, <3>3, Zenon
      <3>5. Len(b) \in Nat /\ Len(p) \in Nat
        BY <2>1, <2>2
      <3> QED
        BY <3>4, <3>5
    <2>4. ASSUME Len(b) = Len(p)
          PROVE  Fallbacks(boot) = Fallbacks(port) <=>
                   \A n \in 1 .. Len(b) : b[n].module.stem = p[n].module.stem
      BY <2>1, <2>2, <2>4
    <2>5. alike <=> Len(p) = Len(b) /\ \A n \in 1 .. Len(b) : b[n].module.stem = p[n].module.stem
      BY <2>1 DEF b, p
    <2> HIDE DEF alike
    <2> QED
      BY <2>3, <2>4, <2>5
  <1>4. diff.says = "equivalent" <=> entered /\ alike
    <2> HIDE DEF entered, alike
    <2> QED
      BY <1>2, <1>3 DEF Difftest
  <1> QED
    BY <1>4 DEF DifftestRight

------------------------------------------------------------------------------

(* Both boots are logs of events, and what the last comparison said is what*)
(* it says of the boots as they are: a change of the port's boot takes it  *)
(* back.                                                                   *)
Claimed ==
  \/ diff = NoDiff
  \/ /\ diff.tool = "diff" /\ Asked
     /\ diff.says = CompareRecords(Expected, Actual, diff.limit)
  \/ /\ diff.tool = "difftest"
     /\ ~diff.timeouts => diff.says = Difftest(boot, port)

BootIInv == Logged /\ Claimed

(* The invariant holds at first and after every step.                      *)
LEMMA BootInitial ==
  ASSUME BootInit
  PROVE  BootIInv
  <1>1. boot \in Seq(Event)
    BY BootAssumption DEF BootInit
  <1> DEFINE S == {i \in DOMAIN boot : Named(boot[i])}
  <1>2. port = Listed(boot, S) /\ S \in SUBSET DOMAIN boot
    BY DEF BootInit
  <1> HIDE DEF S
  <1>3. port \in Seq(Event)
    BY <1>1, <1>2, ListedIs
  <1> QED
    BY <1>1, <1>3 DEF BootInit, BootIInv, Logged, Claimed

LEMMA BootStep ==
  ASSUME BootIInv, [BootNext]_bootVars
  PROVE  BootIInv'
  <1>1. boot \in Seq(Event) /\ port \in Seq(Event) /\ Len(boot) \in Nat
    BY DEF BootIInv, Logged
  <1>2. ASSUME Parts, port' \in Seq(Event)
        PROVE  BootIInv'
    BY <1>1, <1>2 DEF Parts, BootIInv, Logged, Claimed
  <1>3. ASSUME boot' = boot, port' = port
        PROVE  /\ Logged' /\ OracleRows' = OracleRows
               /\ \A cut \in BOOLEAN : /\ ElisaRows(cut)' = ElisaRows(cut)
                                       /\ Facts(cut)' = Facts(cut)
    <2>1. Logged'
      BY <1>1, <1>3 DEF Logged
    <2>2. OracleRows' = OracleRows
      BY <1>3 DEF OracleRows
    <2>3. /\ Imports' = Imports /\ Probes' = Probes /\ Stubs' = Stubs
          /\ \A cut \in BOOLEAN : Emitted(cut)' = Emitted(cut)
      BY <1>3 DEF Imports, Owner, Probes, Stubs, Emitted
    <2>4. \A cut \in BOOLEAN : ElisaRows(cut)' = ElisaRows(cut)
      BY <1>3, <2>3 DEF ElisaRows
    <2>5. \A cut \in BOOLEAN : Facts(cut)' = Facts(cut)
      BY <1>3 DEF Facts
    <2> QED
      BY <2>1, <2>2, <2>4, <2>5
  <1>4. CASE Differs
    <2>1. PICK i \in {j \in DOMAIN port : port[j] \in DOMAIN Variants} :
            \E e \in Variants[port[i]] : Parts /\ port' = [port EXCEPT ![i] = e]
      BY <1>4 DEF Differs
    <2>2. PICK e \in Variants[port[i]] : Parts /\ port' = [port EXCEPT ![i] = e]
      BY <2>1
    <2>3. e \in Event
      BY <2>1, <2>2, BootAssumption
    <2>4. port' \in Seq(Event)
      BY <1>1, <2>2, <2>3
    <2> QED
      BY <1>2, <2>2, <2>4
  <1>5. CASE Skips
    <2>1. PICK i \in DOMAIN port : Parts /\ port' = RemoveAt(port, i)
      BY <1>5 DEF Skips
    <2>2. port' = SubSeq(port, 1, i - 1) \o SubSeq(port, i + 1, Len(port))
      BY <2>1 DEF RemoveAt
    <2>3. i \in 1 .. Len(port) /\ Len(port) \in Nat
      BY <1>1, <2>1
    <2>4. SubSeq(port, 1, i - 1) \in Seq(Event) /\ SubSeq(port, i + 1, Len(port)) \in Seq(Event)
      BY <1>1, <2>3
    <2>5. port' \in Seq(Event)
      BY <2>2, <2>4, ConcatProperties
    <2> QED
      BY <1>2, <2>1, <2>5
  <1>6. CASE Repeats
    <2>1. PICK i \in DOMAIN port : Parts /\ port' = InsertAt(port, i, port[i])
      BY <1>6 DEF Repeats
    <2>2. port' = SubSeq(port, 1, i - 1) \o <<port[i]>> \o SubSeq(port, i, Len(port))
      BY <2>1 DEF InsertAt
    <2>3. i \in 1 .. Len(port) /\ Len(port) \in Nat
      BY <1>1, <2>1
    <2>4. /\ SubSeq(port, 1, i - 1) \in Seq(Event) /\ SubSeq(port, i, Len(port)) \in Seq(Event)
          /\ <<port[i]>> \in Seq(Event)
      BY <1>1, <2>3
    <2>5. port' \in Seq(Event)
      BY <2>2, <2>4, ConcatProperties
    <2> QED
      BY <1>2, <2>1, <2>5
  <1>7. CASE Swaps
    <2>1. PICK i \in 1 .. (Len(port) - 1) :
            Parts /\ port' = [port EXCEPT ![i] = port[i + 1], ![i + 1] = port[i]]
      BY <1>7 DEF Swaps
    <2>2. i \in DOMAIN port /\ i + 1 \in DOMAIN port
      BY <1>1, <2>1
    <2>3. port[i] \in Event /\ port[i + 1] \in Event
      BY <1>1, <2>2
    <2>4. port' \in Seq(Event)
      BY <1>1, <2>1, <2>2, <2>3
    <2> QED
      BY <1>2, <2>1, <2>4
  <1>8. CASE Diff
    <2>1. PICK limit \in {0, 2, Len(boot)}, kinds \in Kinds, cut \in BOOLEAN :
            diff' = [tool |-> "diff", limit |-> limit, kinds |-> kinds, cut |-> cut,
                     says |-> Compared(OracleRecords(OracleRows),
                                       ElisaRecords(ElisaRows(cut), Facts(cut)), limit, kinds)]
      BY <1>8 DEF Diff
    <2>2. boot' = boot /\ port' = port
      BY <1>8 DEF Diff
    <2> DEFINE says == Compared(OracleRecords(OracleRows), ElisaRecords(ElisaRows(cut), Facts(cut)),
                                limit, kinds)
    <2>3. says = CompareRecords(Only(OracleRecords(OracleRows), kinds),
                                Only(ElisaRecords(ElisaRows(cut), Facts(cut)), kinds), limit)
      BY DEF Compared
    <2> HIDE DEF says
    <2>4. /\ diff'.tool = "diff" /\ diff'.limit = limit /\ diff'.kinds = kinds /\ diff'.cut = cut
          /\ diff'.says = says
      BY <2>1 DEF says
    <2>5. Asked'
      BY <1>1, <2>4 DEF Asked, Kinds, EventKind
    <2>6. /\ Expected' = Only(OracleRecords(OracleRows), kinds)
          /\ Actual' = Only(ElisaRecords(ElisaRows(cut), Facts(cut)), kinds)
      BY <1>3, <2>2, <2>4 DEF Expected, Actual, Recorded
    <2>7. diff'.says = CompareRecords(Expected', Actual', diff'.limit)
      BY <2>3, <2>4, <2>6
    <2> QED
      BY <1>3, <2>2, <2>4, <2>5, <2>7 DEF BootIInv, Claimed
  <1>9. CASE RunDifftest
    <2>1. PICK sp \in BOOLEAN, el \in BOOLEAN :
            diff' = [tool |-> "difftest", timeouts |-> sp \/ el,
                     says |-> Difftest(Log(boot, sp), Log(port, el))]
      BY <1>9 DEF RunDifftest
    <2>2. boot' = boot /\ port' = port
      BY <1>9 DEF RunDifftest
    <2>3. /\ diff'.tool = "difftest" /\ diff'.timeouts = (sp \/ el)
          /\ diff'.says = Difftest(Log(boot, sp), Log(port, el))
      BY <2>1
    <2>4. ~diff'.timeouts => diff'.says = Difftest(boot, port)
      BY <2>3 DEF Log
    <2> QED
      BY <1>3, <2>2, <2>3, <2>4 DEF BootIInv, Claimed
  <1>10. CASE UNCHANGED bootVars
    <2>1. boot' = boot /\ port' = port /\ diff' = diff
      BY <1>10 DEF bootVars
    <2>2. CASE diff = NoDiff
      BY <1>3, <2>1, <2>2 DEF BootIInv, Claimed
    <2>3. CASE /\ diff.tool = "diff" /\ Asked
               /\ diff.says = CompareRecords(Expected, Actual, diff.limit)
      <3>1. Asked' /\ diff.cut \in BOOLEAN
        BY <2>1, <2>3 DEF Asked
      <3>2. Expected' = Expected /\ Actual' = Actual
        BY <1>3, <2>1, <3>1 DEF Expected, Actual, Recorded
      <3> QED
        BY <1>3, <2>1, <2>3, <3>1, <3>2 DEF BootIInv, Claimed
    <2>4. CASE diff.tool = "difftest" /\ (~diff.timeouts => diff.says = Difftest(boot, port))
      BY <1>3, <2>1, <2>4 DEF BootIInv, Claimed
    <2> QED
      BY <2>2, <2>3, <2>4 DEF BootIInv, Claimed
  <1> QED
    BY <1>4, <1>5, <1>6, <1>7, <1>8, <1>9, <1>10 DEF BootNext

(* Under the invariant both comparisons say what they are for.             *)
LEMMA BootRight ==
  ASSUME BootIInv
  PROVE  FirstDivergence
  <1>1. CASE diff = NoDiff
    BY <1>1 DEF NoDiff, FirstDivergence, DivergenceIsFirst, DifftestRight
  <1>2. CASE diff.tool = "diff" /\ Asked /\ diff.says = CompareRecords(Expected, Actual, diff.limit)
    <2>1. DivergenceIsFirst
      BY <1>2, FirstReported DEF BootIInv
    <2> QED
      BY <1>2, <2>1 DEF FirstDivergence, DifftestRight
  <1>3. CASE diff.tool = "difftest" /\ (~diff.timeouts => diff.says = Difftest(boot, port))
    <2>1. CASE diff.timeouts
      BY <1>3, <2>1 DEF FirstDivergence, DivergenceIsFirst, DifftestRight
    <2>2. CASE ~diff.timeouts
      <3>1. DifftestRight
        BY <1>3, <2>2, FoundEquivalent DEF BootIInv
      <3> QED
        BY <1>3, <3>1 DEF FirstDivergence, DivergenceIsFirst
    <2> QED
      BY <2>1, <2>2
  <1> QED
    BY <1>1, <1>2, <1>3 DEF BootIInv, Claimed

(* The two comparisons of boots (compare_records of boot_oracle_diff, main *)
(* of the difftest), whatever the boots are and whatever the artifacts     *)
(* leave out (RealGameBoot_EmitArtifacts: modules past the cap, calls past *)
(* the ring, the end of a cut file; stub rows and probes in the place of   *)
(* resolve rows): the record reported is the earliest for which they do not*)
(* tell the same behaviour, and nothing is reported just if there is none. *)
(* The difftest finds whole logs equivalent just if the entry and the      *)
(* fallbacks are the same.                                                 *)
THEOREM EarliestReported == BootSpec => []FirstDivergence
  <1>1. BootInit => BootIInv
    BY BootInitial
  <1>2. BootIInv /\ [BootNext]_bootVars => BootIInv'
    BY BootStep
  <1>3. BootIInv => FirstDivergence
    BY BootRight
  <1> QED
    BY <1>1, <1>2, <1>3, PTL DEF BootSpec
==============================================================================
