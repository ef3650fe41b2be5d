------------------------------ MODULE BootTrace ------------------------------
(***************************************************************************)
(* One game booted by shadPS4 (the reference) and by the Elisa emulator,   *)
(* and the two programs that look for the first place where the boots part:*)
(* tools/boot_oracle_diff.py compares the BOOT_ORACLE lines of the one with*)
(* the artifact lines of the other, record by record; difftest/            *)
(* boot_difftest.py compares a few canonical events of the two logs.       *)
(*                                                                         *)
(* A boot is a sequence of events [kind, ...]: module, entry, resolve, hle *)
(* (a call into the host), modstart.  What is printed of it is a record of *)
(* fields; numbers are compared as numbers however they are spelt.  Names  *)
(* are [dir, stem, ext], as far as a comparison strips them, addresses in  *)
(* the game's own image are offsets from where it is loaded.  In the port's*)
(* boot the imports of a module stand behind it, as in the linker's tables.*)
(*                                                                         *)
(* A list that is filtered is a function on the positions that are left,   *)
(* so that what is n-th in it is a matter of counting positions.           *)
(***************************************************************************)
EXTENDS Integers, Sequences, FiniteSets, FiniteSetsExt, SequencesExt

CONSTANTS
    Boots,      \* what the reference may do: sequences of events
    Variants,   \* what may stand for an event in the port's boot
    Ring,       \* HLE calls the port keeps: the last ones
    MaxModules, \* modules the artifacts have a row for: the first ones
    Probed,     \* imports they have a probe for
    MaxParts    \* bound: places where the port's boot is changed

VARIABLES
    boot,       \* the events of the reference
    port,       \* the events of the port's boot
    parts,      \* changes made to it so far
    diff        \* what the last comparison said

bootVars == <<boot, port, parts, diff>>

(* Of a file name, ext is the extension if it is one that a comparison may *)
(* strip.  Of the registers a call is printed with the first ones.  An     *)
(* import the port has only a stub for (AeroLib) counts as resolved.       *)
FileName == [dir : STRING, stem : STRING, ext : {".prx", ".sprx", ".bin", ".elf", ""}]
Event ==
  [kind : {"module"}, name : FileName, base : Int, size : Int]
  \union [kind : {"entry"}, addr : Int]
  \union [kind : {"resolve"}, nid : Int, resolved : {0, 1}, stub : BOOLEAN]
  \union [kind : {"modstart"}, module : FileName, phase : STRING, entry : Int]
  \union [kind : {"hle"}, module : STRING, symbol : STRING, return : Nat, rdi : Nat]
  \union [kind : {"hle"}, module : STRING, symbol : STRING, return : Nat, rdi : Nat, rsi : Nat]
  \union [kind : {"hle"}, module : STRING, symbol : STRING, return : Nat,
          rdi : Nat, rsi : Nat, rdx : Nat]

ASSUME BootAssumption ==
  /\ Boots \subseteq Seq(Event)
  /\ \A e \in DOMAIN Variants : Variants[e] \subseteq Event
  /\ Ring \in Nat
  /\ MaxModules \in Nat
  /\ Probed \subseteq Int

NoDiff == [tool |-> "none"]
Args == {"rdi", "rsi", "rdx"}
PointerThreshold == 2 ^ 30   \* 0x40000000
PageSize == 4096             \* PAGE_MASK + 1

OfKind(k, s) == {i \in DOMAIN s : s[i].kind = k}
Count(S, i) == Cardinality({j \in S : j <= i})    \* i is the n-th of S
NumberOf(s, i) == Count(OfKind(s[i].kind, s), i)  \* s[i] is the n-th of its kind
Nth(S, n) == CHOOSE i \in S : Count(S, i) = n
Listed(s, S) == [n \in 1..Cardinality(S) |-> s[Nth(S, n)]]

(***************************************************************************)
(* Fields                                                                  *)
(***************************************************************************)

Has(f, k) == k \in DOMAIN f
Set(f, k, v) == [x \in DOMAIN f \union {k} |-> IF x = k THEN v ELSE f[x]]
Alias(f, a, b) == IF Has(f, b) /\ ~Has(f, a) THEN Set(f, a, f[b]) ELSE f
Both(f, a, b) == Alias(Alias(f, a, b), b, a)

BaseName(name) == [name EXCEPT !.dir = ""]
Library(name) == IF name.ext = ".prx" THEN [BaseName(name) EXCEPT !.ext = ""] ELSE BaseName(name)

(* normalize_fields: both spellings of a field, file names without their   *)
(* directory.                                                              *)
Normalized(kind, f) ==
  CASE kind = "module" ->
         LET g == Both(f, "name", "module")
         IN  [g EXCEPT !["name"] = BaseName(@), !["module"] = BaseName(@)]
    [] kind = "entry" -> Both(f, "addr", "entry")
    [] kind = "resolve" -> Both(Both(Both(f, "symbol", "name"), "resolved", "resolved_addr"),
                                "kind", "resolution")
    [] kind = "modstart" -> [f EXCEPT !["module"] = Library(@)]
    [] OTHER -> f

(* The fields compare_records passes over; a register the reference reports*)
(* as 0x0 is not an argument of the call.                                  *)
Ignored(kind, f, v) ==
  \/ f \in {"path", "host", "image"}
  \/ kind = "module" /\ f = "base"
  \/ kind = "hle" /\ f \in {"seq", "wrapper", "return"}
  \/ kind = "modstart" /\ f \in {"seq", "base", "entry", "array"}
  \/ kind = "hle" /\ f \in Args /\ v = 0

(* values_equal and pointer_arg_equal: of two pointers only the offset in  *)
(* the page is the same in every run.                                      *)
FieldEqual(kind, f, l, r) ==
  IF kind = "hle" /\ f \in Args /\ l >= PointerThreshold /\ r >= PointerThreshold
    THEN l % PageSize = r % PageSize
    ELSE l = r

Agree(e, a) == \A f \in DOMAIN e.fields \intersect DOMAIN a.fields :
  Ignored(e.kind, f, e.fields[f]) \/ FieldEqual(e.kind, f, e.fields[f], a.fields[f])

(***************************************************************************)
(* Records                                                                 *)
(***************************************************************************)

(* parse_boot_oracle drops calls through wrappers nobody registered.       *)
Kept(row) == row.kind = "hle" => Has(row.fields, "module") /\ row.fields["symbol"] # "unknown"

Either(f, a, b, n) == IF Has(f, a) THEN f[a] ELSE IF Has(f, b) THEN f[b] ELSE n

(* oracle_key and resolve_key: n counts the records of the kind.           *)
Key(kind, f, n) ==
  <<kind, CASE kind = "module" -> Either(f, "index", "name", n)
            [] kind = "entry" -> 0
            [] kind \in {"hle", "modstart"} -> n
            [] kind = "resolve" -> Either(f, "nid", "index", n)
            [] OTHER -> Either(f, "seq", "index", n)>>

Record(row, n) ==
  LET f == Normalized(row.kind, row.fields)
  IN  [kind |-> row.kind, fields |-> f, key |-> Key(row.kind, f, n)]

KeptRows(rows) == {i \in DOMAIN rows : Kept(rows[i])}

(* mutant: calls are numbered before the unregistered ones are dropped     *)
MutOracleRecords(rows) == [i \in KeptRows(rows) |-> Record(rows[i], NumberOf(rows, i))]

OracleRecords(rows) ==
  [i \in KeptRows(rows) |-> Record(rows[i], NumberOf(Restrict(rows, KeptRows(rows)), i))]

(* parse_elisa_artifacts: calls and module starts carry their number, the  *)
(* entry comes from a fact, and a last call known only from facts stands   *)
(* as the first.  Both stand behind the rows.                              *)
ElisaKey(kind, f) ==
  <<kind, CASE kind \in {"hle", "modstart"} -> f["seq"]
            [] kind = "resolve" -> f["nid"]
            [] OTHER -> f["index"]>>

ElisaRecord(row) ==
  [kind |-> row.kind, fields |-> Normalized(row.kind, row.fields),
   key |-> ElisaKey(row.kind, row.fields)]

ElisaRecords(rows, facts) ==
  LET end == Max(DOMAIN rows \union {0})
      entry == IF Has(facts, "entry") THEN {end + 1} ELSE {}
      call == IF Has(facts, "last_hle") /\ OfKind("hle", rows) = {} THEN {end + 2} ELSE {}
  IN  [i \in DOMAIN rows \union entry \union call |->
         IF i \in DOMAIN rows THEN ElisaRecord(rows[i])
         ELSE IF i = end + 1
           THEN [kind |-> "entry", key |-> <<"entry", 0>>,
                 fields |-> Normalized("entry", [entry |-> facts["entry"]])]
           ELSE [kind |-> "hle", key |-> <<"hle", 1>>, fields |-> facts["last_hle"]]]

(* compare_records; limit 0 is no limit.  Of records with one key the last *)
(* stands in the dictionary.                                               *)
Keyed(records, key) == {i \in DOMAIN records : records[i].key = key}
Limited(exp, limit) == {i \in DOMAIN exp : limit = 0 \/ Count(DOMAIN exp, i) <= limit}
Bad(exp, act, limit) ==
  {i \in Limited(exp, limit) :
     LET with == Keyed(act, exp[i].key)
     IN  with = {} \/ ~Agree(exp[i], act[Max(with)])}
Extra(exp, act) ==
  {i \in DOMAIN act : /\ act[i].kind \in {"module", "entry", "hle", "modstart"}
                      /\ Keyed(exp, act[i].key) = {}}

CompareRecords(exp, act, limit) ==
  LET bad == Bad(exp, act, limit)
      extra == Extra(exp, act)
  IN  IF bad # {}
        THEN [what |-> IF Keyed(act, exp[Min(bad)].key) = {} THEN "missing" ELSE "field",
              key |-> exp[Min(bad)].key]
      ELSE IF extra # {} /\ (limit = 0 \/ Cardinality(Limited(exp, limit)) < limit)
        THEN [what |-> "extra", key |-> act[Min(extra)].key]
        ELSE [what |-> "ok", key |-> << >>]

Only(records, kinds) == Restrict(records, {i \in DOMAIN records : records[i].kind \in kinds})
Compared(expected, actual, limit, kinds) ==
  CompareRecords(Only(expected, kinds), Only(actual, kinds), limit)

(***************************************************************************)
(* What the two emulators print of a boot                                  *)
(***************************************************************************)

Named(e) == e.kind = "hle" => e.symbol # "unknown"
Fields(e) == [k \in DOMAIN e \ {"kind", "stub"} |-> e[k]]

(* shadPS4 numbers its modules, and its calls over all wrappers.           *)
OracleFields(e, n) ==
  CASE e.kind = "module" -> Set(Fields(e), "index", n)
    [] e.kind = "hle" -> Set(Fields(e), "seq", n)
    [] OTHER -> Fields(e)

OracleRows ==
  [i \in DOMAIN boot |->
     [kind |-> boot[i].kind, fields |-> OracleFields(boot[i], NumberOf(boot, i))]]

(* RealGameBoot_EmitArtifacts writes probes of some imports, the first     *)
(* modules with their imports, once more all imports that got a stub, the  *)
(* module starts and the calls still in the ring, counted from the first   *)
(* one ever made.  A file cut short ends before the last two.  The entry   *)
(* and the last call are facts.                                            *)
ElisaFields(e, n) ==
  IF e.kind = "modstart" THEN Set(Fields(e), "seq", n) ELSE OracleFields(e, n)

Imports == OfKind("resolve", port)
Owner(p) == Count(OfKind("module", port), p)

Emitted(cut) ==
  {p \in DOMAIN port :
     CASE port[p].kind \in {"module", "resolve"} -> Owner(p) \in 1..MaxModules
       [] port[p].kind = "modstart" -> ~cut
       [] port[p].kind = "hle" ->
            ~cut /\ NumberOf(port, p) > Cardinality(OfKind("hle", port)) - Ring
       [] OTHER -> FALSE}

(* EmitResolvedImportProbe: the first import of a name, with its address.  *)
Probes == {p \in Imports : /\ Owner(p) > 0 /\ port[p].nid \in Probed
                           /\ \A q \in Imports : q < p /\ Owner(q) > 0 => port[q].nid # port[p].nid}
ProbeRow(e) ==
  [kind |-> "resolve",
   fields |-> [nid |-> e.nid, resolved_addr |-> IF e.resolved = 0 THEN 0 ELSE PointerThreshold]]

(* EmitArtifactImport: the row does not say whether it is resolved.        *)
Stubs == {p \in Imports : Owner(p) > 0 /\ port[p].stub}
StubRow(e) == [kind |-> "resolve", fields |-> [nid |-> e.nid, resolution |-> "AeroLibFallback"]]

(* Probes stand at their position less the length of the boot, stubs at it *)
(* plus that: one before, the other behind the rows of the same kind.  The *)
(* file has its kinds one after the other, the rows here are in the order  *)
(* of the boot: of two kinds with a surplus another may be named.          *)
ElisaRows(cut) ==
  LET len == Len(port)
  IN  [i \in Emitted(cut) \union {p - len : p \in Probes} \union {p + len : p \in Stubs} |->
         IF i < 1 THEN ProbeRow(port[i + len])
         ELSE IF i > len THEN StubRow(port[i - len])
         ELSE [kind |-> port[i].kind, fields |-> ElisaFields(port[i], NumberOf(port, i))]]

(* The last row that has a key wins, and a module start has an entry too.  *)
Facts(cut) ==
  LET entries == OfKind("entry", port)
      starts == IF cut THEN {} ELSE OfKind("modstart", port)
      calls == OfKind("hle", port)
      given == (IF entries \union starts # {} THEN {"entry"} ELSE {})
               \union (IF calls # {} THEN {"last_hle"} ELSE {})
  IN  [k \in given |->
         IF k = "last_hle" THEN Fields(port[Max(calls)])
         ELSE IF starts # {} THEN port[Max(starts)].entry
         ELSE port[Max(entries)].addr]

(***************************************************************************)
(* boot_difftest.py                                                        *)
(***************************************************************************)

(* run: what a backend printed before its timeout is bytes, not text, and  *)
(* is dropped.                                                             *)
Log(events, timedOut) == IF timedOut THEN << >> ELSE events

(* canon_shadps4, canon_elisa and base: offsets of the entry, modules whose*)
(* start fell back to the ELF entry.                                       *)
Entries(log) ==
  LET entries == Listed(log, OfKind("entry", log))
  IN  [i \in DOMAIN entries |-> entries[i].addr]
Fell(log) == Listed(log, {i \in OfKind("modstart", log) : log[i].phase = "fallback"})
Fallbacks(log) == [i \in DOMAIN Fell(log) |-> Fell(log)[i].module.stem]

Difftest(sp, el) ==
  IF /\ Entries(sp) # << >> /\ Entries(el) # << >>
     /\ Entries(sp)[1] = Entries(el)[1]
     /\ Fallbacks(sp) = Fallbacks(el)
    THEN "equivalent" ELSE "diverge"

(***************************************************************************)
(* The port's boot is the reference's but for a few places.                *)
(***************************************************************************)

BootInit ==
  /\ boot \in Boots
  /\ port = Listed(boot, {i \in DOMAIN boot : Named(boot[i])})
  /\ parts = 0
  /\ diff = NoDiff

Parts ==
  /\ parts < MaxParts
  /\ parts' = parts + 1
  /\ diff' = NoDiff
  /\ UNCHANGED boot

Differs == \E i \in {j \in DOMAIN port : port[j] \in DOMAIN Variants} : \E e \in Variants[port[i]] :
  /\ Parts
  /\ port' = [port EXCEPT ![i] = e]

Skips == \E i \in DOMAIN port :
  /\ Parts
  /\ port' = RemoveAt(port, i)

Repeats == \E i \in DOMAIN port :
  /\ Parts
  /\ port' = InsertAt(port, i, port[i])

Swaps == \E i \in 1..(Len(port) - 1) :
  /\ Parts
  /\ port' = [port EXCEPT ![i] = port[i + 1], ![i + 1] = port[i]]

Kinds == {{"module", "entry", "resolve", "hle"}, {"module", "resolve", "hle"}, {"modstart"}}

Diff == \E limit \in {0, 2, Len(boot)}, kinds \in Kinds, cut \in BOOLEAN :
  /\ diff = NoDiff
  /\ diff' = [tool |-> "diff", limit |-> limit, kinds |-> kinds, cut |-> cut,
              says |-> Compared(OracleRecords(OracleRows), ElisaRecords(ElisaRows(cut), Facts(cut)),
                                limit, kinds)]
  /\ UNCHANGED <<boot, port, parts>>

RunDifftest == \E sp, el \in BOOLEAN :
  /\ diff = NoDiff
  /\ diff' = [tool |-> "difftest", timeouts |-> sp \/ el,
              says |-> Difftest(Log(boot, sp), Log(port, el))]
  /\ UNCHANGED <<boot, port, parts>>

BootNext == Differs \/ Skips \/ Repeats \/ Swaps \/ Diff \/ RunDifftest

BootSpec == BootInit /\ [][BootNext]_bootVars

(***************************************************************************)
(* Properties                                                              *)
(***************************************************************************)

SameArg(l, r) ==
  \/ l = 0
  \/ l = r
  \/ l >= PointerThreshold /\ r >= PointerThreshold /\ (l - r) % PageSize = 0

(* The event at p is told as the same behaviour as e.  That is the tool's  *)
(* notion, and not what docs/shadps4_boot_oracle.md asks ("base/size/entry *)
(* and resolved-or-not facts must match", returns "are visible"): neither  *)
(* the base nor the return counts (compare_records), nor what an import    *)
(* resolves to if its last row is that of a stub, which does not say it;   *)
(* of a probe the address counts.                                          *)
Same(e, p) ==
  LET a == port[p]
  IN  CASE e.kind = "module" -> e.name.stem = a.name.stem /\ e.name.ext = a.name.ext
                                /\ e.size = a.size
        [] e.kind = "entry" -> e.addr = IF a.kind = "entry" THEN a.addr ELSE a.entry
        [] e.kind = "resolve" -> IF p \in Stubs \union Emitted(diff.cut)
                                   THEN a.stub \/ e.resolved = a.resolved
                                   ELSE e.resolved = 0 /\ a.resolved = 0
        [] e.kind = "hle" -> /\ e.symbol = a.symbol /\ e.module = a.module
                             /\ \A r \in Args \intersect DOMAIN e \intersect DOMAIN a :
                                  SameArg(e[r], a[r])
        [] e.kind = "modstart" -> /\ e.module.stem = a.module.stem /\ e.phase = a.phase
                                  /\ \/ e.module.ext = a.module.ext
                                     \/ {e.module.ext, a.module.ext} = {".prx", ""}

Newest(S) == {p \in S : \A q \in S : q <= p}

(* What the artifacts tell as the n-th event of a kind: that one, if it is *)
(* among the first modules, or the last calls; without a row for any call  *)
(* the last one passes for the first.  The entry is the last one told, and *)
(* module starts tell one too.                                             *)
Told(kind, n) ==
  LET mine == OfKind(kind, port)
      shown == mine \intersect Emitted(diff.cut)
      starts == OfKind("modstart", port) \intersect Emitted(diff.cut)
  IN  CASE kind = "entry" -> Newest(IF starts # {} THEN starts ELSE mine)
        [] kind = "hle" /\ shown = {} -> {p \in Newest(mine) : n = 1}
        [] OTHER -> {p \in shown : Count(mine, p) = n}

(* Of an import, the last stub counts, or else the last row of one of the  *)
(* first modules, or else the probe.                                       *)
ToldImport(nid) ==
  LET named == {p \in Imports : port[p].nid = nid}
  IN  IF named \intersect Stubs # {} THEN Newest(named \intersect Stubs)
      ELSE IF named \intersect Emitted(diff.cut) # {} THEN Newest(named \intersect Emitted(diff.cut))
      ELSE named \intersect Probes

(* The events of the reference that are compared, and among them the ones  *)
(* that have no counterpart in the artifacts or another one.               *)
Compare == {i \in DOMAIN boot : boot[i].kind \in diff.kinds /\ Named(boot[i])}
Number(i) == Count({j \in Compare : boot[j].kind = boot[i].kind}, i)
Counterpart(i) ==
  IF boot[i].kind = "resolve" THEN ToldImport(boot[i].nid) ELSE Told(boot[i].kind, Number(i))
Alone == {i \in Compare : /\ diff.limit = 0 \/ Count(Compare, i) <= diff.limit
                          /\ ~\E p \in Counterpart(i) : Same(boot[i], p)}

(* The kinds of which the artifacts tell more than the reference does.     *)
Surplus == {k \in diff.kinds \ {"resolve"} :
  LET theirs == Cardinality({i \in Compare : boot[i].kind = k})
  IN  \E n \in 1..Len(port) :
        /\ Told(k, n) # {}
        /\ IF k = "entry" THEN theirs = 0 ELSE n > theirs}

(* The record reported (compare_records) is the earliest one, in the order *)
(* of the reference, for which the artifacts tell no counterpart or another*)
(* one, though numbers are missing on one side and shifted on the other and*)
(* names have several rows; and nothing is reported just if there is none  *)
(* within the limit and the artifacts tell no more of a kind than the      *)
(* reference.                                                              *)
DivergenceIsFirst == diff.tool = "diff" =>
  IF Alone # {}
    THEN LET i == Min(Alone)
         IN  /\ diff.says.what = IF Counterpart(i) = {} THEN "missing" ELSE "field"
             /\ diff.says.key = <<boot[i].kind, CASE boot[i].kind = "entry" -> 0
                                                 [] boot[i].kind = "resolve" -> boot[i].nid
                                                 [] OTHER -> Number(i)>>
    ELSE IF Surplus # {} /\ (diff.limit = 0 \/ Cardinality(Compare) < diff.limit)
           THEN diff.says.what = "extra" /\ diff.says.key[1] \in Surplus
           ELSE diff.says.what = "ok"

(* Given whole logs, the difftest finds boots equivalent just if the game's*)
(* entry and the modules that fell back to theirs are the same.            *)
DifftestRight == diff.tool = "difftest" /\ ~diff.timeouts =>
  LET mine == Listed(port, OfKind("entry", port))
      theirs == Listed(boot, OfKind("entry", boot))
  IN  diff.says = "equivalent" <=>
        /\ mine # << >> /\ theirs # << >> /\ theirs[1].addr = mine[1].addr
        /\ Len(Fell(port)) = Len(Fell(boot))
        /\ \A i \in DOMAIN Fell(boot) : Fell(boot)[i].module.stem = Fell(port)[i].module.stem

(* Both comparisons say what they are for (compare_records; main of the    *)
(* difftest): the earliest difference, and whether there is one.  What a   *)
(* difference is the artifacts and the tool decide (Told, Same), and that  *)
(* is less than the docs say: boots with other bases, returns or stubbed   *)
(* imports pass, and a module past the cap is reported missing.            *)
FirstDivergence == DivergenceIsFirst /\ DifftestRight

==============================================================================
