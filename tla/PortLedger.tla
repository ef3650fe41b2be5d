----------------------------- MODULE PortLedger -----------------------------
(***************************************************************************)
(* What the parity scripts call a finished port: the work queue of C++     *)
(* units (parity_workqueue.py) and the ledger of symbols                   *)
(* (parity_ledger_check.py).  A unit is its path without the suffix, a     *)
(* sequence of names.                                                      *)
(***************************************************************************)
EXTENDS Integers, Sequences, FiniteSets, FiniteSetsExt, SequencesExt

------------------------------------------------------------------------------
(* parity_workqueue.py.  A tree has C++ and Elisa files, files with bridge *)
(* or shim in their name, and units classified by hand (OVERRIDES).        *)
------------------------------------------------------------------------------

Excluded == {".git", "externals", "build", "cmake-build-debug", "third_party", "tests"}
Owned(u) == ToSet(u) \intersect Excluded = {}

(* bridge_signals: such a file speaks for its own path and its directory.  *)
BridgeSignals(tree) == UNION {{b, Front(b)} : b \in {f \in tree.bridges : Owned(f)}}

Bridged(tree, u) == \E s \in BridgeSignals(tree) :
  IF s = << >> THEN Len(u) = 1 ELSE IsPrefix(s, u)

(* What is excluded never comes to be classified as external.              *)
Classify(tree, u) ==
  IF u \in tree.elisa THEN "Native-Elisa"
  ELSE IF u \in DOMAIN tree.overrides THEN tree.overrides[u]
  ELSE IF Bridged(tree, u) THEN "Temporary-Cpp-Bridge" ELSE "Missing"

(* build_rows *)
UnitStatuses(tree) == {Classify(tree, u) : u \in {f \in tree.cpp : Owned(f)}}

------------------------------------------------------------------------------
(* parity_ledger_check.py: the first objection ends the check.             *)
------------------------------------------------------------------------------

Statuses == {"Native-Elisa", "Stub-Parity", "External-C-ABI", "Temporary-Cpp-Bridge",
             "AeroLibFallback", "Missing", "Not-Applicable-External"}

(* What an entry of a status must say: has is the set of its filled fields.*)
Needs(status) ==
  CASE status = "Native-Elisa" -> {"tests"}
    [] status = "External-C-ABI" -> {"boundary_reason", "shim_owner"}
    [] status = "Temporary-Cpp-Bridge" ->
         {"bridge_blocker", "retirement_plan", "retirement_criteria", "notes"}
    [] status = "Missing" -> {"milestone"}
    [] OTHER -> {}

EntryInOrder(e) == e.status \in Statuses /\ Needs(e.status) \subseteq e.has

(* A ledger is a set of targets, each with its required symbols and a      *)
(* sequence of entries.                                                    *)
TargetInOrder(t) ==
  /\ \A i, j \in DOMAIN t.entries : t.entries[i].symbol = t.entries[j].symbol => i = j
  /\ \A i \in DOMAIN t.entries : EntryInOrder(t.entries[i])
  /\ t.required \subseteq {t.entries[i].symbol : i \in DOMAIN t.entries}

LedgerInOrder(ledger) == ledger # {} /\ \A t \in ledger : TargetInOrder(t)

==============================================================================
