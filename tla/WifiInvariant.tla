--------------------------- MODULE WifiInvariant ---------------------------
(***************************************************************************)
(* The inductive invariant of WifiContext, in parts.                       *)
(***************************************************************************)
EXTENDS WifiContext

(* The index by name holds the rules and no others.                        *)
IndexInv == ssidToRules = Index(rules)

(* Only a scan has rules left to visit, and they are rules in use.         *)
VisitInv ==
  /\ unvisited \subseteq rules
  /\ phase # "scanning" => unvisited = {}

(* While there is no service nothing is counted.                           *)
DownInv ==
  phase = "down" =>
    /\ rules = {} /\ refCount = NoCounts
    /\ \A c \in Contexts : nativeContextRef[c] = 0 /\ leaked[c] = 0 /\ ~symbols[c]

Matched(r, result) == \E i \in result : Match(r[1], i)

(* During a scan the rules with counts are those that match it; otherwise  *)
(* they match the last one, as far as they are older than it.              *)
EvidenceInv ==
  /\ phase = "scanning" => \A r \in rules : refCount[r] > 0 <=> Matched(r, scan)
  /\ phase \notin {"scanning", "down"} =>
       \A r \in rules : refCount[r] > 0 => lastScan # NoScan /\ Matched(r, lastScan)

(* The file is one that saveRulesToLocal wrote, and of the rules in use    *)
(* unless they were edited since.                                          *)
FileInv ==
  /\ file # NoFile => \A l \in file : \E c \in Contexts, s \in SsidTexts : l = PlainLine(c, s)
  /\ phase \in {"editing", "saving"} => unsaved
  /\ phase \in {"idle", "scanning"} /\ file # NoFile /\ ~unsaved => file = SavedLines

WifiInv ==
  /\ TypeOK
  /\ IndexInv
  /\ VisitInv
  /\ DownInv
  /\ RefsAccounted
  /\ EvidenceInv
  /\ FileInv
=============================================================================
