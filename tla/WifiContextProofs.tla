------------------------- MODULE WifiContextProofs -------------------------
(***************************************************************************)
(* Proofs about WifiContext, for every set of contexts, networks, access   *)
(* points, signals and rules of the assets.                                *)
(***************************************************************************)
EXTENDS WifiInvariant, FiniteSetTheorems, FunctionTheorems, TLAPS

-----------------------------------------------------------------------------
(* Rules                                                                   *)

(* A line and a rule have a context and a name.                            *)
LEMMA LineTyped ==
  ASSUME NEW l \in Lines
  PROVE  l.result_context \in Contexts /\ l.ssid \in RuleSsids
<1>1. CASE l \in AssetLines
  BY <1>1, WifiAssumption DEF Line
<1>2. CASE \E c \in Contexts, s \in RuleSsids : l = PlainLine(c, s)
  BY <1>2 DEF PlainLine
<1> QED
  BY <1>1, <1>2 DEF Lines

(* So has a rule.                                                          *)
LEMMA RuleTyped ==
  ASSUME NEW r \in Rules
  PROVE  r[1] \in Lines /\ r[1].result_context \in Contexts /\ r[1].ssid \in RuleSsids
<1>1. r[1] \in Lines
  BY DEF Rules
<1> QED
  BY <1>1, LineTyped

(* A rule of the user keeps the context and the name it was made of.       *)
LEMMA PlainLineFields ==
  ASSUME NEW c \in Contexts, NEW s \in RuleSsids
  PROVE  /\ PlainLine(c, s) \in Lines
         /\ PlainLine(c, s).result_context = c
         /\ PlainLine(c, s).ssid = s
<1>1. PlainLine(c, s) \in Lines
  BY DEF Lines
<1> QED
  BY <1>1 DEF PlainLine

(* There are finitely many rules.                                          *)
LEMMA RulesFinite == IsFiniteSet(Rules)
<1>1. IsFiniteSet(RuleSsids)
  <2>1. IsFiniteSet(Ssids \cup {NullText})
    BY WifiAssumption, FS_AddElement
  <2> QED
    BY <2>1, FS_AddElement DEF RuleSsids, SsidTexts
<1> DEFINE pairs == Contexts \X RuleSsids
           plain == {PlainLine(c, s) : c \in Contexts, s \in RuleSsids}
           made == [p \in pairs |-> PlainLine(p[1], p[2])]
<1>2. IsFiniteSet(pairs)
  BY <1>1, WifiAssumption, FS_Product
<1>3. made \in Surjection(pairs, plain)
  <2>1. made \in [pairs -> plain]
    OBVIOUS
  <2>2. ASSUME NEW l \in plain PROVE \E p \in pairs : made[p] = l
    <3>1. PICK c \in Contexts, s \in RuleSsids : l = PlainLine(c, s)
      OBVIOUS
    <3>2. <<c, s>> \in pairs /\ made[<<c, s>>] = l
      BY <3>1
    <3> QED
      BY <3>2
  <2> QED
    BY <2>1, <2>2 DEF Surjection
<1>4. IsFiniteSet(plain)
  <2> HIDE DEF made, pairs, plain
  <2> QED
    BY <1>2, <1>3, FS_Surjection
<1>5. IsFiniteSet(Lines)
  <2>1. Lines = AssetLines \cup plain
    BY DEF Lines
  <2> HIDE DEF plain
  <2> QED
    BY <1>4, <2>1, WifiAssumption, FS_Union
<1>6. IsFiniteSet(1..MaxCopies)
  BY WifiAssumption, FS_Interval
<1> QED
  BY <1>5, <1>6, FS_Product DEF Rules

(* Rules that refer to a context can be counted.                           *)
LEMMA ReferringFinite ==
  ASSUME TypeOK, NEW c
  PROVE  IsFiniteSet(Referring(c)) /\ Cardinality(Referring(c)) \in Nat
<1>1. Referring(c) \in SUBSET Rules
  BY DEF Referring, TypeOK
<1> QED
  BY <1>1, RulesFinite, FS_Subset, FS_CardinalityType

(* The matches of a rule in a result, counted as BeginScan does.           *)
LEMMA MatchesCounted ==
  ASSUME TypeOK, IndexInv, NEW result \in SUBSET ScanItems, NEW r \in Rules
  PROVE  LET n == Cardinality({i \in result : r \in ssidToRules[i.ssid] /\ Match(r[1], i)})
         IN  n \in Nat /\ (n > 0 <=> r \in rules /\ Matched(r, result))
<1> DEFINE found == {i \in result : r \in ssidToRules[i.ssid] /\ Match(r[1], i)}
<1>1. IsFiniteSet(found)
  <2>1. found \in SUBSET ScanItems
    OBVIOUS
  <2> QED
    BY <2>1, WifiAssumption, FS_Subset
<1>2. Cardinality(found) \in Nat /\ (Cardinality(found) = 0 <=> found = {})
  <2> HIDE DEF found
  <2> QED
    BY <1>1, FS_CardinalityType, FS_EmptySet
<1>3. ASSUME NEW i \in result
      PROVE  r \in ssidToRules[i.ssid] /\ Match(r[1], i) <=> r \in rules /\ Match(r[1], i)
  <2>1. i.ssid \in RuleSsids
    BY WifiAssumption DEF Item, RuleSsids, SsidTexts
  <2>2. ssidToRules[i.ssid] = {x \in rules : x[1].ssid = i.ssid}
    BY <2>1 DEF IndexInv, Index
  <2> QED
    BY <2>2 DEF Match
<1>4. found # {} <=> r \in rules /\ Matched(r, result)
  BY <1>3 DEF Matched
<1> QED
  BY <1>2, <1>4

-----------------------------------------------------------------------------
(* Steps that leave parts of the state alone                               *)

(* References stay accounted for when no rule takes or gives one.          *)
LEMMA RefsKept ==
  ASSUME RefsAccounted, phase # "down",
         \A c \in Contexts : Referring(c)' = Referring(c),
         UNCHANGED <<nativeContextRef, symbols, leaked>>
  PROVE  RefsAccounted'
BY DEF RefsAccounted

(* When rules and counts stay, so do the rules that refer to a context.    *)
LEMMA ReferringKept ==
  ASSUME UNCHANGED <<rules, refCount, lastRefCount, unvisited>>, NEW c
  PROVE  Referring(c)' = Referring(c)
BY DEF Referring, HasReference

-----------------------------------------------------------------------------
(* Every step keeps the invariant                                          *)

(* There is no service at first, and no file.                              *)
LEMMA InitWifiInv == Init => WifiInv
<1> SUFFICES ASSUME Init PROVE WifiInv
  OBVIOUS
<1>1. TypeOK
  BY DEF Init, TypeOK, Index, NoCounts
<1>2. IndexInv /\ VisitInv /\ DownInv /\ RefsAccounted /\ EvidenceInv /\ FileInv
  BY DEF Init, IndexInv, VisitInv, DownInv, RefsAccounted, EvidenceInv, FileInv
<1> QED
  BY <1>1, <1>2 DEF WifiInv

(* A scan counts matches; the references are those the last counts say,    *)
(* until a rule is visited.                                                *)
LEMMA BeginScanKeeps ==
  ASSUME WifiInv, NEW result \in SUBSET ScanItems, BeginScan(result), wifiEnabled' \in BOOLEAN
  PROVE  WifiInv'
<1>1. TypeOK /\ IndexInv /\ unvisited = {}
  BY DEF WifiInv, VisitInv, BeginScan
<1>2. /\ refCount' \in [Rules -> Nat]
      /\ \A r \in Rules : refCount'[r] > 0 <=> r \in rules /\ Matched(r, result)
  BY <1>1, MatchesCounted DEF BeginScan
<1>3. /\ lastRefCount' \in [Rules -> Nat]
      /\ \A r \in rules : lastRefCount'[r] = refCount[r]
  BY <1>1 DEF BeginScan, TypeOK
<1>4. /\ phase = "idle" /\ phase' = "scanning" /\ scan' = result /\ unvisited' = rules
      /\ UNCHANGED <<stopping, rules, ssidToRules, lastScan, nativeContextRef, symbols,
                     leaked, file, unsaved>>
  BY DEF BeginScan, ruleVars, contextVars, fileVars
<1>5. TypeOK'
  BY <1>1, <1>2, <1>3, <1>4 DEF TypeOK
<1>6. IndexInv' /\ VisitInv' /\ DownInv'
  BY <1>1, <1>4 DEF IndexInv, VisitInv, DownInv
<1>7. ASSUME NEW c \in Contexts PROVE Referring(c)' = Referring(c)
  BY <1>1, <1>3, <1>4 DEF Referring, HasReference
<1>8. RefsAccounted'
  BY <1>4, <1>7, RefsKept DEF WifiInv
<1>9. EvidenceInv'
  <2>1. rules \subseteq Rules
    BY <1>1 DEF TypeOK
  <2>2. \A r \in rules : refCount'[r] > 0 <=> Matched(r, result)
    BY <1>2, <2>1
  <2> QED
    BY <1>4, <2>2 DEF EvidenceInv, Matched
<1>10. FileInv'
  BY <1>4 DEF WifiInv, FileInv, SavedLines
<1> QED
  BY <1>5, <1>6, <1>8, <1>9, <1>10 DEF WifiInv

(* A visit takes or gives back the reference of one rule, the one whose    *)
(* claim changes from what the last scan said to what this one says.       *)
LEMMA VisitKeeps ==
  ASSUME WifiInv, NEW r \in Rules, Visit(r)
  PROVE  WifiInv'
<1> DEFINE d == r[1].result_context
<1>1. /\ TypeOK /\ RefsAccounted /\ phase = "scanning" /\ phase' = "scanning"
      /\ r \in unvisited /\ r \in rules /\ unvisited' = unvisited \ {r}
      /\ UNCHANGED <<stopping, rules, ssidToRules, refCount, lastRefCount, scan, lastScan,
                     wifiEnabled, leaked, file, unsaved>>
  BY DEF WifiInv, VisitInv, Visit, ruleVars, fileVars
<1>2. d \in Contexts
  BY RuleTyped
<1>3. refCount[r] \in Nat /\ lastRefCount[r] \in Nat
  BY <1>1 DEF TypeOK
<1>4. /\ r \in Referring(d) <=> lastRefCount[r] > 0
      /\ r \in Referring(d)' <=> refCount[r] > 0
      /\ Referring(d) \ {r} = Referring(d)' \ {r}
      /\ \A c \in Contexts : c # d => Referring(c)' = Referring(c)
  BY <1>1 DEF Referring, HasReference
<1>5. IsFiniteSet(Referring(d)) /\ Cardinality(Referring(d)) \in Nat
  BY <1>1, ReferringFinite
<1>6. /\ nativeContextRef \in [Contexts -> Nat] /\ symbols \in [Contexts -> BOOLEAN]
      /\ leaked[d] \in Nat
      /\ nativeContextRef[d] = Cardinality(Referring(d)) + leaked[d]
      /\ symbols[d] <=> nativeContextRef[d] > 0
  BY <1>1, <1>2 DEF TypeOK, RefsAccounted
<1>7. /\ nativeContextRef' \in [Contexts -> Nat] /\ symbols' \in [Contexts -> BOOLEAN]
      /\ \A c \in Contexts : c # d => /\ nativeContextRef'[c] = nativeContextRef[c]
                                      /\ symbols'[c] = symbols[c]
      /\ nativeContextRef'[d] = Cardinality(Referring(d)') + leaked[d]
      /\ symbols'[d] <=> nativeContextRef'[d] > 0
  <2>1. CASE lastRefCount[r] = 0 /\ refCount[r] > 0 /\ GetNativeContext(d)
    <3>1. Referring(d)' = Referring(d) \cup {r} /\ r \notin Referring(d)
      BY <1>4, <2>1
    <3>2. Cardinality(Referring(d)') = Cardinality(Referring(d)) + 1
      BY <1>5, <3>1, FS_AddElement
    <3>3. /\ nativeContextRef' = [nativeContextRef EXCEPT ![d] = @ + 1]
          /\ symbols' = IF nativeContextRef[d] = 0 THEN [symbols EXCEPT ![d] = TRUE] ELSE symbols
      BY <2>1 DEF GetNativeContext
    <3> HIDE DEF d
    <3>4. /\ symbols' \in [Contexts -> BOOLEAN] /\ symbols'[d]
          /\ \A c \in Contexts : c # d => symbols'[c] = symbols[c]
      BY <1>2, <1>5, <1>6, <3>3
    <3> QED
      BY <1>2, <1>5, <1>6, <3>2, <3>3, <3>4
  <2>2. CASE lastRefCount[r] > 0 /\ refCount[r] = 0 /\ PutNativeContext(d)
    <3>1. Referring(d)' = Referring(d) \ {r} /\ r \in Referring(d)
      BY <1>4, <2>2
    <3>2. /\ Cardinality(Referring(d)') = Cardinality(Referring(d)) - 1
          /\ Cardinality(Referring(d)') \in Nat
      BY <1>5, <3>1, FS_RemoveElement, FS_CardinalityType
    <3>3. /\ nativeContextRef' = [nativeContextRef EXCEPT ![d] = IF @ = 0 THEN 0 ELSE @ - 1]
          /\ symbols' = IF nativeContextRef[d] = 1 THEN [symbols EXCEPT ![d] = FALSE] ELSE symbols
      BY <2>2 DEF PutNativeContext
    <3> HIDE DEF d
    <3>4. nativeContextRef[d] \in Nat /\ nativeContextRef[d] > 0
      BY <1>2, <1>5, <1>6, <3>2
    <3>5. nativeContextRef' = [nativeContextRef EXCEPT ![d] =
                                 IF nativeContextRef[d] = 0 THEN 0 ELSE nativeContextRef[d] - 1]
      BY <3>3
    <3>6. /\ nativeContextRef' \in [Contexts -> Nat]
          /\ nativeContextRef'[d] = nativeContextRef[d] - 1
          /\ \A c \in Contexts : c # d => nativeContextRef'[c] = nativeContextRef[c]
      BY <1>2, <1>6, <3>4, <3>5
    <3>7. /\ symbols' \in [Contexts -> BOOLEAN]
          /\ symbols'[d] <=> nativeContextRef[d] # 1
          /\ \A c \in Contexts : c # d => symbols'[c] = symbols[c]
      <4>1. CASE nativeContextRef[d] = 1
        BY <1>2, <1>6, <3>3, <4>1
      <4>2. CASE nativeContextRef[d] # 1
        BY <1>6, <3>3, <3>4, <4>2
      <4> QED
        BY <4>1, <4>2
    <3>8. nativeContextRef'[d] = Cardinality(Referring(d)') + leaked[d]
      BY <1>5, <1>6, <3>2, <3>6
    <3> QED
      BY <3>4, <3>6, <3>7, <3>8
  <2>3. CASE (lastRefCount[r] = 0 <=> refCount[r] = 0) /\ UNCHANGED <<nativeContextRef, symbols>>
    <3>1. Referring(d)' = Referring(d)
      BY <1>3, <1>4, <2>3
    <3> QED
      BY <1>6, <2>3, <3>1
  <2> QED
    BY <2>1, <2>2, <2>3 DEF Visit
<1>8. TypeOK'
  BY <1>1, <1>7 DEF TypeOK
<1>9. IndexInv' /\ VisitInv' /\ DownInv'
  BY <1>1 DEF WifiInv, IndexInv, VisitInv, DownInv
<1>10. RefsAccounted'
  <2> HIDE DEF d
  <2>1. ASSUME NEW c \in Contexts
        PROVE  /\ nativeContextRef'[c] = Cardinality(Referring(c)') + leaked[c]
               /\ symbols'[c] <=> nativeContextRef'[c] > 0
    BY <1>1, <1>4, <1>7 DEF RefsAccounted
  <2> QED
    BY <1>1, <2>1 DEF RefsAccounted
<1>11. EvidenceInv' /\ FileInv'
  BY <1>1 DEF WifiInv, EvidenceInv, FileInv, SavedLines, Matched
<1> QED
  BY <1>8, <1>9, <1>10, <1>11 DEF WifiInv

(* The scan becomes the last one.                                          *)
LEMMA EndScanKeeps ==
  ASSUME WifiInv, EndScan
  PROVE  WifiInv'
<1>1. /\ TypeOK /\ phase = "scanning" /\ unvisited = {} /\ phase' = "idle"
      /\ lastScan' = scan /\ scan' = {} /\ lastRefCount' = NoCounts
      /\ UNCHANGED <<stopping, rules, ssidToRules, refCount, unvisited, wifiEnabled,
                     nativeContextRef, symbols, leaked, file, unsaved>>
  BY DEF WifiInv, EndScan, ruleVars, contextVars, fileVars
<1>2. TypeOK'
  BY <1>1 DEF TypeOK, NoCounts
<1>3. IndexInv' /\ VisitInv' /\ DownInv'
  BY <1>1 DEF WifiInv, IndexInv, VisitInv, DownInv
<1>4. \A c \in Contexts : Referring(c)' = Referring(c)
  BY <1>1 DEF Referring, HasReference
<1>5. RefsAccounted'
  BY <1>1, <1>4, RefsKept DEF WifiInv
<1>6. EvidenceInv'
  <2>1. scan # NoScan
    BY <1>1, WifiAssumption DEF TypeOK
  <2> QED
    BY <1>1, <2>1 DEF WifiInv, EvidenceInv, Matched
<1>7. FileInv'
  BY <1>1 DEF WifiInv, FileInv, SavedLines
<1> QED
  BY <1>2, <1>3, <1>5, <1>6, <1>7 DEF WifiInv

(* A rule that is added has matched nothing yet.                           *)
LEMMA AddRuleKeeps ==
  ASSUME WifiInv, NEW c \in Contexts, NEW s \in RuleSsids, AddRule(c, s)
  PROVE  WifiInv'
<1>1. TypeOK /\ IndexInv /\ unvisited = {} /\ phase = "idle" /\ phase' = "editing"
  BY DEF WifiInv, VisitInv, AddRule
<1>2. PICK k \in 1..MaxCopies :
        LET r == <<PlainLine(c, s), k>>
        IN  /\ r \notin rules
            /\ rules' = rules \cup {r}
            /\ ssidToRules' = [ssidToRules EXCEPT ![s] = @ \cup {r}]
            /\ refCount' = [refCount EXCEPT ![r] = 0]
            /\ lastRefCount' = [lastRefCount EXCEPT ![r] = 0]
  BY DEF AddRule
<1> DEFINE r == <<PlainLine(c, s), k>>
<1>3. r \in Rules /\ r[1].ssid = s
  BY PlainLineFields DEF Rules
<1>4. /\ r \notin rules /\ rules' = rules \cup {r}
      /\ ssidToRules' = [ssidToRules EXCEPT ![s] = @ \cup {r}]
      /\ refCount' = [refCount EXCEPT ![r] = 0]
      /\ lastRefCount' = [lastRefCount EXCEPT ![r] = 0]
  BY <1>2
<1> HIDE DEF r
<1>5. /\ unsaved' = TRUE
      /\ UNCHANGED <<stopping, scan, unvisited, lastScan, wifiEnabled, nativeContextRef,
                     symbols, leaked, file>>
  BY DEF AddRule, contextVars
<1>6. /\ refCount' \in [Rules -> Nat] /\ refCount'[r] = 0
      /\ \A x \in rules : refCount'[x] = refCount[x]
  BY <1>1, <1>3, <1>4 DEF TypeOK
<1>7. TypeOK'
  <2>1. /\ rules' \in SUBSET Rules /\ ssidToRules' \in [RuleSsids -> SUBSET Rules]
        /\ lastRefCount' \in [Rules -> Nat]
    BY <1>1, <1>3, <1>4 DEF TypeOK
  <2> QED
    BY <1>1, <1>5, <1>6, <2>1 DEF TypeOK
<1>8. IndexInv'
  <2>1. ssidToRules' = [x \in RuleSsids |-> {y \in rules \cup {r} : y[1].ssid = x}]
    BY <1>1, <1>3, <1>4 DEF IndexInv, Index
  <2> QED
    BY <1>4, <2>1 DEF IndexInv, Index
<1>9. VisitInv' /\ DownInv'
  BY <1>1, <1>5 DEF VisitInv, DownInv
<1>10. ASSUME NEW d \in Contexts PROVE Referring(d)' = Referring(d)
  BY <1>1, <1>4, <1>5, <1>6 DEF Referring, HasReference
<1>11. RefsAccounted'
  BY <1>1, <1>5, <1>10, RefsKept DEF WifiInv
<1>12. EvidenceInv'
  BY <1>1, <1>4, <1>5, <1>6 DEF WifiInv, EvidenceInv, Matched
<1>13. FileInv'
  BY <1>1, <1>5 DEF WifiInv, FileInv
<1> QED
  BY <1>7, <1>8, <1>9, <1>11, <1>12, <1>13 DEF WifiInv

(* Rules that are removed leave their references behind.                   *)
LEMMA RemoveRulesKeeps ==
  ASSUME WifiInv, NEW c \in Contexts, NEW s \in RuleSsids, RemoveRules(c, s)
  PROVE  WifiInv'
<1> DEFINE gone == {r \in rules : r[1].result_context = c /\ (s = NoSsid \/ r[1].ssid = s)}
           lost == {r \in gone : refCount[r] > 0}
<1>1. TypeOK /\ IndexInv /\ unvisited = {} /\ phase = "idle" /\ phase' = "editing"
  BY DEF WifiInv, VisitInv, RemoveRules
<1>2. /\ rules' = rules \ gone
      /\ ssidToRules' = [x \in RuleSsids |-> ssidToRules[x] \ gone]
      /\ leaked' = [leaked EXCEPT ![c] = leaked[c] + Cardinality(lost)]
      /\ refCount' = [r \in Rules |-> IF r \in gone THEN 0 ELSE refCount[r]]
      /\ lastRefCount' = [r \in Rules |-> IF r \in gone THEN 0 ELSE lastRefCount[r]]
      /\ unsaved' = TRUE
      /\ UNCHANGED <<stopping, scan, unvisited, lastScan, wifiEnabled, nativeContextRef,
                     symbols, file>>
  BY DEF RemoveRules
<1>3. /\ gone \in SUBSET rules /\ lost = {r \in gone : refCount[r] > 0}
      /\ \A r \in gone : r[1].result_context = c
  OBVIOUS
<1> HIDE DEF gone, lost
<1>4. IsFiniteSet(lost) /\ Cardinality(lost) \in Nat
  <2>1. lost \in SUBSET Rules
    BY <1>1, <1>3 DEF TypeOK
  <2> QED
    BY <2>1, RulesFinite, FS_Subset, FS_CardinalityType
<1>5. TypeOK'
  <2>1. /\ rules' \in SUBSET Rules /\ ssidToRules' \in [RuleSsids -> SUBSET Rules]
        /\ refCount' \in [Rules -> Nat] /\ lastRefCount' \in [Rules -> Nat]
    BY <1>1, <1>2 DEF TypeOK
  <2>2. leaked' \in [Contexts -> Nat]
    BY <1>1, <1>2, <1>4 DEF TypeOK
  <2> QED
    BY <1>1, <1>2, <2>1, <2>2 DEF TypeOK
<1>6. IndexInv'
  BY <1>1, <1>2 DEF IndexInv, Index
<1>7. VisitInv' /\ DownInv'
  BY <1>1, <1>2 DEF VisitInv, DownInv
<1>8. rules \subseteq Rules
  BY <1>1 DEF TypeOK
<1>9. \A r \in rules' : refCount'[r] = refCount[r]
  BY <1>2, <1>8
<1>10. ASSUME NEW d \in Contexts
       PROVE  nativeContextRef[d] = Cardinality(Referring(d)') + leaked'[d]
  <2>1. Referring(d)' = Referring(d) \ gone
    BY <1>1, <1>2, <1>9 DEF Referring, HasReference
  <2>2. nativeContextRef[d] = Cardinality(Referring(d)) + leaked[d] /\ leaked[d] \in Nat
    BY <1>1 DEF WifiInv, RefsAccounted, TypeOK
  <2>3. IsFiniteSet(Referring(d)) /\ Cardinality(Referring(d)) \in Nat
    BY <1>1, ReferringFinite
  <2>4. CASE d = c
    <3>1. Referring(d) \cap gone = lost
      BY <1>1, <1>3, <2>4 DEF Referring, HasReference
    <3>2. Cardinality(Referring(d)') = Cardinality(Referring(d)) - Cardinality(lost)
      BY <2>1, <2>3, <3>1, FS_Difference
    <3>3. leaked'[d] = leaked[d] + Cardinality(lost)
      BY <1>1, <1>2, <2>4 DEF TypeOK
    <3> QED
      BY <1>4, <2>2, <2>3, <3>2, <3>3
  <2>5. CASE d # c
    <3>1. Referring(d)' = Referring(d) /\ leaked'[d] = leaked[d]
      BY <1>1, <1>2, <1>3, <2>1, <2>5 DEF Referring, TypeOK
    <3> QED
      BY <2>2, <3>1
  <2> QED
    BY <2>4, <2>5
<1>11. RefsAccounted'
  <2>1. \A d \in Contexts : symbols[d] <=> nativeContextRef[d] > 0
    BY <1>1 DEF WifiInv, RefsAccounted
  <2> QED
    BY <1>2, <1>10, <2>1 DEF RefsAccounted
<1>12. EvidenceInv'
  BY <1>1, <1>2, <1>9 DEF WifiInv, EvidenceInv, Matched
<1>13. FileInv'
  BY <1>1, <1>2 DEF WifiInv, FileInv
<1> QED
  BY <1>5, <1>6, <1>7, <1>11, <1>12, <1>13 DEF WifiInv

(* Steps that leave rules, counts and references alone keep what is said   *)
(* of them, as long as there is a service and no scan.                     *)
LEMMA ScanPartKept ==
  ASSUME WifiInv, phase \in {"idle", "editing", "saving"}, phase' \in {"idle", "editing", "saving"},
         UNCHANGED <<rules, ssidToRules, refCount, lastRefCount, scan, unvisited, lastScan,
                     nativeContextRef, symbols, leaked>>
  PROVE  IndexInv' /\ VisitInv' /\ DownInv' /\ RefsAccounted' /\ EvidenceInv'
<1>1. IndexInv' /\ VisitInv' /\ DownInv'
  BY DEF WifiInv, IndexInv, VisitInv, DownInv
<1>2. \A c \in Contexts : Referring(c)' = Referring(c)
  BY ReferringKept
<1>3. RefsAccounted'
  BY <1>2, RefsKept DEF WifiInv
<1>4. EvidenceInv'
  BY DEF WifiInv, EvidenceInv, Matched
<1> QED
  BY <1>1, <1>3, <1>4

(* The lines that are saved name every rule.                               *)
LEMMA SavedLinesTyped ==
  ASSUME TypeOK
  PROVE  /\ SavedLines \subseteq {l \in Lines : l.ssid # NoSsid}
         /\ \A l \in SavedLines : \E c \in Contexts, s \in SsidTexts : l = PlainLine(c, s)
<1> SUFFICES ASSUME NEW l \in SavedLines
             PROVE  /\ l \in Lines /\ l.ssid # NoSsid
                    /\ \E c \in Contexts, s \in SsidTexts : l = PlainLine(c, s)
  OBVIOUS
<1>1. PICK r \in rules : l = PlainLine(r[1].result_context, Text(r[1].ssid))
  BY DEF SavedLines
<1>2. r \in Rules
  BY DEF TypeOK
<1>3. r[1].result_context \in Contexts /\ Text(r[1].ssid) \in SsidTexts
  BY <1>2, RuleTyped DEF Text, RuleSsids, SsidTexts
<1>4. SsidTexts \subseteq RuleSsids /\ NoSsid \notin SsidTexts
  BY WifiAssumption DEF RuleSsids
<1> QED
  BY <1>1, <1>3, <1>4, PlainLineFields

(* Opening empties the file while the rules are known to be unsaved.       *)
LEMMA OpenFileKeeps ==
  ASSUME WifiInv, OpenFile
  PROVE  WifiInv'
<1>1. /\ phase = "editing" /\ phase' \in {"idle", "saving"} /\ (file' = {} \/ file' = file)
      /\ UNCHANGED <<stopping, rules, ssidToRules, refCount, lastRefCount, scan, unvisited,
                     lastScan, wifiEnabled, nativeContextRef, symbols, leaked, unsaved>>
  BY DEF OpenFile, ruleVars, scanVars, contextVars
<1>2. TypeOK'
  BY <1>1 DEF WifiInv, TypeOK
<1>3. IndexInv' /\ VisitInv' /\ DownInv' /\ RefsAccounted' /\ EvidenceInv'
  BY <1>1, ScanPartKept
<1>4. FileInv'
  BY <1>1 DEF WifiInv, FileInv
<1> QED
  BY <1>2, <1>3, <1>4 DEF WifiInv

(* Closing writes the rules in use, or leaves them unsaved.                *)
LEMMA CloseFileKeeps ==
  ASSUME WifiInv, CloseFile
  PROVE  WifiInv'
<1>1. /\ phase = "saving" /\ phase' = "idle"
      /\ \/ file' = SavedLines /\ unsaved' = FALSE
         \/ file' = file /\ unsaved' = unsaved
      /\ UNCHANGED <<stopping, rules, ssidToRules, refCount, lastRefCount, scan, unvisited,
                     lastScan, wifiEnabled, nativeContextRef, symbols, leaked>>
  BY DEF CloseFile, ruleVars, scanVars, contextVars, fileVars
<1>2. TypeOK /\ SavedLines' = SavedLines
  BY <1>1 DEF WifiInv, SavedLines
<1>3. TypeOK'
  BY <1>1, <1>2, SavedLinesTyped DEF TypeOK
<1>4. IndexInv' /\ VisitInv' /\ DownInv' /\ RefsAccounted' /\ EvidenceInv'
  BY <1>1, ScanPartKept
<1>5. FileInv'
  BY <1>1, <1>2, SavedLinesTyped DEF WifiInv, FileInv
<1> QED
  BY <1>3, <1>4, <1>5 DEF WifiInv

(* Asking the service to stop changes nothing yet.                         *)
LEMMA StopServiceKeeps ==
  ASSUME WifiInv, StopService
  PROVE  WifiInv'
<1>1. /\ phase = "idle" /\ phase' = "idle" /\ stopping' = TRUE
      /\ UNCHANGED <<rules, ssidToRules, refCount, lastRefCount, scan, unvisited,
                     lastScan, wifiEnabled, nativeContextRef, symbols, leaked, file, unsaved>>
  BY DEF StopService, ruleVars, scanVars, contextVars, fileVars
<1>2. TypeOK'
  BY <1>1 DEF WifiInv, TypeOK
<1>3. IndexInv' /\ VisitInv' /\ DownInv' /\ RefsAccounted' /\ EvidenceInv'
  BY <1>1, ScanPartKept
<1>4. FileInv'
  BY <1>1 DEF WifiInv, FileInv, SavedLines
<1> QED
  BY <1>2, <1>3, <1>4 DEF WifiInv

(* Without a file there is nothing to agree with.                          *)
LEMMA ResetConfKeeps ==
  ASSUME WifiInv, ResetConf
  PROVE  WifiInv'
<1>1. /\ phase \in {"down", "idle"} /\ phase' = phase /\ stopping' = (phase = "idle")
      /\ file' = NoFile
      /\ UNCHANGED <<rules, ssidToRules, refCount, lastRefCount, scan, unvisited,
                     lastScan, wifiEnabled, nativeContextRef, symbols, leaked, unsaved>>
  BY DEF ResetConf, ruleVars, scanVars, contextVars
<1>2. TypeOK'
  BY <1>1 DEF WifiInv, TypeOK
<1>3. IndexInv' /\ VisitInv' /\ DownInv' /\ RefsAccounted' /\ EvidenceInv'
  <2>1. CASE phase = "idle"
    BY <1>1, <2>1, ScanPartKept
  <2>2. CASE phase = "down"
    BY <1>1, <2>2 DEF WifiInv, IndexInv, VisitInv, DownInv, RefsAccounted, EvidenceInv
  <2> QED
    BY <1>1, <2>1, <2>2
<1>4. FileInv'
  BY <1>1 DEF WifiInv, FileInv
<1> QED
  BY <1>2, <1>3, <1>4 DEF WifiInv

(* What is read back are the rules that saving would write again.          *)
LEMMA CreateKeeps ==
  ASSUME WifiInv, Create
  PROVE  WifiInv'
<1>1. /\ TypeOK /\ DownInv /\ phase = "down" /\ phase' = "idle" /\ unvisited = {}
      /\ rules' = LoadedRules /\ ssidToRules' = Index(LoadedRules) /\ wifiEnabled' \in BOOLEAN
      /\ UNCHANGED <<stopping, refCount, lastRefCount, scan, unvisited, lastScan,
                     nativeContextRef, symbols, leaked, file, unsaved>>
  BY DEF WifiInv, VisitInv, Create, scanVars, contextVars, fileVars
<1>2. LoadedLines \subseteq Lines
  BY <1>1 DEF LoadedLines, Lines, TypeOK
<1>3. LoadedRules \in SUBSET Rules
  BY <1>2, WifiAssumption DEF LoadedRules, Rules
<1>4. TypeOK'
  <2>1. Index(LoadedRules) \in [RuleSsids -> SUBSET Rules]
    BY <1>3 DEF Index
  <2> QED
    BY <1>1, <1>3, <2>1 DEF TypeOK
<1>5. IndexInv' /\ VisitInv' /\ DownInv'
  BY <1>1 DEF IndexInv, VisitInv, DownInv
<1>6. \A r \in LoadedRules : refCount'[r] = 0
  BY <1>1, <1>3 DEF DownInv, NoCounts
<1>7. RefsAccounted'
  <2>1. \A c \in Contexts : Referring(c)' = {}
    BY <1>1, <1>6 DEF Referring, HasReference
  <2> QED
    BY <1>1, <2>1, FS_EmptySet DEF RefsAccounted, DownInv
<1>8. EvidenceInv'
  BY <1>1, <1>6 DEF EvidenceInv
<1>9. FileInv'
  <2>1. CASE file = NoFile
    BY <1>1, <2>1 DEF FileInv
  <2>2. CASE file # NoFile
    <3>1. \A l \in file : \E c \in Contexts, s \in SsidTexts : l = PlainLine(c, s)
      BY <2>2 DEF WifiInv, FileInv
    <3>2. ASSUME NEW l \in file
          PROVE  PlainLine(l.result_context, Text(l.ssid)) = l
      <4>1. PICK c \in Contexts, s \in SsidTexts : l = PlainLine(c, s)
        BY <3>1
      <4>2. l.result_context = c /\ l.ssid = s /\ s # NoSsid
        BY <4>1, PlainLineFields, WifiAssumption DEF RuleSsids
      <4> QED
        BY <4>1, <4>2 DEF Text
    <3>3. rules' = {<<l, 1>> : l \in file}
      BY <1>1, <2>2 DEF LoadedRules, LoadedLines
    <3>4. ASSUME NEW l \in file PROVE l \in SavedLines'
      <4>1. <<l, 1>> \in rules' /\ <<l, 1>>[1] = l
        BY <3>3
      <4> QED
        BY <3>2, <4>1 DEF SavedLines
    <3>5. ASSUME NEW m \in SavedLines' PROVE m \in file
      <4>1. PICK r \in rules' : m = PlainLine(r[1].result_context, Text(r[1].ssid))
        BY DEF SavedLines
      <4>2. PICK l \in file : r = <<l, 1>>
        BY <3>3
      <4> QED
        BY <3>2, <4>1, <4>2
    <3>6. file = SavedLines'
      <4>1. file \subseteq Lines
        BY <1>1, <2>2 DEF TypeOK
      <4>2. SavedLines' \subseteq file /\ file \subseteq SavedLines'
        BY <3>4, <3>5
      <4> QED
        BY <4>1, <4>2
    <3> QED
      BY <1>1, <3>1, <3>6 DEF FileInv
  <2> QED
    BY <2>1, <2>2
<1> QED
  BY <1>4, <1>5, <1>7, <1>8, <1>9 DEF WifiInv

(* The objects go, the file stays one that was saved.                      *)
LEMMA ForgetKeeps ==
  ASSUME WifiInv, Forget
  PROVE  WifiInv'
<1>1. TypeOK'
  BY DEF Forget, WifiInv, TypeOK, NoCounts, Index
<1>2. IndexInv' /\ VisitInv' /\ DownInv' /\ RefsAccounted' /\ EvidenceInv'
  BY DEF Forget, IndexInv, VisitInv, DownInv, RefsAccounted, EvidenceInv
<1>3. FileInv'
  BY DEF Forget, WifiInv, FileInv
<1> QED
  BY <1>1, <1>2, <1>3 DEF WifiInv

-----------------------------------------------------------------------------
(* Theorems                                                                *)

(* WifiInv is an invariant of the Wi-Fi contexts.                          *)
THEOREM WifiInvariance == Spec => []WifiInv
<1>1. Init => WifiInv
  BY InitWifiInv
<1>2. WifiInv /\ [Next]_vars => WifiInv'
  <2> SUFFICES ASSUME WifiInv, [Next]_vars PROVE WifiInv'
    OBVIOUS
  <2>1. ASSUME NEW enabled \in BOOLEAN, NetworkStateChanged(enabled) PROVE WifiInv'
    BY <2>1, BeginScanKeeps DEF NetworkStateChanged
  <2>2. ASSUME NEW result \in SUBSET ScanItems, RssiChanged(result) PROVE WifiInv'
    <3>1. BeginScan(result) /\ wifiEnabled' \in BOOLEAN
      BY <2>2 DEF RssiChanged, WifiInv, TypeOK
    <3> QED
      BY <3>1, BeginScanKeeps
  <2>3. CASE ScanStep
    BY <2>3, VisitKeeps, EndScanKeeps DEF ScanStep
  <2>4. ASSUME NEW c \in Contexts, NEW s \in RuleSsids, AddRule(c, s) \/ RemoveRules(c, s)
        PROVE  WifiInv'
    BY <2>4, AddRuleKeeps, RemoveRulesKeeps
  <2>5. CASE OpenFile \/ CloseFile
    BY <2>5, OpenFileKeeps, CloseFileKeeps
  <2>6. CASE Create \/ StopService \/ ResetConf
    BY <2>6, CreateKeeps, StopServiceKeeps, ResetConfKeeps
  <2>7. CASE Destroy \/ Kill
    BY <2>7, ForgetKeeps DEF Destroy, Kill
  <2>8. CASE UNCHANGED vars
    BY <2>8 DEF vars, ruleVars, scanVars, contextVars, fileVars, WifiInv, TypeOK, IndexInv,
       VisitInv, DownInv, RefsAccounted, Referring, HasReference, EvidenceInv, Matched,
       FileInv, SavedLines
  <2> QED
    BY <2>1, <2>2, <2>3, <2>4, <2>5, <2>6, <2>7, <2>8 DEF Next
<1> QED
  BY <1>1, <1>2, PTL DEF Spec

(* No count is negative, and the file names every rule.                    *)
THEOREM WifiTypeCorrect == Spec => []TypeOK
<1>1. WifiInv => TypeOK
  BY DEF WifiInv
<1> QED
  BY <1>1, WifiInvariance, PTL

(* A context has one reference for every rule that holds one and for every *)
(* rule removed while it did, between any two visits (WifiContext.java:88, *)
(* :148).                                                                  *)
THEOREM ReferencesAccounted == Spec => []RefsAccounted
<1>1. WifiInv => RefsAccounted
  BY DEF WifiInv
<1> QED
  BY <1>1, WifiInvariance, PTL

(* Between handlers no context is entered without a rule that matches the  *)
(* latest scan, leaked references apart.                                   *)
THEOREM OnlyEnteredOnEvidence == Spec => []EnteredOnEvidence
<1>1. ASSUME WifiInv PROVE EnteredOnEvidence
  <2> SUFFICES ASSUME phase = "idle", NEW c \in Contexts, symbols[c], leaked[c] = 0
               PROVE  lastScan # NoScan /\ Evidence(c, lastScan)
    BY DEF EnteredOnEvidence
  <2>1. nativeContextRef[c] = Cardinality(Referring(c)) + leaked[c] /\ nativeContextRef[c] > 0
    BY <1>1 DEF WifiInv, RefsAccounted
  <2>2. Cardinality(Referring(c)) \in Nat /\ IsFiniteSet(Referring(c))
    BY <1>1, ReferringFinite DEF WifiInv
  <2>3. Referring(c) # {}
    BY <2>1, <2>2, FS_EmptySet
  <2>4. PICK r \in rules : r[1].result_context = c /\ refCount[r] > 0
    BY <1>1, <2>3 DEF WifiInv, VisitInv, Referring, HasReference
  <2>5. lastScan # NoScan /\ Matched(r, lastScan)
    BY <1>1, <2>4 DEF WifiInv, EvidenceInv
  <2> QED
    BY <2>4, <2>5 DEF Matched, Evidence
<1> QED
  BY <1>1, WifiInvariance, PTL

(* Between handlers the file holds the rules in use, whatever was edited,  *)
(* restarted, reset or killed, unless writing failed                       *)
(* (WifiContext.java:220).                                                 *)
THEOREM FileAlwaysAgrees == Spec => []FileAgrees
<1>1. WifiInv => FileAgrees
  BY DEF WifiInv, FileInv, FileAgrees
<1> QED
  BY <1>1, WifiInvariance, PTL

(* The end of a scan finds the contexts as that scan says, whatever came   *)
(* before and in whatever order rules were visited (WifiContext.java:164). *)
THEOREM ScanAlwaysDecides == Spec => ScanDecides
<1>1. WifiInv /\ [Next]_vars =>
        [EndScan => \A c \in Contexts : symbols[c] <=> leaked[c] > 0 \/ Evidence(c, scan)]_vars
  <2> SUFFICES ASSUME WifiInv, EndScan, NEW c \in Contexts
               PROVE  symbols[c] <=> leaked[c] > 0 \/ Evidence(c, scan)
    OBVIOUS
  <2>1. phase = "scanning" /\ unvisited = {}
    BY DEF EndScan
  <2>2. /\ symbols[c] <=> nativeContextRef[c] > 0
        /\ nativeContextRef[c] = Cardinality(Referring(c)) + leaked[c]
        /\ leaked[c] \in Nat
    BY <2>1 DEF WifiInv, RefsAccounted, TypeOK
  <2>3. Cardinality(Referring(c)) \in Nat /\ (Cardinality(Referring(c)) = 0 <=> Referring(c) = {})
    BY ReferringFinite, FS_EmptySet DEF WifiInv
  <2>4. Referring(c) = {} <=> ~Evidence(c, scan)
    <3>1. Referring(c) = {r \in rules : r[1].result_context = c /\ refCount[r] > 0}
      BY <2>1 DEF Referring, HasReference
    <3>2. \A r \in rules : refCount[r] > 0 <=> Matched(r, scan)
      BY <2>1 DEF WifiInv, EvidenceInv
    <3> QED
      BY <3>1, <3>2 DEF Evidence, Matched
  <2> QED
    BY <2>2, <2>3, <2>4
<1> QED
  BY <1>1, WifiInvariance, PTL DEF Spec, ScanDecides
=============================================================================
