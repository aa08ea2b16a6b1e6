---------------------------- MODULE WifiContext ----------------------------
(***************************************************************************)
(* org.sctx.WifiContext with the reference counts of org.sctx.SmartContext *)
(* (getNativeContext, putNativeContext): scan results are matched against  *)
(* rules, a rule that starts or stops matching takes or gives back one     *)
(* reference to its context, and the first and the last reference enter    *)
(* and leave the context.  Rules are edited from the screens and written   *)
(* to a local file, which is read when the service is created.             *)
(*                                                                         *)
(* Every handler runs on the main looper without interruption, except that *)
(* the process may be killed.  A handler takes several steps here only     *)
(* where the iteration order of a HashSet or a kill can be observed.       *)
(***************************************************************************)
EXTENDS Integers, FiniteSets

CONSTANTS
  Contexts,    \* names of Wi-Fi contexts ("Wifi@...")
  Ssids,       \* network names
  NoSsid,      \* null, the name of a rule added while no network is listed
  NullText,    \* "null", what that name is written as
  Bssids,      \* access points
  Levels,      \* signal levels
  ScanItems,   \* what a scan may report
  AssetLines,  \* the lines of the wifi_context.txt in the assets
  NoFile,      \* there is no local wifi_context.txt
  NoScan,      \* no scan since the service was created (null)
  MaxCopies,   \* bound: rule objects with the same contents
  MaxRules,    \* bound: rules at a time
  MaxLeaked    \* bound: references left behind by removed rules

SsidTexts == Ssids \cup {NullText}
RuleSsids == SsidTexts \cup {NoSsid}

Item == [ssid : Ssids, bssid : Bssids, level : Levels]

(* The contents of a rule, which are also the contents of a line.          *)
Line == [result_context : Contexts, ssid : RuleSsids, level_threshold : Int,
         black : BOOLEAN, essid_list : SUBSET Bssids]

(* The rules the user makes and saveRulesToLocal writes: threshold -200,   *)
(* an empty black list.                                                    *)
PlainLine(c, s) ==
  [result_context |-> c, ssid |-> s, level_threshold |-> -200,
   black |-> TRUE, essid_list |-> {}]

Lines == AssetLines \cup {PlainLine(c, s) : c \in Contexts, s \in RuleSsids}

(* A WifiRule object is told apart from others of the same contents.       *)
Rules == Lines \X (1..MaxCopies)
NoCounts == [r \in Rules |-> 0]

ASSUME WifiAssumption ==
  /\ NoSsid \notin SsidTexts /\ NullText \notin Ssids
  /\ Levels \subseteq Int
  /\ ScanItems \subseteq Item /\ IsFiniteSet(ScanItems)
  /\ IsFiniteSet(Contexts) /\ IsFiniteSet(Ssids) /\ IsFiniteSet(AssetLines)
  /\ AssetLines \subseteq Line
  /\ \A l \in AssetLines : l.ssid \in SsidTexts
  /\ \A result \in SUBSET ScanItems : result # NoScan
  /\ MaxCopies \in Nat \ {0} /\ MaxRules \in Nat /\ MaxLeaked \in Nat

VARIABLES
  phase,            \* "down", "idle", or inside a handler: "scanning", "editing", "saving"
  stopping,         \* stopService was called and not carried out yet
  rules,            \* WifiContext.rules
  ssidToRules,      \* WifiContext.ssidToRules: {} where there is no entry
  refCount,         \* WifiRule.refCount
  lastRefCount,     \* WifiRule.lastRefCount
  scan,             \* the result setWifiScanResult is working on
  unvisited,        \* the rules its last loop has not visited
  lastScan,         \* WifiContext.wifiLastScanResult
  wifiEnabled,      \* WifiContext.wifiEnabled
  nativeContextRef, \* SmartContext.nativeContextRef: 0 where there is no entry
  symbols,          \* the values of the contexts in the inference engine
  file,             \* the local wifi_context.txt
  leaked,           \* history: references whose rule was removed
  unsaved           \* history: rules were edited and not written since

ruleVars == <<rules, ssidToRules>>
scanVars == <<refCount, lastRefCount, scan, unvisited, lastScan>>
contextVars == <<nativeContextRef, symbols, leaked>>
fileVars == <<file, unsaved>>
vars == <<phase, stopping, ruleVars, scanVars, wifiEnabled, contextVars, fileVars>>

-----------------------------------------------------------------------------
(* References to contexts                                                  *)

(* Defects for checking RefsAccounted and EnteredOnEvidence: every         *)
(* reference is the first; the count is compared after it was decreased.   *)
GetNativeContextAnew(c) ==
  /\ nativeContextRef' = [nativeContextRef EXCEPT ![c] = 1]
  /\ symbols' = IF nativeContextRef[c] = 0 THEN [symbols EXCEPT ![c] = TRUE] ELSE symbols

PutNativeContextLate(c) ==
  /\ nativeContextRef' = [nativeContextRef EXCEPT ![c] = IF @ = 0 THEN 0 ELSE @ - 1]
  /\ symbols' = IF nativeContextRef[c] = 2 THEN [symbols EXCEPT ![c] = FALSE] ELSE symbols

(* getNativeContext: the first reference enters the context.               *)
GetNativeContext(c) ==
  /\ nativeContextRef' = [nativeContextRef EXCEPT ![c] = @ + 1]
  /\ symbols' = IF nativeContextRef[c] = 0 THEN [symbols EXCEPT ![c] = TRUE] ELSE symbols

(* putNativeContext: the last one leaves it; without an entry nothing      *)
(* happens.                                                                *)
PutNativeContext(c) ==
  /\ nativeContextRef' = [nativeContextRef EXCEPT ![c] = IF @ = 0 THEN 0 ELSE @ - 1]
  /\ symbols' = IF nativeContextRef[c] = 1 THEN [symbols EXCEPT ![c] = FALSE] ELSE symbols

-----------------------------------------------------------------------------
(* Scan results                                                            *)

(* WifiRule.match                                                          *)
Match(line, item) ==
  /\ item.ssid = line.ssid
  /\ line.black # (item.bssid \in line.essid_list)
  /\ item.level > line.level_threshold

(* A defect for checking ScanDecides: counting goes on from the last scan. *)
BeginScanUncleared(result) ==
  /\ phase = "idle"
  /\ phase' = "scanning"
  /\ lastRefCount' = [r \in Rules |-> IF r \in rules THEN refCount[r] ELSE 0]
  /\ refCount' = [r \in Rules |-> refCount[r] +
       Cardinality({i \in result : r \in ssidToRules[i.ssid] /\ Match(r[1], i)})]
  /\ scan' = result
  /\ unvisited' = rules
  /\ UNCHANGED <<stopping, ruleVars, lastScan, contextVars, fileVars>>

(* setWifiScanResult, its first two loops: count the matches of each rule. *)
(* The rules of an item are found by its name.                             *)
BeginScan(result) ==
  /\ phase = "idle"
  /\ phase' = "scanning"
  /\ lastRefCount' = [r \in Rules |-> IF r \in rules THEN refCount[r] ELSE 0]
  /\ refCount' = [r \in Rules |->
       Cardinality({i \in result : r \in ssidToRules[i.ssid] /\ Match(r[1], i)})]
  /\ scan' = result
  /\ unvisited' = rules
  /\ UNCHANGED <<stopping, ruleVars, lastScan, contextVars, fileVars>>

(* WifiListener.onReceive: a change of the network state empties the       *)
(* result, new signal levels are used while Wi-Fi is enabled.              *)
NetworkStateChanged(enabled) ==
  /\ BeginScan({})
  /\ wifiEnabled' = enabled

RssiChanged(result) ==
  /\ wifiEnabled
  /\ BeginScan(result)
  /\ UNCHANGED wifiEnabled

(* One round of the last loop.                                             *)
Visit(r) ==
  /\ phase = "scanning"
  /\ r \in unvisited
  /\ unvisited' = unvisited \ {r}
  /\ \/ /\ lastRefCount[r] = 0 /\ refCount[r] > 0
        /\ GetNativeContext(r[1].result_context)
     \/ /\ lastRefCount[r] > 0 /\ refCount[r] = 0
        /\ PutNativeContext(r[1].result_context)
     \/ /\ lastRefCount[r] = 0 <=> refCount[r] = 0
        /\ UNCHANGED <<nativeContextRef, symbols>>
  /\ UNCHANGED <<phase, stopping, ruleVars, refCount, lastRefCount, scan, lastScan,
                 wifiEnabled, leaked, fileVars>>

(* (lastRefCount is cleared because it is not read before the next scan    *)
(* has overwritten it.)                                                    *)
EndScan ==
  /\ phase = "scanning" /\ unvisited = {}
  /\ phase' = "idle"
  /\ lastScan' = scan
  /\ scan' = {}
  /\ lastRefCount' = NoCounts
  /\ UNCHANGED <<stopping, ruleVars, refCount, unvisited,
                 wifiEnabled, contextVars, fileVars>>

-----------------------------------------------------------------------------
(* Editing rules                                                           *)

Index(rs) == [s \in RuleSsids |-> {r \in rs : r[1].ssid = s}]

(* addRule, for a rule of WifiRuleActivity: the network selected in a list *)
(* that it filled from some earlier scan, null while that list is empty.   *)
AddRule(c, s) ==
  /\ phase = "idle"
  /\ Cardinality(rules) < MaxRules
  /\ s # NullText
  /\ \E k \in 1..MaxCopies :
       LET r == <<PlainLine(c, s), k>>
       IN  /\ r \notin rules /\ \A j \in 1..(k - 1) : <<PlainLine(c, s), j>> \in rules
           /\ rules' = rules \cup {r}
           /\ ssidToRules' = [ssidToRules EXCEPT ![s] = @ \cup {r}]
           /\ refCount' = [refCount EXCEPT ![r] = 0]
           /\ lastRefCount' = [lastRefCount EXCEPT ![r] = 0]
  /\ phase' = "editing"
  /\ unsaved' = TRUE
  /\ UNCHANGED <<stopping, scan, unvisited, lastScan, wifiEnabled, contextVars, file>>

(* removeRules: a null name stands for every name.  No reference is given  *)
(* back.  (Counts of removed rules are reset here because nothing can read *)
(* them any more.)                                                         *)
RemoveRules(c, s) ==
  LET gone == {r \in rules : r[1].result_context = c /\ (s = NoSsid \/ r[1].ssid = s)}
      left == leaked[c] + Cardinality({r \in gone : refCount[r] > 0})
      Reset(count) == [r \in Rules |-> IF r \in gone THEN 0 ELSE count[r]]
  IN  /\ phase = "idle"
      /\ left <= MaxLeaked
      /\ rules' = rules \ gone
      /\ ssidToRules' = [x \in RuleSsids |-> ssidToRules[x] \ gone]
      /\ leaked' = [leaked EXCEPT ![c] = left]
      /\ refCount' = Reset(refCount)
      /\ lastRefCount' = Reset(lastRefCount)
      /\ phase' = "editing"
      /\ unsaved' = TRUE
      /\ UNCHANGED <<stopping, scan, unvisited, lastScan, wifiEnabled,
                     nativeContextRef, symbols, file>>

(* saveRulesToLocal: opening the file empties it.  When it cannot be       *)
(* opened the handler goes on without it.                                  *)
OpenFile ==
  /\ phase = "editing"
  /\ \/ phase' = "saving" /\ file' = {}
     \/ phase' = "idle" /\ UNCHANGED file
  /\ UNCHANGED <<stopping, ruleVars, scanVars, wifiEnabled, contextVars, unsaved>>

(* A defect for checking TypeOK: the name is written as it is.             *)
TextUnconverted(s) == s

(* The file keeps the pairs of context and name only.                      *)
Text(s) == IF s = NoSsid THEN NullText ELSE s

SavedLines == {PlainLine(r[1].result_context, Text(r[1].ssid)) : r \in rules}

(* Closing the file writes the buffer; a write that fails leaves the file  *)
(* empty.  (resetUI, which follows, changes nothing here.)                 *)
CloseFile ==
  /\ phase = "saving"
  /\ \/ file' = SavedLines /\ unsaved' = FALSE
     \/ UNCHANGED fileVars
  /\ phase' = "idle"
  /\ UNCHANGED <<stopping, ruleVars, scanVars, wifiEnabled, contextVars>>

-----------------------------------------------------------------------------
(* The life of the service                                                 *)

(* A defect for checking FileAgrees: the assets are always read too.       *)
LoadedLinesOfBoth == IF file = NoFile THEN AssetLines ELSE AssetLines \cup file

(* The rules read when the service is created: those of the local file if  *)
(* there is one.                                                           *)
LoadedLines == IF file = NoFile THEN AssetLines ELSE file
LoadedRules == {<<l, 1>> : l \in LoadedLines}

(* onCreate up to wifi.bind, on new objects.                               *)
Create ==
  /\ phase = "down"
  /\ phase' = "idle"
  /\ rules' = LoadedRules
  /\ ssidToRules' = Index(LoadedRules)
  /\ wifiEnabled' \in BOOLEAN
  /\ UNCHANGED <<stopping, scanVars, contextVars, fileVars>>

(* StopBtn: stopService returns before the service is destroyed.           *)
StopService ==
  /\ phase = "idle"
  /\ stopping' = TRUE
  /\ UNCHANGED <<phase, ruleVars, scanVars, wifiEnabled, contextVars, fileVars>>

(* ResetConf: stop, and delete the local file.                             *)
ResetConf ==
  /\ phase \in {"down", "idle"}
  /\ stopping' = (phase = "idle")
  /\ file' = NoFile
  /\ UNCHANGED <<phase, ruleVars, scanVars, wifiEnabled, contextVars, unsaved>>

(* The objects of the service are left to the collector.                   *)
Forget ==
  /\ phase' = "down" /\ stopping' = FALSE
  /\ rules' = {} /\ ssidToRules' = Index({})
  /\ refCount' = NoCounts /\ lastRefCount' = NoCounts
  /\ scan' = {} /\ unvisited' = {} /\ lastScan' = NoScan
  /\ wifiEnabled' = FALSE
  /\ nativeContextRef' = [c \in Contexts |-> 0]
  /\ symbols' = [c \in Contexts |-> FALSE]
  /\ leaked' = [c \in Contexts |-> 0]
  /\ unsaved' = FALSE
  /\ UNCHANGED file

Destroy ==
  /\ phase = "idle" /\ stopping
  /\ Forget

(* The process dies: the file stays as it is.                              *)
Kill ==
  /\ phase # "down"
  /\ Forget

-----------------------------------------------------------------------------
Init ==
  /\ phase = "down"
  /\ stopping = FALSE
  /\ rules = {} /\ ssidToRules = Index({})
  /\ refCount = NoCounts /\ lastRefCount = NoCounts
  /\ scan = {} /\ unvisited = {} /\ lastScan = NoScan
  /\ wifiEnabled = FALSE
  /\ nativeContextRef = [c \in Contexts |-> 0]
  /\ symbols = [c \in Contexts |-> FALSE]
  /\ leaked = [c \in Contexts |-> 0]
  /\ file = NoFile
  /\ unsaved = FALSE

ScanStep == (\E r \in Rules : Visit(r)) \/ EndScan

Next ==
  \/ \E enabled \in BOOLEAN : NetworkStateChanged(enabled)
  \/ \E result \in SUBSET ScanItems : RssiChanged(result)
  \/ ScanStep
  \/ \E c \in Contexts, s \in RuleSsids : AddRule(c, s) \/ RemoveRules(c, s)
  \/ OpenFile \/ CloseFile
  \/ Create \/ StopService \/ ResetConf \/ Destroy \/ Kill

Spec == Init /\ [][Next]_vars

-----------------------------------------------------------------------------
(* Properties                                                              *)

(* Every variable has its type: no count is negative and the file never    *)
(* holds a rule without a name.                                            *)
TypeOK ==
  /\ phase \in {"down", "idle", "scanning", "editing", "saving"}
  /\ stopping \in BOOLEAN
  /\ rules \in SUBSET Rules
  /\ ssidToRules \in [RuleSsids -> SUBSET Rules]
  /\ refCount \in [Rules -> Nat]
  /\ lastRefCount \in [Rules -> Nat]
  /\ scan \in SUBSET ScanItems
  /\ unvisited \in SUBSET Rules
  /\ lastScan = NoScan \/ lastScan \in SUBSET ScanItems
  /\ wifiEnabled \in BOOLEAN
  /\ nativeContextRef \in [Contexts -> Nat]
  /\ symbols \in [Contexts -> BOOLEAN]
  /\ leaked \in [Contexts -> Nat]
  /\ file = NoFile \/ file \in SUBSET {l \in Lines : l.ssid # NoSsid}
  /\ unsaved \in BOOLEAN

(* A rule holds a reference from the visit that follows its first match to *)
(* the visit that follows its last.                                        *)
HasReference(r) == IF r \in unvisited THEN lastRefCount[r] > 0 ELSE refCount[r] > 0
Referring(c) == {r \in rules : r[1].result_context = c /\ HasReference(r)}

(* At any moment, also between two visits of one scan, a context has one   *)
(* reference for every rule that holds one and one for every rule that was *)
(* removed while it did; and it is entered exactly while it has any.       *)
RefsAccounted ==
  phase # "down" =>
    \A c \in Contexts :
      /\ nativeContextRef[c] = Cardinality(Referring(c)) + leaked[c]
      /\ symbols[c] <=> nativeContextRef[c] > 0

(* What a scan says about a context.                                       *)
Evidence(c, result) ==
  \E r \in rules, i \in result : r[1].result_context = c /\ Match(r[1], i)

(* When a scan has been handled a context is entered if and only if some   *)
(* rule matches some item of it, whatever was entered before and in        *)
(* whatever order the rules were visited; leaked references apart.         *)
ScanDecides ==
  [][EndScan => \A c \in Contexts : symbols[c] <=> leaked[c] > 0 \/ Evidence(c, scan)]_vars

(* Between handlers no context is entered without a rule that matches the  *)
(* latest scan, also after rules were edited; leaked references apart.     *)
EnteredOnEvidence ==
  phase = "idle" =>
    \A c \in Contexts : symbols[c] /\ leaked[c] = 0 =>
      lastScan # NoScan /\ Evidence(c, lastScan)

(* Between handlers the local file holds the rules in use, unless writing  *)
(* it failed: editing, restarting, resetting and being killed do not make  *)
(* them differ.                                                            *)
FileAgrees ==
  phase = "idle" /\ file # NoFile /\ ~unsaved => file = SavedLines

-----------------------------------------------------------------------------
(* What the program's text promises and the code does not do               *)

(* "Set result to empty" (WifiContext.java:186): once a change of the      *)
(* network state has been handled no Wi-Fi context is entered.             *)
EmptyResultLeavesAll ==
  phase = "idle" /\ lastScan = {} => \A c \in Contexts : ~symbols[c]
=============================================================================
