# Verification of sctx

sctx (`src/xy2189/sctx`) is an Android application that infers contexts ("at
home", "in the office") from Wi-Fi scans and calls Lua functions when a context
is entered or left. It carries its own Lua: the LuaJava bridge
(`src/org/keplerproject/luajava/*.java`, `jni/luajava/luajava.c`) and the Lua 5.1
interpreter (`jni/lua/*.c`), both part of its build. This directory holds TLA+
models of all three, TLC runs on small instances, and TLAPS proofs about the
application's own components and the bridge. Java files named below without a directory are in
`src/xy2189/sctx/src/org/sctx/`, C files in `src/xy2189/sctx/jni/`.

## Inventory

The manifest names one process; service and activities share its main looper.
Only the finalizers of `LuaObject` (LuaJava) run on another thread.

| Component | State | Operations | Interacts with |
|---|---|---|---|
| `ContextInferenceEngine` | symbols, clauses with waiting counters, hold counters, ids | `parse`, `updateSystemSymbol`, `resetSymbolValues` (never called) | called by `SmartContext` |
| `WifiContext`, `WifiRule` | rules, index by name, reference counts, last scan | scan results, add/remove/save/load rules | broadcasts; `getNativeContext`/`putNativeContext`; local file |
| `SmartContext` | references to native contexts, the engine, the components | `onCreate`, `onDestroy`, `enterContext`, `leaveContext`, `notifyContext`, `resetUI` | posts runnables for screens and Lua |
| `DemoLuaRuntime` | one Lua state | `queueLuaCode` | own handler on the main looper; LuaJava |
| `EntryActivity`, `WifiRuleActivity` | views, rows | life cycle, START, STOP, RESET, EDIT, DEL, ADD | `runInSCThread`, file deletion |
| `Singletons`, `Util` | holders of service, handlers, activities | `register`, `tryRegister`, `clear`, `runIn...` | everybody |
| `MotionContext`, `SoundContext`, `WifiScanPusher` | chains of delayed runnables, listeners, recorder | `bind`, `unbind`, `run` | handler of the bound service |
| `BootCompletedReceiver` | none | starts the service | |
| LuaJava, Java side (`LuaState`, `LuaStateFactory`, `LuaObject`, `LuaJavaAPI`) | list of states, references of `LuaObject`s, closed flag | every native call under the monitor of its `LuaState`; `call`, `getObject`, `close`, `finalize` | `luajava.c` through JNI |
| LuaJava, C side (`luajava.c`) | the JNI environment and the state's index in the registry, userdata blocks | wrappers of the C API, metamethods of Java objects, `require`d functions (`newInstance`, `bindClass`, ...) | Lua C API; `LuaJavaAPI` by callbacks |
| Lua: calls (`ldo.c`, `lapi.c`, part of `lvm.c`, `lfunc.c`, `lbaselib.c`) | stack, frames, C call counter, open upvalues of each thread | call, return, tail call, protected call, error, resume, yield | everything in Lua |
| Lua: memory (`lgc.c`, `lstring.c`, `lfunc.c`) | colours, lists of the collector, string table | steps of the collector, barriers, finalizers, weak tables, close | runs at allocations of the program |
| Lua: tables (`ltable.c`) | array part, hash nodes, next free node | get, set, rehash, length, traversal | machine, libraries |
| Lua: compiler (`lparser.c`, `lcode.c`) and verifier (`ldebug.c`) | functions being compiled, pending jumps, registers, blocks | one C function per phrase | makes prototypes for the machine |
| Lua: machine (`lvm.c`, `lbaselib.c`, `ltablib.c`) | registers, frames, upvalues, tables | one instruction | runs prototypes |
| Lua: string library (`lstrlib.c`) | captures of a match | substrings, `find`, `match`, `gsub` by backtracking over the pattern's text | called by programs |
| Lua: precompiled chunks (`ldump.c`, `lundump.c`) | what is left to read | dump, load | prototypes, verifier |
| Lua: lexer, io, os, math, debug and package libraries | | | not modelled |

What is hard here:

* **Incremental state.** The engine keeps counters across all updates; the Wi-Fi
  component keeps reference counts across scans and edits. An error stays.
* **Unspecified order.** Clauses, rules and symbols are iterated out of hash
  sets and maps.
* **Asynchrony on one thread.** Runnables read the state when they are posted or
  when they run; services and screens come and go in between, and a delayed
  runnable outlives the object that posted it.
* **Persistence.** The rule file is emptied by opening it; a kill or a failed
  write may come next.
* **Two languages, two stacks.** Java calls Lua calls Java, each with its own way
  to unwind; a reference to a Lua value is released by Java's finalizer thread.
* **Errors as jumps.** `longjmp` drops C frames; counters, frames, upvalues and
  stack limits must be put right by whoever catches.
* **A collector between any two instructions.** What it has seen may be changed
  behind its back.
* **One-pass compilation.** Jumps, registers and blocks are settled while the
  source is read.
* **Backtracking in place.** A match changes its captures as it goes and must put
  them back whenever the rest does not match.

What makes each part correct: the engine settles every symbol to the value of its
rule and reports every change in order; references equal the rules that match;
the file holds the rules in use; Lua and the views end with the engine's values;
holders are set once; chains live as long as their service; a reference names the
value it was made for until it is released; a call leaves its callers' stack
alone whatever happens in it; nothing reachable is freed and nothing else stays;
a program does what its text means.
`PROJECT.json` lists the hazards at their lines.

**An assumption.** `Singletons` (`Util.java:96-102`) declares its holders and
nothing in the repository assigns them, so the program as committed throws a
`NullPointerException` at the first use (`SmartContext.java:121`,
`EntryActivity.java:52`). The models take the holders to exist.

## Modules

| Module | Models | Notes |
|---|---|---|
| `SymbolRules` | what the engine promises | rules are sets of clauses, a change with all its consequences is one step |
| `ContextInferenceEngine` | `ContextInferenceEngine.java` | `Parse` is one line of a rule file; an update is `BeginUpdate`, `Poll`/`PollRepeated`, `Visit` (one round of the inner loop), `EndUpdate` |
| `EngineReset` | `resetSymbolValues` | a function of how many symbols are reset, in the order of ids |
| `EngineInvariant` | | the inductive invariants `IInv` and `UpdateInv` |
| `ContextInferenceEngineProofs` | | proofs of the safety invariants, the refinement and agreement with `resetSymbolValues` |
| `WifiContext` | `WifiContext.java`, reference counts and file reading of `SmartContext.java`, ADD/DEL/STOP/RESET | a scan is `BeginScan`, `Visit` per rule in any order, `EndScan`; an edit is `AddRule`/`RemoveRules`, `OpenFile`, `CloseFile`, because the process may be killed between |
| `SmartContext` | service, holders, Lua queue, screens | one queue of messages, one step per message; EXTENDS nothing of the engine but instantiates `SymbolRules` for what a change does |
| `ServiceInvariant` | | what the queued messages will do: the inductive invariant of `SmartContext` |
| `SmartContextProofs` | | its proofs |
| `Monitors` | the delayed runnables | counts of pending runnables per service object |
| `WifiInvariant`, `WifiContextProofs`, `MonitorsProofs` | | inductive invariants and proofs |
| `LuaApi` | stack indices and stack operations of `lapi.c` | shared by `LuaJava` and `LuaCalls` |
| `LuaJava` | LuaJava, both sides | `todo[j]` is the sequence of native calls a thread has before it; `Lock`/`Unlock` are the monitor of a `LuaState`; a native step is one wrapper of `luajava.c`; Lua code under a `pcall` is the entry `"lua"`, before which callbacks put their calls. Native calls that allocate may collect (`Collected`) on either thread, before `pushJNIEnv` has stored the environment (`FromCPtr`); the userdata that `gc` is run for are those nothing refers to (`Dead`) |
| `LuaJavaInvariant`, `LuaJavaProofs` | | inductive invariant and proofs |
| `LuaCalls` | calls, errors, coroutines | `cs` is the C stack of activations (`luaD_call`, `luaV_execute`, `lua_pcall`, C functions, `lua_resume`), `th` the threads; a longjmp cuts `cs`; `Throw`, `Caught`, `Died` are the three ends of it |
| `LuaCallsInvariant` | | the inductive invariant of `LuaCalls` |
| `LuaCallsLemmas`, `LuaCallsSteps`, `LuaCallsProofs` | | its proofs: sequences, stacks and errors; calls, returns and the machine's instructions; C functions, coroutines and the theorems |
| `LuaHeap` | the collector beside a program | one action per `singlestep` state and per API operation that links or drops objects; colours as in the source, two whites |
| `LuaTable` | `ltable.c` | pure operators on table records: `GetNum`, `NewKey`, `Rehash`, `Next`, ...; used by the next modules |
| `LuaCode` | `lcode.c` | operators on a `FuncState` record; jump lists are linked through the code as in the source |
| `LuaParser` | `lparser.c` | one action; `todo` is the stack of C functions under way, a step is a function up to its next call |
| `LuaVM` | `lvm.c`, used parts of the libraries | one action per group of instructions |
| `LuaVerifier` | `luaG_checkcode` (`ldebug.c`) | an operator on prototypes |
| `LuaPattern` | substrings and matching (`lstrlib.c`) | one operator per C function over a `MatchState` record; an error is the result `Raised` |
| `LuaPatternMeaning` | what a pattern means | items instead of text; all paths through the subject at once, the best by preference, no backtracking: the abstract specification of `LuaPattern` |
| `LuaDump` | `ldump.c`, `lundump.c` | a chunk is a sequence of typed items; the loader is an operator on what is left to read |
| `LuaMeaning` | what a program means | evaluator of syntax trees with cells and maps, no code, stack or registers: the abstract specification of compiler and machine |
| `LuaInterpreter` | compiler, loader and machine composed | a program is compiled, may be dumped and loaded (`Reload`), then runs; `LuaPrograms` holds the programs |
| `MC...` | | values for TLC |

How they compose: `ContextInferenceEngine` implements `SymbolRules` (checked as
a refinement), and `SmartContext` uses `SymbolRules`' operators in place of the
engine. It allows what the engine does, including reports of unchanged symbols.
`WifiContext` decides when a native context changes; there the engine is just the
value of that context. `SmartContext` takes these changes as broadcasts, one
context per message.

`LuaInterpreter` composes `LuaParser` (over `LuaCode`) with `LuaVM` (over
`LuaTable` and `LuaPattern`) and compares the outcome with `LuaMeaning`, which has
matches from `LuaPatternMeaning`, and the code with `LuaVerifier`. `LuaCalls`, `LuaHeap` and `LuaJava` look at the same interpreter
from three other sides, each leaving out what the others hold: `LuaCalls` has no
values but kinds of callees and arguments, `LuaHeap` no code, `LuaJava` no inside
of Lua functions, only what they may do at the border. `SmartContext` has Lua
code as messages; that such a message is a `setTop`, a `LloadString` and a
`pcall` is in `LuaJava` (`RunQueuedCode`) and `LuaCalls` (`JavaPcall`).

Each variable is named after the field it stands for. History variables
(`before`, `reported`, `leaked`, `unsaved`, `told`, `fresh`, `repeated`,
`outdated`, `late`) exist for properties only. Operators introduced by "A defect
for checking ..." or as slips are wrong variants of the definition after them; no
specification uses them.

### What is abstracted

* Names are model values; URL coding, splitting of lines and the `Wifi@` prefix
  are gone. `BadNames` stands for names that do not decode or hold `$`.
* The engine's class of a name (`@` or not) is its set. `ns$name` is the pair.
* Rules that have been removed have their counts reset, as nothing reads them;
  `lastRefCount` is cleared after a scan, as it is overwritten before it is read.
* Network names of ADD are any names: the list of `WifiRuleActivity` is from an
  earlier scan. `null` (no network listed) is one of them.
* In `SmartContext` system messages (life cycle, broadcasts, clicks) are
  put at the end of the queue at any time the bound allows. The values of
  service objects that nothing refers to are forgotten. An object of `WifiRuleActivity`
  stands for its `symbolName`, which requests and resets hold and `ShowReset` compares
  by identity (`SmartContext.java:363`): every EDIT brings a new String. Objects made anew
  from a saved state are left out. ADD and DEL, after which the list is asked
  for again, are in `WifiContext`, where that changes nothing.
* `Monitors` has no clock: any pending runnable may run next.
* `LuaJava`: values are kinds (`"string"`, `"table"`, an object); all Java classes
  are one; there is one open state at a time, as in the service.
* `LuaCalls`: what a Lua function computes between two calls; which callee a
  call instruction finds is chosen when it runs. Slots above the top are not kept.
  A program creates one coroutine; `wrapped` can be called once it exists.
* `LuaHeap`: sizes in bytes, so that any step of the collector may come after any
  operation; a table has one node; the collector's lists are sets except for the
  userdata.
* `LuaParser` starts from syntax trees: tokens, operator priorities and line
  numbers are gone. Numbers are integers, and the limit on constants and
  the number of list items per `SETLIST` are small constants.
* `LuaVM` has no metamethods or coroutines, and errors end the program (they are in
  `LuaCalls`); only the string library raises them, other operands are of the right
  types.
* `LuaPattern`: characters are the printable ones of ASCII without quotes,
  backslash and backtick, so that no string holds a `\0`. Limits on captures
  (`MaxCaptures`) and on nested functions of a chunk (`MaxDepth`) are small constants.
* `LuaDump` leaves out line numbers and names of variables. The loader's
  `"garbage"`, reading an item of another type, cannot happen in what it is given.

## Runs

| Run | Question | Instance |
|---|---|---|
| `engine` | does the incremental engine do what its rules say, report in order, end, agree with a computation from scratch, implement `SymbolRules`? | 2 system symbols, 3 local names, 12 lines in any order: reconvergence, negation, empty clauses, unusable names; about 9200 states |
| `engine_glitch` (violation) | are only changes reported? No | the same |
| `wifi` | are references accounted for, do contexts follow the scan, does the file agree? | 2 contexts, 2 networks, 1 asset rule with a black list, 3 signals, 2 rules at a time, 1 reference leaked per context; 2.7 million states |
| `wifi_left` (violation) | does an empty result leave every context? No | the same |
| `service` | are the holders safe, do Lua and the views follow the engine? | 1 native and 2 internal symbols, 4 service objects, EntryActivity, the system posts while fewer than 2 messages wait; 485000 states |
| `screens` | is what a screen asks for shown in the end? | both screens, 2 objects of `WifiRuleActivity`, 3 of the service, no symbols and so no rows, the system posts while fewer than 3 messages wait; 274000 states |
| `screens_twice` (violation) | is a screen registered once? No | the same |
| `monitors` | do the chains go on, end, and take listeners along? | 2 service objects; 6400 states |
| `luajava` | do references, environment, states and stack stay right while Java and Lua call each other and the finalizer runs? | 2 `LuaObject`s, 1 userdata block, 2 states one after the other, calls nested twice, 1 value left behind; about 1.6 million states up to symmetry |
| `calls` | do counters, stacks, upvalues and frames agree with the C stack? | main thread and one coroutine, 8 callees, 4 frames per thread and 6 in all, 2 nested C calls and 4 while an error is handled; 659000 states |
| `heap` | is nothing live freed, is marking right, do finalizers run once, does garbage go? | 6 starting heaps of up to 3 objects with 2 or 3 more operations each; 113000 states |
| `interpreter` | does compiled code pass the verifier and do what the program means, is a chunk loaded only as a whole, are tables maps? | 775 programs, up to 4 answers of the environment, the first 16 programs dumped; 76000 states |

Why the bounds are enough: an update of the engine needs two clauses of one
symbol and a symbol over another one to flip back, queue twice and reconverge,
and three internal symbols give chains of such. A context of `wifi` needs
two rules for a handover and a scan of two items for two references. The queue
of `service` grows beyond its bound by what handlers post; two system messages
suffice for stop/start, start/click and change/destroy to overlap. In `monitors`
an object without pending runnables is used again, so two of them represent
any number of restarts, with the runnables of one predecessor left over.
`MaxCopies = 1` excludes rules of equal contents from `wifi`; `MaxRules`,
`MaxLeaked` and `MaxPosted` are guards of `AddRule`, `RemoveRules` and
`SystemPosts`; `SomeUnreferenced`, that one of the objects in `Instances` is free for a
new service, is a guard of `CreateService`, and `SomeNotAsking`, that no message holds one of
the objects in `Activities`, of `CreateScreen`. In `screens` one `WifiRuleActivity` is paused and
destroyed, the next one created and resumed before the list the first one asked for
comes, which takes three waiting messages. Neither of the two guards ever stops the
looper there: it would be a deadlock.

`luajava`: two objects share, free and reuse a number of the registry; one userdata
block can be collected and made again; a second state finds what the first left;
two nested calls are a callback that calls Lua. `MaxStates`, `MaxNest` and
`MaxLeaks` are guards of `NewLuaState`, of starting a `pcall` and of the methods
that leave a value. `calls`: the limits are the source's, scaled down with their
order kept (`LimitsOrdered`), so that overflows of both kinds, within an error
handler and across a resume, happen within a few calls; `MaxFrames` bounds what
is not limited by them. `heap`: each starting heap is the smallest that has the
object in question (a string, a weak table of each kind, a finalizer, an open
upvalue, an upvalue of a coroutine); three operations suffice to resurrect, hide or
drop it between any two steps of a whole collection and the next. `interpreter`: the
written programs hold the cases the parser treats apart (conflicting
assignments, breaks and loops with captured variables, open argument lists,
varargs, method calls, constants beyond the operand range, list items beyond one
`SETLIST`, colliding keys); the 250 logical expressions are all those of a small
size, each once as a value and once as a condition; the 260 programs with patterns
apply each of 26 patterns to 5 subjects by `find`, `match` and three kinds of `gsub`:
every kind of item and suffix, captures within and behind repetitions, back
references to open, closed and undone ones, more captures than there may be,
malformed patterns noticed early, late or never. With the `MaxDepth` of 3 some of the
dumped programs load and some are nested too deeply; every prefix of every chunk is
tried.

Deadlock is checked in every run but `heap` (a closed state does nothing
more) and `luajava` (so does a closed last state).

What the properties mean:

* `RefsAccounted` holds between any two visits of a scan: a context has one
  reference per rule that has one, plus those of rules deleted while they matched.
* `ScanDecides`: after a scan the contexts depend on that scan, not on history
  or order, deleted rules apart.
* `FileAgrees`: between handlers the file holds the rules in use unless writing
  failed.
* `LuaFollows`: the last call Lua has got or will get about a symbol is true.
  Calls queued before `require "demo"` fail and are lost; a symbol Lua
  has not heard about has the value the service was created with.
* `ViewsFollow`: with no runnable for the screen pending, the views are the
  symbols that hold.
* `ChainsGoOn`, `StopsWhenDestroyed`: exactly one runnable per chain while bound;
  none in the end after.
* `ViewsAppear`, `RulesAppear`: whoever comes first, screen or service, the screen is filled
  by a reset made for it. A reset for an earlier `WifiRuleActivity` object fills no later
  one. `RulesAppear` is about lists asked for while a service runs and an `EntryActivity`
  exists: without one `resetUI` empties the list and fails (`SmartContext.java:365-371`), which
  the model does, too.
* `RefsKept`, `OwnEnv`, `StateFound`, `ClosedUntouched`, `NothingElseLeft`: what a `LuaObject` names stays under its number; callbacks use the
  environment of the thread they run on, and so does `gc` as long as Lua code is under way,
  whichever allocation runs it; they find their state; the finalizer touches no other
  state; methods leave the stack as they found it, on exits by exception too, but for the
  values the source leaves (`left`).
* `CallsCounted`, `CallersUntouched`, `UpvalsLive`, `FramesRun`: `nCcalls` is the
  number of nested calls there are and stays below its limit; what callers left on
  the stack is still there; open upvalues belong to live frames; `luaV_execute`
  knows how many frames are its own.
* `NothingLiveFreed`, `TriColour`, `FinalizedOnce`, `GarbageGone`: safety and
  completeness of the collector, with strings, weak tables and finalizers.
* `CodeChecked`, `MeaningKept`, `TablesAgree`: the compiler's assertions and the
  verifier hold of all code, and the loader refuses every proper beginning of a chunk;
  the machine tells the environment what `LuaMeaning` says, up to the error that ends
  the program if there is one, also after the code was dumped and loaded; every table is
  the map of what was stored, that of the globals when the program ends.

### Findings

* `OnlyChangesReported` fails: a symbol with the clauses `!a` and `a+b` is
  reported when `a` changes while `b` holds, if the clause that fails is visited
  first. Lua gets a second `enter`, the screen a second tag.
* `EmptyResultLeavesAll` fails: a deleted rule never gives its reference back.
* `ScreensRegisterOnce` fails: `EDIT` pressed twice kills the process.

Seen while modelling, without a text of the program to hold them against: a
saved rule loses its threshold and list (`WifiContext.java:246`); DEL on a row
without a name removes all rules of a context (`:203`); symbols that hold from the
start are notified before `demo.lua` is loaded (`SmartContext.java:163-179`); Lua code
queued behind `onDestroy` runs on a closed state; a row of an earlier service object
edits that object's rules; a motion monitor due after the service was stopped
leaves a sensor listener registered (`MotionContext.java:66`); a `resetUI` for a
`WifiRuleActivity` without an `EntryActivity` leaves its list empty (`SmartContext.java:371`); an item written
twice in a clause is counted twice (`ContextInferenceEngine.java:144`). The
models contain each of these behaviours; where a property has to except one, a
history variable names it (`leaked`, `unsaved`, `outdated`, `repeated`, `late`).

In LuaJava: `removeLuaState` inserts a null in front of the state instead of
clearing its entry (`LuaStateFactory.java:109`), which is harmless for one state at a
time (`StateFound`) and shifts the others' numbers when several are open;
`insertLuaState` would set an entry beyond the end; `LuaObject.call` leaves an error value
that is not a string on the stack (`LuaObject.java:427`); `LuaObject.getObject` leaves the
value it has pushed there when that is no Java object (`:374`, the `pop` behind it is
skipped); `newThread` stores the
parent state (`luajava.c:2010`); `javaNew` calls a method of the wrong class
(`luajava.c:1014`); a nested `obj:a(obj:b())` overwrites the name of the
method to call; `LUA_YIELD` and `LUA_ERRRUN` are swapped in `LuaState.java`; an
error raised by an unprotected native call jumps across Java frames; `pushJNIEnv`
allocates a string (`luajava.c:1489`), which may collect and run `gc`, before it stores the
environment of its thread (`:1495`), so that `gc` calls Java with the `JNIEnv` of the thread that
made the native call before, valid in that one only: the model has these collections, and
`OwnEnv` shows that while Lua code is under way `gc` gets the right one. In Lua: a
`lua_resume` at one below the limit on C calls goes past the value the first
check looks for (`ldo.c:370`), so that the second limit applies; a finalizer that a
program keeps by another name may use a closed state; when a state is closed while
marking, finalizers whiten userdata that black objects refer to, which is why
`TriColour` is about states that are not being closed; `find` takes a pattern whose
only special characters are `)` or `]` for plain text (`lstrlib.c:183`), so that
`find(s, "a)")` searches where `match(s, "a)")` raises an error.

## Fairness

* Engine: `WF(UpdateStep)`. A call of `updateSystemSymbol` is not interrupted on
  its thread; it takes its steps until it returns. Nothing is assumed about
  the environment making changes. `UpdateEnds` rests on it.
* `SmartContext`: `WF(Loop)`. The looper handles messages while there are any.
* `Monitors`: weak fairness per runnable. A posted delay ends.
* `WifiContext` and the modules about Lua have no liveness property and no
  fairness. `GarbageGone` is stated as safety instead: at the end of a collection.

## Proofs

`ContextInferenceEngineProofs` proves, for every set of names and rule lines that
satisfies `NameAssumption` and `LineAssumption`:

* `Invariance`: `Spec => []IInv`
* `TypeCorrect`, `OrderOfReports`, `ChangesReported`: `TypeOK`,
  `ReportedInOrder`, `NoChangeLost`, also for clauses with repeated items
* `PropagationComplete`: `NoRepeatedItems => (Spec => []Settled)`

`Settled` is not inductive. What carries it (`EngineInvariant`):

1. `OrderInv`: an item of a clause has a smaller id than the clause's symbol, so
   whatever a visit queues lies behind the name in hand.
2. `QueueInv`: everything queued lies at or behind `last`, the last name
   reported, hence names come in order and none is missed; `v` is the current
   value of `last`, since nothing queued later can change it.
3. `MarkInv`: a mark agrees with the value of its item except while the item is
   queued or its clause is still in `todo`. When queue and `todo` are empty all
   marks agree.
4. `WaitingInv`, `HoldInv`: counters count marks and clauses. With repeated items
   the waiting counter is only an upper bound, which suffices to keep it in Nat.

`Settled` follows from 3 and 4 when no update runs. The proof has one lemma per
action and the lemmas about marks and counters they share.

`WifiContextProofs` proves, for every set of contexts, networks, signals and asset
lines that satisfies `WifiAssumption`, and whatever the bounds: `WifiTypeCorrect`,
`ReferencesAccounted`, `OnlyEnteredOnEvidence`, `FileAlwaysAgrees` and the action
property `ScanAlwaysDecides`. The inductive invariant is `WifiInv`
(`WifiInvariant`):

* `IndexInv`: the index by name holds exactly the rules, so that looking a rule up by
  the item's name finds every rule that matches.
* `VisitInv`, `DownInv`: rules are left to visit only in a scan; without a service
  everything counts nothing.
* `RefsAccounted` is inductive with these. It reads the counts of the last scan for
  rules not visited yet and those of this one for the others, so that a visit moves
  one rule from one side to the other, and removing rules moves references to
  `leaked`.
* `EvidenceInv`: rules with counts match the scan in hand exactly, and the last scan
  as far as they are older than it.
* `FileInv`: lines of the file are of the form saving writes, which is what makes
  reading and saving them again the identity.

`MonitorsProofs` proves for any set of service objects: `MonitorsTypeCorrect` (no chain
is doubled), `ChainsNeverStop`, `ListenerAlwaysThere`, `ListenersAllEnd`. The invariant
adds `ChainInv` of every object, bound or gone: each chain has one runnable at most,
a listener is sampled only while its end is queued, and no sensor
listener is registered while the next one is due.

`ContextInferenceEngineProofs` goes on from `Invariance`:

* `UpdatesHaveCauses`: `Spec => []UpdateInv`
* `EngineImplements`: `NoRepeatedItems => (Spec => ImplementsSymbolRules)`, the
  refinement. `BeginUpdate`, `Poll` and `Visit` are stutters, `EndUpdate` is the one step
  of `SymbolRules` that changes a symbol with all its consequences, `Parse` its definition.
* `ResetAgrees`: `NoRepeatedItems => (Spec => []ResetChangesNothing)`, by an induction
  over the symbols already reset.

`IInv` says what values the symbols have when an update ends, but not why: the abstract
step also says that one system symbol changed and that only symbols over reported ones
were touched. That is `CauseInv`, which `UpdateInv` adds: of the symbols that no rule
defines only the one the update is about has changed, and everything queued or listed,
that one apart, has a clause with a listed item. At the end of an update the
values are a solution of the rules by `Settled`, and as `OrderInv` makes the rules
acyclic there is one solution only.

`SmartContextProofs` proves, for all symbols and rules that satisfy
`SmartContextAssumption`, any sets of service objects and `WifiRuleActivity` objects, one or two screens, and whatever
the bound on messages: `ServiceInvariance`, `ServiceTypeCorrect`, `HoldersNeverClash`,
`LuaAlwaysFollows` and `ViewsAlwaysFollow`. None of the safety properties is inductive,
as each of them is about what handlers will do that are still queued. The invariant
(`ServiceInvariant`) runs the queue in thought:

1. `ServiceInv`: after the first k queued messages, whatever k, the holder of the
   service would hold none or one, and after all of them one if and only if the system wants the
   service. So `onCreate` finds it empty and `onDestroy` finds it set.
2. `ScreenInv`: for each class of activity, after the first k messages there
   are at least as many activities as the next one needs, and after all of them at least
   those the system counts on. It is a lower bound only: the second instance of a
   class, as `ScreensRegisterOnce` shows, can come, and ends the process.
3. `LuaInv`: a state that has not loaded `demo.lua` was told nothing, and the loading
   is queued. So calls that will fail are told from those that will be carried out.
4. `LuaFollows` itself is inductive with that.
5. `ViewsInv`: if the views were reset for the current service object, the queued
   notifications make them converge to the current values; so do those behind each queued
   reset, from what the reset shows; each of them changes what is shown
   unless the engine repeated a report; and no reset for an older object is behind one for
   the current one.

There is one lemma per action. Below them are lemmas about queues: handling a message
shifts what is behind it and posts at the end (`QueueHandled`), so counts (`CountHandled`)
and views to come (`ConvergesShifted`, `AlternatesShifted`) shift too. What
`notifyContext` posts for all symbols that changed is one predicate, `Tells`, proved
along the loop by induction over the ids (`NotifyAllTells`) and used once for Lua and once for the
views (`ChangedViews`).

TLC checked all these invariants first, on the instances of `engine`, `wifi`, `service` and
`monitors`: `UpdateInv` and the `IInv` of `SmartContext` are properties of their runs, the
other two were checked by the way.

`LuaJavaProofs` proves, for any sets of LuaObjects and userdata and whatever the bounds on
states, nesting and leaks (`MaxStates` is one at least): `BridgeInvariance`,
`ReferencesNeverShared`, `CallbacksHaveTheirEnv`,
`CallbacksFindTheirState`, `FinalizersKeepOff`, `StackInvariance` and `NothingElseStays`. All but
the last two rest on the monitor of the `LuaState`, which is hard
to follow: it is counted, methods nest, and an exception leaves several blocks at once. The invariant (`LuaJavaInvariant`) is about the calls
a thread has before it:

1. `MonitorInv`: there is a depth before each call (`Balanced`) that falls to nothing at
   the end, that is positive as long as Lua code is under way, and that is the same where an
   exception leaves a method and where it arrives, so that a check that fails
   releases exactly what its method took. The monitor of the last state is held
   by the main thread as often as the first of these depths says; every other monitor is
   free or the finalizer's.
2. `FinalizerInv`: the finalizer thread is in the block of one object, and before
   `luaL_unref` only if the state of that object is open.
3. `RegInv`: the free keys of the registry are a list without repetition, and none
   of them is the key of an object that still holds one.
4. `StatesInv`: the index the interpreter has is that of the entry with the open state.

There is one lemma per action again. What they share is about sequences of calls: what
is left of a balanced sequence, or two put together, is balanced (`SuffixBalanced`, `ConcatBalanced`),
synchronized methods and callbacks are (`BlockBalanced`, `CallbackBalanced`), and so is the way
out of a callback that throws (`ThrownBalanced`).

`CallbacksHaveTheirEnv` needs besides that while one thread has Lua code under way the
other makes no native call (`MainAlone`, `NoNativeCall`).

`NothingElseStays` has an invariant of its own, `StackInv`, since a method that has ended says nothing of what
it will have left: the height of the stack is followed from each call to the end of the sequence. It
says that there are two functions on the calls before the main thread:

1. `Levels`: how many call frames there are before each call. Every `pcall` under way and every
   callback has one, and an exception is thrown as many frames up as it takes down.
2. `Heights`: how high the stack is before each call made outside of Lua code, where each call
   changes it by its own amount (`Grows`), the end of a `pcall` puts it where the called function
   was, and a check that fails finds the end of its block one slot higher: that slot is what is
   left, and what `left` counts.
3. `Places`: where calls that set the height or use slots below the top may be.

`EndHeight` says what the last height is: what was left before and, after queued code, its
handler. Heights inside of frames are not asked for, as what is in a frame goes with it.

TLC checked these invariants on the instance of `luajava` first, with depths, levels and
heights computed from the end of the sequence.

`LuaCallsProofs` proves all four properties of `LuaCalls`, for any program (callees,
iterators, metamethods, calls from Java, wanted results), whatever the
limits of the interpreter and the bound on frames: `CallsInvariant`, `CallsCountedAlways`,
`CallersUntouchedAlways`, `UpvalsLiveAlways`, `FramesRunAlways`. `LimitsOrdered` and
`ProgramAssumption` are what is asked of the constants: limits are naturals, in the order
`luaconf.h` and `ldo.c` give them; a Lua function has two registers at least; a call has a
callee. The properties say that two structures agree which the interpreter changes apart from one
another: the C stack, which a longjmp cuts, and the `CallInfo` array with `nCcalls`
and `L->base`, which `luaD_pcall` and `lua_resume` put back from what they
saved. The invariant (`LuaCallsInvariant`) is about both:

1. `FramesInv`, of one thread: a frame's function lies below its base and above what
   the frame under it keeps (`Low`), so a callee that writes from its own
   function on leaves its callers alone; upvalues are open only in a frame's own registers.
2. `StackInv`: which activation may be above which (`Above`), where the
   coroutine's activations are, and two functions on the C stack, `d` and `e`: how many frames
   a thread has up to an activation, how many nested calls there are. With these, what was saved
   can be compared with what is there now: a protected call holds exactly `d` and `e`
   of its place, so that cutting the C stack to it and the frames to `ci` agree.
3. `ActivationInv`: each activation finds its frames at `d`, only the last one of a thread
   has frames above it cut off, its kind fits theirs, and
   everything above the slot it owns (`Floor`) belongs to its callees.
4. `CoroutineInv`: a coroutine that does not run has died, waits with the C
   frame of `yield` on top and Lua frames only below it, is to begin, or has just ended.
5. `Rests`: what holds between two steps only, such as the activation on top. 1 to 4 hold inside a
   step as well, which is why the invariant is about a record of the two variables: a step such as
   `OP_RETURN` that ends `luaV_execute`, then the C call, then the results' delivery, is
   followed through its parts, each with one lemma used by every action it occurs in.

`d` and `e` are existentially quantified: cutting or extending the C stack restricts or extends
them. That the sets `FramesRun` and `CallsCounted` count have the sizes `d` and `e` say
(`FrameOwners`, `NestedCounted`) is proved with a bijection along the C stack, by taking least
elements and no induction. TLC checked
the invariant on the instance of `calls` first, with `d` and `e` computed from the C stack.

Only model-checked:

* Liveness (`UpdateEnds`, `ViewsAppear`, `RulesAppear`, `StopsWhenDestroyed`), which
  needs ENABLED.
* The modules about the heap, the compiler, the machine, tables, patterns and chunks:
  they follow data of unbounded depth with RECURSIVE operators.

## Not modelled

* Application: resources, logging and the log view, tabs and saved
  state of activities, ring volume, the values the sensors give, `onBind`,
  malformed lines of the rule files beyond those the engine rejects,
  `MediaRecorder.stop` throwing.
* LuaJava: the invocation handler of proxies, conversion of argument types by
  reflection, most of the `lua_is...` and `luaL_check...` wrappers (one call of the
  C API each), `newThread`, several states open at once, local references of JNI,
  the Windows and Unix loaders.
* Lua: the lexer and operator priorities; of the string library `gmatch`, `gsub` with
  a function, `format`, `byte`, `char` and change of case; the io, os, math, debug and
  package libraries; chunks that no `string.dump` wrote; debug hooks; running out of
  memory; floating point. Formatting and parsing of numbers are computations on
  characters without state.

## Plan

Done: engine with abstract specification, invariant, proofs and refinement; Wi-Fi
contexts, monitors, service and screens with proofs; LuaJava; the interpreter's calls, memory,
compiler, machine, tables, pattern matching and dumped code; proofs about calls, errors and
coroutines.

What could follow: several
Lua states at a time; an abstract specification of `WifiContext` (a context is entered while
a rule matches) and its refinement; `gmatch` and `gsub` with functions, which need a C
function that calls back.
