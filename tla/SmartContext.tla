---------------------------- MODULE SmartContext ----------------------------
(***************************************************************************)
(* org.sctx.SmartContext, the service, with the screens EntryActivity and  *)
(* WifiRuleActivity, the holders in Singletons, the Lua runtime and the    *)
(* main looper that runs all of them.  Whatever happens is a message: the  *)
(* system posts lifecycle calls, clicks and broadcasts, and handlers post  *)
(* runnables for the service (runInSCThread), the screens (runInUIThread)  *)
(* and Lua (queueLuaCode) behind them.  A message is handled in one step.  *)
(*                                                                         *)
(* The inference engine is the one of SymbolRules; which native context    *)
(* changes when is decided by the environment (see WifiContext).  The      *)
(* holders are taken to exist: Singletons declares but never creates them. *)
(***************************************************************************)
EXTENDS Naturals, Sequences, FiniteSets

CONSTANTS
  NativeNames,    \* symbols the service enters and leaves ("Wifi@...")
  InternalNames,  \* symbols with rules
  Definitions,    \* their rules
  Order,          \* all symbols in the order of their ids
  Screens,        \* the screens: "ea" (EntryActivity), "wra" (WifiRuleActivity)
  Instances,      \* service objects
  NoInstance,     \* null
  Activities,     \* WifiRuleActivity objects, each by its own symbolName string
  NoActivity,     \* null: an empty holder, no arguments
  MaxPosted       \* bound: the system posts only while the queue is shorter

Names == NativeNames \cup InternalNames
Askers == Activities \cup {NoActivity}

VARIABLES
  queue,      \* the messages of the main looper
  sc,         \* Singletons.sc; Singletons.scHandler is set and cleared with it
  symbols,    \* eng.symbols of each service object
  loaded,     \* the current Lua state has loaded demo.lua
  uiHandler,  \* Singletons.uiHandler is set
  screen,     \* "none": the holder is empty; else isResumed of what it holds
  views,      \* the keys of EntryActivity.contextViews
  strays,     \* names of tags in the container that no key leads to
  rowsOf,     \* the service object whose rows EntryActivity shows
  wra,        \* Singletons.wra; whether its list was made since it last resumed
  failure,    \* why the process has just died, if it has
  running,    \* the system has the service running
  scheduled,  \* the state the system has asked the latest activity to be in
  finishing,  \* an earlier activity is still to be destroyed
  told,       \* history: the last call about a symbol that Lua carried out
  fresh,      \* history: the views were reset for this activity and service
  repeated,   \* history: a symbol was reported that had not changed
  outdated    \* history: a row of an earlier service object was used

serviceVars == <<sc, symbols, loaded, told>>
screenVars == <<uiHandler, screen, views, strays, rowsOf, wra, fresh>>
systemVars == <<running, scheduled, finishing>>
historyVars == <<repeated, outdated>>
vars == <<queue, serviceVars, screenVars, systemVars, historyVars, failure>>

Engine == INSTANCE SymbolRules WITH
  SystemNames <- NativeNames, Rules <- {Definitions[s] : s \in InternalNames},
  defs <- Definitions, value <- symbols, reported <- {}

(* The values once the rule files are loaded.                              *)
Loaded == CHOOSE val \in [Names -> BOOLEAN] :
            (\A n \in NativeNames : ~val[n]) /\ Engine!Consistent(Definitions, val)

ASSUME SmartContextAssumption ==
  /\ NativeNames \cap InternalNames = {}
  /\ Order \in Seq(Names)
  /\ {Order[i] : i \in DOMAIN Order} = Names /\ Len(Order) = Cardinality(Names)
  /\ DOMAIN Definitions = InternalNames
  /\ \E val \in [Names -> BOOLEAN] :
       (\A n \in NativeNames : ~val[n]) /\ Engine!Consistent(Definitions, val)
  /\ "ea" \in Screens /\ Screens \subseteq {"ea", "wra"}
  /\ NoInstance \notin Instances /\ NoActivity \notin Activities
  /\ MaxPosted \in Nat

-----------------------------------------------------------------------------
(* Messages                                                                *)

Arrives(type) == queue # <<>> /\ Head(queue).type = type
Msg == Head(queue)

(* Handler.post: behind everything that is queued.                         *)
Post(messages) == queue' = Tail(queue) \o messages

(* A message of the system.                                                *)
SystemPosts(message) ==
  /\ failure = "none"
  /\ Len(queue) < MaxPosted
  /\ queue' = Append(queue, message)

(* runInUIThread: without a handler nothing is posted.                     *)
InUI(message) == IF uiHandler THEN <<message>> ELSE <<>>

(* runInSCThread                                                           *)
InSC(message) == IF sc # NoInstance THEN <<message>> ELSE <<>>

(* queueLuaCode runs in the Lua state of its service object.               *)
Code(i, name, word) == <<[type |-> "lua", of |-> i, name |-> name, word |-> word]>>

(* A defect for checking TypeOK: the wrong name for a function of demo.lua.*)
WordExit(value) == IF value THEN "enter" ELSE "exit"

Word(value) == IF value THEN "enter" ELSE "leave"

(* A defect for checking LuaFollows: Lua is told about symbols that begin  *)
(* to hold only.                                                           *)
NotifyContextEnter(i, name, value) ==
  InUI([type |-> "notify", name |-> name, value |-> value])
    \o IF name \in InternalNames /\ value THEN Code(i, name, Word(value)) ELSE <<>>

(* notifyContext: the screen is told about every symbol, Lua about those   *)
(* without "@".                                                            *)
NotifyContext(i, name, value) ==
  InUI([type |-> "notify", name |-> name, value |-> value])
    \o IF name \in InternalNames THEN Code(i, name, Word(value)) ELSE <<>>

NotifyAll(i, names, val) ==
  LET Notify[k \in 0..Len(Order)] ==
        IF k = 0 THEN <<>>
        ELSE Notify[k - 1] \o IF Order[k] \in names
                                THEN NotifyContext(i, Order[k], val[Order[k]]) ELSE <<>>
  IN  Notify[Len(Order)]

TrueNames(val) == {n \in Names : val[n]}

(* A defect for checking RulesAppear: the arguments are dropped.           *)
ResetUIEntry(i, val, for) ==
  InUI([type |-> "resetUI", of |-> i, shows |-> TrueNames(val), for |-> NoActivity])

(* resetUI reads the symbols now and shows them later; its arguments name  *)
(* a WifiRuleActivity, or are null.                                        *)
ResetUI(i, val, for) ==
  InUI([type |-> "resetUI", of |-> i, shows |-> TrueNames(val), for |-> for])

EmptyHolder == [self |-> NoActivity, listed |-> FALSE]

(* An exception nobody catches, or a crash of native code, ends the        *)
(* process and all it holds.                                               *)
Die(reason) ==
  /\ failure' = reason
  /\ queue' = <<>>
  /\ sc' = NoInstance /\ symbols' = [i \in Instances |-> Loaded] /\ loaded' = FALSE
  /\ told' = [s \in InternalNames |-> "none"]
  /\ uiHandler' = FALSE /\ screen' = [s \in Screens |-> "none"]
  /\ views' = {} /\ strays' = {} /\ rowsOf' = NoInstance /\ wra' = EmptyHolder /\ fresh' = FALSE
  /\ running' = FALSE
  /\ scheduled' = [s \in Screens |-> "none"] /\ finishing' = [s \in Screens |-> FALSE]
  /\ repeated' = FALSE /\ outdated' = FALSE

-----------------------------------------------------------------------------
(* The service                                                             *)

(* A new object is one that nothing refers to; the values of the others    *)
(* are forgotten.                                                          *)
Referenced ==
  {sc, rowsOf} \cup {queue[k].of : k \in {j \in DOMAIN queue : "of" \in DOMAIN queue[j]}}

(* Bound: Instances has an object that can be the next one.                *)
SomeUnreferenced == \E i \in Instances : i \notin Referenced

(* onCreate: the symbols that hold are notified before demo.lua is loaded. *)
CreateService ==
  /\ Arrives("create")
  /\ IF sc # NoInstance THEN Die("service registered twice")
     ELSE LET i == CHOOSE i \in Instances : i \notin Referenced
          IN
            /\ SomeUnreferenced
            /\ sc' = i
            /\ symbols' = [j \in Instances |-> IF j \in Referenced THEN symbols[j] ELSE Loaded]
            /\ fresh' = FALSE
            /\ Post(NotifyAll(i, TrueNames(Loaded), Loaded)
                      \o Code(i, "demo", "require") \o ResetUI(i, Loaded, NoActivity))
            /\ UNCHANGED <<loaded, told, uiHandler, screen, views, strays, rowsOf, wra,
                           systemVars, historyVars, failure>>

(* A defect for checking ServiceHolders: clear is forgotten.               *)
HeldAfterDestroy == sc

(* onDestroy clears the holders.                                           *)
AfterDestroy == NoInstance

(* onDestroy closes the Lua state too.                                     *)
DestroyService ==
  /\ Arrives("destroy")
  /\ IF sc = NoInstance THEN Die("service cleared twice")
     ELSE /\ sc' = AfterDestroy
          /\ loaded' = FALSE
          /\ told' = [s \in InternalNames |-> "none"]
          /\ Post(<<>>)
          /\ UNCHANGED <<symbols, screenVars, systemVars, historyVars, failure>>

(* enterContext and leaveContext for a native context: the engine settles  *)
(* all symbols and the update list names all that changed, and possibly    *)
(* some that are defined over others on the list.                          *)
ChangeContext ==
  /\ Arrives("change")
  /\ IF sc = NoInstance
       THEN Post(<<>>) /\ UNCHANGED <<serviceVars, historyVars>>
       ELSE \E n \in NativeNames, val \in [Names -> BOOLEAN], list \in SUBSET Names :
              LET old == symbols[sc]
                  changed == {m \in Names : val[m] # old[m]}
              IN  /\ changed \cap NativeNames = {n}
                  /\ Engine!Consistent(Definitions, val)
                  /\ changed \subseteq list
                  /\ \A m \in list \ {n} : /\ m \in InternalNames
                                           /\ \E k \in list : Engine!Mentions(Definitions[m], k)
                  /\ symbols' = [symbols EXCEPT ![sc] = val]
                  /\ repeated' = (repeated \/ list # changed)
                  /\ Post(NotifyAll(sc, list, val))
                  /\ UNCHANGED <<sc, loaded, told, outdated>>
  /\ UNCHANGED <<screenVars, systemVars, failure>>

(* The runnable of queueLuaCode.  A call fails, and is lost, until demo is *)
(* loaded; a closed state cannot be used.                                  *)
RunLua ==
  /\ Arrives("lua")
  /\ IF Msg.of # sc THEN Die("Lua state closed")
     ELSE /\ Post(<<>>)
          /\ loaded' = (loaded \/ Msg.word = "require")
          /\ told' = IF loaded /\ Msg.word # "require"
                       THEN [told EXCEPT ![Msg.name] = Msg.word] ELSE told
          /\ UNCHANGED <<sc, symbols, screenVars, systemVars, historyVars, failure>>

-----------------------------------------------------------------------------
(* The screens                                                             *)

(* A new WifiRuleActivity is one that no queued message is about.          *)
Asking == {queue[k].for : k \in {j \in DOMAIN queue : "for" \in DOMAIN queue[j]}}

(* Bound: Activities has an object that can be the next one.               *)
SomeNotAsking == \E a \in Activities : a \notin Asking

(* onCreate of an activity: the holder takes one object only.              *)
CreateScreen(s) ==
  /\ Arrives("onCreate") /\ Msg.screen = s
  /\ IF screen[s] # "none" THEN Die("screen registered twice")
     ELSE /\ screen' = [screen EXCEPT ![s] = "paused"]
          /\ uiHandler' = TRUE
          /\ IF s = "ea"
               THEN views' = {} /\ strays' = {} /\ rowsOf' = NoInstance /\ fresh' = FALSE
                    /\ UNCHANGED wra
               ELSE /\ SomeNotAsking
                    /\ wra' = [EmptyHolder EXCEPT !.self = CHOOSE a \in Activities : a \notin Asking]
                    /\ UNCHANGED <<views, strays, rowsOf, fresh>>
          /\ Post(<<>>)
          /\ UNCHANGED <<serviceVars, systemVars, historyVars, failure>>

(* A defect for checking ViewsAppear: nothing is asked for.                *)
NoRequest(s) == <<>>

Request(s) == InSC([type |-> "request", for |-> IF s = "wra" THEN wra.self ELSE NoActivity])

(* onResume asks the service to reset the screen.                          *)
ResumeScreen(s) ==
  /\ Arrives("onResume") /\ Msg.screen = s
  /\ screen' = [screen EXCEPT ![s] = "resumed"]
  /\ wra' = IF s = "wra" THEN [wra EXCEPT !.listed = FALSE] ELSE wra
  /\ Post(Request(s))
  /\ UNCHANGED <<serviceVars, uiHandler, views, strays, rowsOf, fresh,
                 systemVars, historyVars, failure>>

PauseScreen(s) ==
  /\ Arrives("onPause") /\ Msg.screen = s
  /\ screen' = [screen EXCEPT ![s] = "paused"]
  /\ Post(<<>>)
  /\ UNCHANGED <<serviceVars, uiHandler, views, strays, rowsOf, wra, fresh,
                 systemVars, historyVars, failure>>

(* onDestroy: the holder is cleared.                                       *)
DestroyScreen(s) ==
  /\ Arrives("onDestroy") /\ Msg.screen = s
  /\ IF screen[s] = "none" THEN Die("screen cleared twice")
     ELSE /\ screen' = [screen EXCEPT ![s] = "none"]
          /\ IF s = "ea"
               THEN views' = {} /\ strays' = {} /\ rowsOf' = NoInstance /\ fresh' = FALSE
                    /\ UNCHANGED wra
               ELSE wra' = EmptyHolder /\ UNCHANGED <<views, strays, rowsOf, fresh>>
          /\ Post(<<>>)
          /\ UNCHANGED <<serviceVars, uiHandler, systemVars, historyVars, failure>>

(* The runnable of onResume; the service may be gone by now.               *)
ServeRequest ==
  /\ Arrives("request")
  /\ Post(IF sc = NoInstance THEN <<>> ELSE ResetUI(sc, symbols[sc], Msg.for))
  /\ UNCHANGED <<serviceVars, screenVars, systemVars, historyVars, failure>>

(* A defect for checking ViewsFollow: the old views are not cleared.       *)
KeptViews(shows) == views \cup shows

ShownViews(shows) == shows

(* The runnable of resetUI.  It replaces the views of a resumed            *)
(* EntryActivity, and the list of a resumed WifiRuleActivity when it is    *)
(* the object that asked: the strings are compared with ==.  The rows of   *)
(* that list are made with the EntryActivity; without one the list is left *)
(* empty by an exception that is caught, unless there are no rows.         *)
ShowReset ==
  /\ Arrives("resetUI")
  /\ Post(<<>>)
  /\ IF screen["ea"] = "resumed"
       THEN /\ views' = ShownViews(Msg.shows) /\ strays' = {}
            /\ rowsOf' = Msg.of
            /\ fresh' = (fresh \/ Msg.of = sc)
       ELSE UNCHANGED <<views, strays, rowsOf, fresh>>
  /\ IF Msg.for # NoActivity /\ Msg.for = wra.self /\ screen["wra"] = "resumed"
       THEN \E noRows \in BOOLEAN :
              wra' = [wra EXCEPT !.listed = noRows \/ screen["ea"] # "none"]
       ELSE UNCHANGED wra
  /\ UNCHANGED <<serviceVars, uiHandler, screen, systemVars, historyVars, failure>>

(* The runnable of notifyContext: a tag that is put over another one stays *)
(* in the container.                                                       *)
ShowNotification ==
  /\ Arrives("notify")
  /\ Post(<<>>)
  /\ IF screen["ea"] = "none" THEN UNCHANGED <<views, strays>>
     ELSE IF Msg.value
       THEN /\ strays' = strays \cup (views \cap {Msg.name})
            /\ views' = views \cup {Msg.name}
       ELSE /\ views' = views \ {Msg.name}
            /\ UNCHANGED strays
  /\ UNCHANGED <<serviceVars, uiHandler, screen, rowsOf, wra, fresh,
                 systemVars, historyVars, failure>>

(* DEL on a row of EntryActivity: the row works on the service object that *)
(* made it, but is run through the handler of the current one.             *)
ClickDelete ==
  /\ Arrives("click")
  /\ Post(InSC([type |-> "delete", of |-> Msg.of]))
  /\ UNCHANGED <<serviceVars, screenVars, systemVars, historyVars, failure>>

(* Its runnable; what it does to the rules is in WifiContext.              *)
Delete ==
  /\ Arrives("delete")
  /\ Post(ResetUI(Msg.of, symbols[Msg.of], NoActivity))
  /\ outdated' = (outdated \/ sc \notin {NoInstance, Msg.of})
  /\ UNCHANGED <<serviceVars, screenVars, systemVars, repeated, failure>>

-----------------------------------------------------------------------------
(* The system                                                              *)

(* startService (START, boot) and stopService (STOP, RESET).               *)
StartService ==
  /\ ~running /\ running' = TRUE
  /\ SystemPosts([type |-> "create"])
  /\ UNCHANGED <<serviceVars, screenVars, scheduled, finishing, historyVars, failure>>

StopService ==
  /\ running /\ running' = FALSE
  /\ SystemPosts([type |-> "destroy"])
  /\ UNCHANGED <<serviceVars, screenVars, scheduled, finishing, historyVars, failure>>

(* The lifecycle of activities.  A new one may be launched while a finished*)
(* one is not destroyed yet, and EDIT pressed twice launches two           *)
(* WifiRuleActivity objects.                                               *)
Schedule(s, message, from, to) ==
  /\ scheduled[s] \in from
  /\ scheduled' = [scheduled EXCEPT ![s] = to]
  /\ SystemPosts([type |-> message, screen |-> s])
  /\ UNCHANGED <<serviceVars, screenVars, running, historyVars, failure>>

Lifecycle(s) ==
  \/ /\ \A t \in Screens : scheduled[t] # "resumed"
     /\ Schedule(s, "onCreate", {"none"} \cup (IF s = "wra" THEN {"paused"} ELSE {}), "paused")
     /\ UNCHANGED finishing
  \/ /\ \A t \in Screens : scheduled[t] # "resumed"
     /\ Schedule(s, "onResume", {"paused"}, "resumed")
     /\ UNCHANGED finishing
  \/ /\ Schedule(s, "onPause", {"resumed"}, "paused")
     /\ UNCHANGED finishing
  \/ /\ finishing[s]
     /\ finishing' = [finishing EXCEPT ![s] = FALSE]
     /\ SystemPosts([type |-> "onDestroy", screen |-> s])
     /\ UNCHANGED <<serviceVars, screenVars, running, scheduled, historyVars, failure>>

Finish(s) ==
  /\ failure = "none"
  /\ scheduled[s] = "paused" /\ ~finishing[s]
  /\ scheduled' = [scheduled EXCEPT ![s] = "none"]
  /\ finishing' = [finishing EXCEPT ![s] = TRUE]
  /\ UNCHANGED <<queue, serviceVars, screenVars, running, historyVars, failure>>

(* A broadcast that changes a native context.                              *)
Broadcast ==
  /\ sc # NoInstance /\ NativeNames # {}
  /\ SystemPosts([type |-> "change"])
  /\ UNCHANGED <<serviceVars, screenVars, systemVars, historyVars, failure>>

(* DEL is pressed on a row that is shown; a row is that of a context.      *)
Click ==
  /\ screen["ea"] = "resumed" /\ rowsOf # NoInstance /\ NativeNames # {}
  /\ SystemPosts([type |-> "click", of |-> rowsOf])
  /\ UNCHANGED <<serviceVars, screenVars, systemVars, historyVars, failure>>

(* The process is started again.                                           *)
Restart ==
  /\ failure # "none" /\ failure' = "none"
  /\ UNCHANGED <<queue, serviceVars, screenVars, systemVars, historyVars>>

-----------------------------------------------------------------------------
Init ==
  /\ queue = <<>>
  /\ sc = NoInstance /\ symbols = [i \in Instances |-> Loaded] /\ loaded = FALSE
  /\ told = [s \in InternalNames |-> "none"]
  /\ uiHandler = FALSE /\ screen = [s \in Screens |-> "none"]
  /\ views = {} /\ strays = {} /\ rowsOf = NoInstance /\ wra = EmptyHolder /\ fresh = FALSE
  /\ failure = "none"
  /\ running = FALSE
  /\ scheduled = [s \in Screens |-> "none"] /\ finishing = [s \in Screens |-> FALSE]
  /\ repeated = FALSE /\ outdated = FALSE

(* The looper takes the first message.                                     *)
Loop ==
  \/ CreateService \/ DestroyService \/ ChangeContext \/ RunLua
  \/ \E s \in Screens : CreateScreen(s) \/ ResumeScreen(s) \/ PauseScreen(s) \/ DestroyScreen(s)
  \/ ServeRequest \/ ShowReset \/ ShowNotification \/ ClickDelete \/ Delete

System ==
  \/ StartService \/ StopService
  \/ \E s \in Screens : Lifecycle(s) \/ Finish(s)
  \/ Broadcast \/ Click \/ Restart

Next == Loop \/ System

(* The looper does not stop while there are messages.                      *)
Spec == Init /\ [][Next]_vars /\ WF_vars(Loop)

-----------------------------------------------------------------------------
(* Properties                                                              *)

Message ==
  [type : {"create", "destroy", "change"}]
    \cup [type : {"onCreate", "onResume", "onPause", "onDestroy"}, screen : Screens]
    \cup [type : {"request"}, for : Askers]
    \cup [type : {"resetUI"}, of : Instances, shows : SUBSET Names, for : Askers]
    \cup [type : {"notify"}, name : Names, value : BOOLEAN]
    \cup [type : {"lua"}, of : Instances, name : InternalNames, word : {"enter", "leave"}]
    \cup [type : {"lua"}, of : Instances, name : {"demo"}, word : {"require"}]
    \cup [type : {"click", "delete"}, of : Instances]

Failures ==
  {"service registered twice", "service cleared twice", "Lua state closed",
   "screen registered twice", "screen cleared twice"}

(* Every variable has its type: Lua is only called by the names demo.lua   *)
(* defines.                                                                *)
TypeOK ==
  /\ queue \in Seq(Message)
  /\ sc \in Instances \cup {NoInstance}
  /\ symbols \in [Instances -> [Names -> BOOLEAN]]
  /\ loaded \in BOOLEAN
  /\ told \in [InternalNames -> {"none", "enter", "leave"}]
  /\ uiHandler \in BOOLEAN
  /\ screen \in [Screens -> {"none", "paused", "resumed"}]
  /\ views \in SUBSET Names /\ strays \in SUBSET Names
  /\ rowsOf \in Instances \cup {NoInstance}
  /\ wra \in [self : Askers, listed : BOOLEAN]
  /\ fresh \in BOOLEAN
  /\ failure \in Failures \cup {"none"}
  /\ running \in BOOLEAN
  /\ scheduled \in [Screens -> {"none", "paused", "resumed"}]
  /\ finishing \in [Screens -> BOOLEAN]
  /\ repeated \in BOOLEAN /\ outdated \in BOOLEAN

(* However STARTs and STOPs follow each other, the holders of the service  *)
(* are never set twice nor cleared when empty, and no screen clears a      *)
(* holder that is empty (SingletonHolder).                                 *)
ServiceHolders ==
  failure \notin {"service registered twice", "service cleared twice", "screen cleared twice"}

(* The calls about s that Lua will still carry out.                        *)
Coming(s) ==
  {k \in DOMAIN queue :
     /\ queue[k].type = "lua" /\ queue[k].of = sc
     /\ queue[k].name = s /\ queue[k].word # "require"
     /\ loaded \/ \E j \in 1..(k - 1) : queue[j].type = "lua" /\ queue[j].word = "require"
                                          /\ queue[j].of = sc}

(* What Lua knows, or is about to know, is true: the last call about a     *)
(* symbol that demo.lua gets or has got is about the value the symbol has, *)
(* and a symbol it has heard nothing about has the value it was created    *)
(* with (notifyContext, queueLuaCode).                                     *)
LuaFollows ==
  sc # NoInstance =>
    \A s \in InternalNames :
      LET val == symbols[sc][s]
      IN  IF Coming(s) # {}
            THEN \A k \in Coming(s) : (\A j \in Coming(s) : j <= k) => queue[k].word = Word(val)
            ELSE IF told[s] # "none" THEN told[s] = Word(val) ELSE val = Loaded[s]

(* Once EntryActivity was reset for a service object, and no runnable for  *)
(* it is queued, it shows exactly the symbols that hold, each with one tag.*)
(* Apart from: rows of an earlier service object, and symbols that were    *)
(* reported without having changed.                                        *)
ViewsFollow ==
  sc # NoInstance /\ fresh /\ ~outdated
  /\ (\A k \in DOMAIN queue : queue[k].type \notin {"notify", "resetUI"})
  => /\ views = TrueNames(symbols[sc])
     /\ strays # {} => repeated

(* An EntryActivity that stays in front of a running service shows its     *)
(* state at some time, whichever of them was there first (onResume and     *)
(* SmartContext.onCreate both ask for it).                                 *)
ViewsAppear ==
  sc # NoInstance /\ screen["ea"] = "resumed"
    ~> fresh \/ sc = NoInstance \/ screen["ea"] # "resumed"

(* A WifiRuleActivity that has asked a running service for its list and    *)
(* stays in front gets a list made since it last came there, whatever is   *)
(* answered to it before or to an earlier object of its class; that of a   *)
(* service that is started later it does not get.  It needs an             *)
(* EntryActivity, too (SmartContext.java:371).                             *)
RulesAppear ==
  (\E k \in DOMAIN queue : /\ queue[k].type = "request"
                           /\ wra.self # NoActivity /\ queue[k].for = wra.self)
    ~> wra.listed \/ sc = NoInstance \/ screen["wra"] # "resumed" \/ screen["ea"] = "none"

(* What the code does not guarantee: "Cannot set singleton holder twice"   *)
(* (Util.java:77) is thrown when an activity is created before an earlier  *)
(* one of its class is destroyed.                                          *)
ScreensRegisterOnce == failure # "screen registered twice"
=============================================================================
