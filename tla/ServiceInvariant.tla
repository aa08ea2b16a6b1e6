-------------------------- MODULE ServiceInvariant --------------------------
(***************************************************************************)
(* The inductive invariant of SmartContext: what the messages that are     *)
(* still queued will do to the holders, to Lua and to the views.           *)
(***************************************************************************)
EXTENDS SmartContext, Integers

(* How many of the first k messages of a queue are one of T.               *)
Count(T, q, k) == Cardinality({j \in 1..k : q[j] \in T})

-----------------------------------------------------------------------------
(* The holders                                                             *)

(* Whether the holder of the service is set once the first k messages are  *)
(* handled: each is to find it as it needs it, and in the end the service  *)
(* is there if the system wants it.                                        *)
ServiceAhead(k) ==
  (IF sc = NoInstance THEN 0 ELSE 1)
    + Count({[type |-> "create"]}, queue, k) - Count({[type |-> "destroy"]}, queue, k)

ServiceInv ==
  /\ \A k \in 0..Len(queue) : ServiceAhead(k) \in {0, 1}
  /\ ServiceAhead(Len(queue)) = IF running THEN 1 ELSE 0

(* How many activities of a class are there once the first k messages are  *)
(* handled, were the holder to take more than one: each message comes to   *)
(* an activity, and those the system knows remain.                         *)
ScreenAhead(s, k) ==
  (IF screen[s] = "none" THEN 0 ELSE 1)
    + Count({[type |-> "onCreate", screen |-> s]}, queue, k)
    - Count({[type |-> "onDestroy", screen |-> s]}, queue, k)

ScreenInv ==
  \A s \in Screens :
    /\ \A k \in DOMAIN queue :
         queue[k] \in [type : {"onResume", "onPause", "onDestroy"}, screen : {s}]
           => ScreenAhead(s, k - 1) >= 1
    /\ ScreenAhead(s, Len(queue))
         >= (IF scheduled[s] = "none" THEN 0 ELSE 1) + (IF finishing[s] THEN 1 ELSE 0)

HoldersInv == ServiceInv /\ ScreenInv

-----------------------------------------------------------------------------
(* Lua                                                                     *)

(* A state that has not loaded demo.lua has been told nothing, and will    *)
(* load it.                                                                *)
LuaInv ==
  /\ sc = NoInstance => ~loaded
  /\ ~loaded => \A s \in InternalNames : told[s] = "none"
  /\ sc # NoInstance /\ ~loaded =>
       \E k \in DOMAIN queue :
         queue[k].type = "lua" /\ queue[k].of = sc /\ queue[k].word = "require"

-----------------------------------------------------------------------------
(* The views                                                               *)

Note(q, k, n) == q[k].type = "notify" /\ q[k].name = n
ResetOf(q, k, i) == q[k].type = "resetUI" /\ q[k].of = i

(* Whether n is shown once the notifications behind message "from", up to  *)
(* message "upto", are shown on top of the views A.                        *)
Shown(q, A, from, upto, n) ==
  IF \E k \in (from + 1)..upto : Note(q, k, n)
    THEN \E k \in (from + 1)..upto :
           Note(q, k, n) /\ q[k].value /\ \A j \in (k + 1)..upto : ~Note(q, j, n)
    ELSE n \in A

(* Views that are there after message "from" end up showing val...         *)
Converges(q, A, from, val) ==
  \A n \in Names : Shown(q, A, from, Len(q), n) <=> val[n]

(* ...and every notification on the way changes them.                      *)
Alternates(q, A, from) ==
  \A k \in (from + 1)..Len(q) :
    q[k].type = "notify" => (q[k].value <=> ~Shown(q, A, from, k - 1, q[k].name))

ViewsInv ==
  /\ fresh => uiHandler /\ screen["ea"] # "none"
  /\ (\E k \in DOMAIN queue : queue[k].type = "resetUI") => uiHandler
  /\ sc # NoInstance /\ ~outdated =>
       /\ \A k \in DOMAIN queue :
            queue[k].type = "resetUI" /\ queue[k].of # sc =>
              ~fresh /\ \A j \in 1..k : ~ResetOf(queue, j, sc)
       /\ fresh => Converges(queue, views, 0, symbols[sc])
       /\ \A k \in DOMAIN queue :
            ResetOf(queue, k, sc) => Converges(queue, queue[k].shows, k, symbols[sc])
       /\ ~repeated =>
            /\ fresh => strays = {} /\ Alternates(queue, views, 0)
            /\ \A k \in DOMAIN queue :
                 ResetOf(queue, k, sc) => Alternates(queue, queue[k].shows, k)

(* What holds between two messages: the parts above together.              *)
IInv == TypeOK /\ ServiceHolders /\ HoldersInv /\ LuaInv /\ LuaFollows /\ ViewsInv
=============================================================================
