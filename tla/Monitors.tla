------------------------------ MODULE Monitors ------------------------------
(***************************************************************************)
(* The periodic work of the service: WifiContext.WifiScanPusher,           *)
(* MotionContext.AccMonitorRunnable and SoundContext.SoundMonitorRunnable. *)
(* Each is a chain of runnables that post the next one with a delay.       *)
(* Stopping the service clears a flag and the handler, but takes no        *)
(* runnable out of the looper: those of a service object that is gone run  *)
(* later, perhaps beside those of the next one.                            *)
(*                                                                         *)
(* Delays are left out: any pending runnable may be the next to be due,    *)
(* except where two delays of one chain decide it.                         *)
(***************************************************************************)
EXTENDS Naturals

CONSTANTS
  Instances,   \* service objects
  NoInstance   \* null

ASSUME MonitorsAssumption == NoInstance \notin Instances

Kinds == {
  "push",       \* WifiScanPusher.run
  "motion",     \* AccMonitorRunnable.run
  "motionEnd",  \* its inner runnable
  "sound",      \* SoundMonitorRunnable.run
  "soundEnd",   \* its inner runnable
  "listen",     \* SoundListener.run
  "listened" }  \* the same, of a listener that is not active any more

VARIABLES
  sc,         \* the service object that is bound: Singletons.scHandler is its handler
  pending,    \* how many runnables of each kind are queued for each object
  listening,  \* the sensor listeners registered, MotionContext.listening
  listener,   \* SoundMonitorRunnable.listener is not null
  recording,  \* SoundContext.recorder is not null
  failed,     \* a null listener was used
  late        \* history: motion ran when there was no handler

vars == <<sc, pending, listening, listener, recording, failed, late>>

None == [k \in Kinds |-> 0]

(* A defect for checking StopsWhenDestroyed: the flags are not cleared.    *)
AlwaysActive(i) == TRUE

(* The flags "active", set by bind and cleared by unbind.                  *)
Active(i) == i = sc

(* A defect for checking TypeOK: posting leaves the runnable queued.       *)
StillQueued(i, k) == pending

(* A runnable is taken from the looper...                                  *)
Due(i, k) == pending[i][k] > 0
Taken(i, k) == [pending EXCEPT ![i][k] = @ - 1]

(* ...and others are posted, if a service has a handler (runInSCThread,    *)
(* runInSCThreadDelayed).                                                  *)
Posted(queued, i, kinds) ==
  IF sc = NoInstance THEN queued
  ELSE [queued EXCEPT ![i] = [k \in Kinds |-> IF k \in kinds THEN @[k] + 1 ELSE @[k]]]

-----------------------------------------------------------------------------
(* SmartContext.onCreate: the three are bound.  The recorder may not start.*)
Bind(i) ==
  /\ sc = NoInstance
  /\ pending[i] = None /\ listening[i] = 0
  /\ sc' = i
  /\ pending' = [pending EXCEPT ![i] = [k \in Kinds |-> IF k \in {"push", "motion", "sound"}
                                                          THEN 1 ELSE 0]]
  /\ listener' = [listener EXCEPT ![i] = FALSE]
  /\ \E started \in BOOLEAN : recording' = [recording EXCEPT ![i] = started]
  /\ UNCHANGED <<listening, failed, late>>

(* SmartContext.onDestroy: unbind and onDestroy of the three; MotionContext*)
(* unregisters the listeners it knows.                                     *)
Unbind ==
  /\ sc # NoInstance
  /\ sc' = NoInstance
  /\ listening' = [listening EXCEPT ![sc] = 0]
  /\ recording' = [recording EXCEPT ![sc] = FALSE]
  /\ UNCHANGED <<pending, listener, failed, late>>

(* A defect for checking ChainsGoOn: no further scan is asked for.         *)
PushedOnce(i) == Taken(i, "push")

PushedAgain(i) ==
  IF Active(i) THEN Posted(Taken(i, "push"), i, {"push"}) ELSE Taken(i, "push")

RunPush(i) ==
  /\ Due(i, "push")
  /\ pending' = PushedAgain(i)
  /\ UNCHANGED <<sc, listening, listener, recording, failed, late>>

(* AccMonitorRunnable.run does not look at "active".                       *)
RunMotion(i) ==
  /\ Due(i, "motion")
  /\ listening' = [listening EXCEPT ![i] = @ + 1]
  /\ pending' = Posted(Taken(i, "motion"), i, {"motionEnd"})
  /\ late' = [late EXCEPT ![i] = @ \/ sc = NoInstance]
  /\ UNCHANGED <<sc, listener, recording, failed>>

(* A defect for checking ListenersEnd: "active" is looked at first.        *)
UnregisteredIfActive(i) ==
  [listening EXCEPT ![i] = IF @ = 0 \/ ~Active(i) THEN @ ELSE @ - 1]

(* Its listener is unregistered unless onDestroy has done so.              *)
Unregistered(i) == [listening EXCEPT ![i] = IF @ = 0 THEN 0 ELSE @ - 1]

RunMotionEnd(i) ==
  /\ Due(i, "motionEnd")
  /\ listening' = Unregistered(i)
  /\ pending' = IF Active(i) THEN Posted(Taken(i, "motionEnd"), i, {"motion"})
                             ELSE Taken(i, "motionEnd")
  /\ UNCHANGED <<sc, listener, recording, failed, late>>

(* A defect for checking ListenerThere: the field is left alone.           *)
NotAssigned(i) == listener

Assigned(i) == [listener EXCEPT ![i] = TRUE]

(* A listener that has ended is due before the next one is made: it waits  *)
(* for samplingRate, the next one for samplingInterval.                    *)
RunSound(i) ==
  /\ Due(i, "sound") /\ ~Due(i, "listened")
  /\ listener' = Assigned(i)
  /\ pending' = Posted(Taken(i, "sound"), i, {"listen", "soundEnd"})
  /\ UNCHANGED <<sc, listening, recording, failed, late>>

(* "listener.active = false" ends the listener wherever it is queued.      *)
Ended(queued, i) ==
  [queued EXCEPT ![i]["listened"] = @ + queued[i]["listen"], ![i]["listen"] = 0]

RunSoundEnd(i) ==
  /\ Due(i, "soundEnd")
  /\ failed' = (failed \/ ~listener[i])
  /\ listener' = [listener EXCEPT ![i] = FALSE]
  /\ LET ended == Ended(Taken(i, "soundEnd"), i)
     IN  pending' = IF Active(i) THEN Posted(ended, i, {"sound"}) ELSE ended
  /\ UNCHANGED <<sc, listening, recording, late>>

(* The level of the sound is sampled while the listener is active.         *)
RunListen(i) ==
  /\ Due(i, "listen")
  /\ pending' = Posted(Taken(i, "listen"), i, {"listen"})
  /\ UNCHANGED <<sc, listening, listener, recording, failed, late>>

RunListened(i) ==
  /\ Due(i, "listened")
  /\ pending' = Taken(i, "listened")
  /\ UNCHANGED <<sc, listening, listener, recording, failed, late>>

(* The process dies and takes everything with it.                          *)
Kill ==
  /\ sc' = NoInstance
  /\ pending' = [i \in Instances |-> None]
  /\ listening' = [i \in Instances |-> 0]
  /\ listener' = [i \in Instances |-> FALSE]
  /\ recording' = [i \in Instances |-> FALSE]
  /\ failed' = FALSE
  /\ late' = [i \in Instances |-> FALSE]

Init ==
  /\ sc = NoInstance
  /\ pending = [i \in Instances |-> None]
  /\ listening = [i \in Instances |-> 0]
  /\ listener = [i \in Instances |-> FALSE]
  /\ recording = [i \in Instances |-> FALSE]
  /\ failed = FALSE
  /\ late = [i \in Instances |-> FALSE]

Next ==
  \/ \E i \in Instances :
       \/ Bind(i)
       \/ RunPush(i) \/ RunMotion(i) \/ RunMotionEnd(i)
       \/ RunSound(i) \/ RunSoundEnd(i) \/ RunListen(i) \/ RunListened(i)
  \/ Unbind \/ Kill

(* A delay ends: a runnable that is queued is due at some time.            *)
Fairness ==
  \A i \in Instances :
    /\ WF_vars(RunPush(i)) /\ WF_vars(RunMotion(i)) /\ WF_vars(RunMotionEnd(i))
    /\ WF_vars(RunSound(i)) /\ WF_vars(RunSoundEnd(i))
    /\ WF_vars(RunListen(i)) /\ WF_vars(RunListened(i))

Spec == Init /\ [][Next]_vars /\ Fairness

-----------------------------------------------------------------------------
(* Properties                                                              *)

(* In particular no two runnables of one kind are queued for one object,   *)
(* and no object has two listeners.                                        *)
TypeOK ==
  /\ sc \in Instances \cup {NoInstance}
  /\ pending \in [Instances -> [Kinds -> 0..1]]
  /\ listening \in [Instances -> 0..1]
  /\ listener \in [Instances -> BOOLEAN]
  /\ recording \in [Instances -> BOOLEAN]
  /\ failed \in BOOLEAN
  /\ late \in [Instances -> BOOLEAN]

(* While the service is bound each chain has exactly one runnable queued,  *)
(* whatever an earlier object left behind, and sound is sampled from the   *)
(* beginning of each interval to its end.                                  *)
ChainsGoOn ==
  sc # NoInstance =>
    LET has(k) == pending[sc][k]
    IN  /\ has("push") = 1
        /\ has("motion") + has("motionEnd") = 1
        /\ has("sound") + has("soundEnd") = 1
        /\ has("listen") = has("soundEnd")

(* The inner runnable of SoundMonitorRunnable finds a listener.            *)
ListenerThere == ~failed

(* A sensor listener that is registered will be unregistered by the        *)
(* runnable queued for that, except for one that was registered when the   *)
(* service had been destroyed.                                             *)
ListenersEnd ==
  \A i \in Instances : listening[i] > 0 => pending[i]["motionEnd"] > 0 \/ late[i]

(* After the service was destroyed its chains come to an end, also when    *)
(* it is started again meanwhile.                                          *)
StopsWhenDestroyed ==
  \A i \in Instances : sc # i ~> pending[i] = None \/ sc = i
=============================================================================
