--------------------------- MODULE MonitorsProofs ---------------------------
(***************************************************************************)
(* Proofs about Monitors, for every set of service objects.                *)
(***************************************************************************)
EXTENDS Monitors, TLAPS

(* The chains of one object, bound or gone: at most one runnable of each,  *)
(* a listener is sampled only while its end is queued, its end finds it,   *)
(* and a sensor listener waits for the runnable that unregisters it.       *)
ChainInv(i) ==
  LET has(k) == pending[i][k]
  IN  /\ has("motion") + has("motionEnd") <= 1
      /\ has("sound") + has("soundEnd") <= 1
      /\ has("listen") <= has("soundEnd")
      /\ has("listen") + has("listened") <= 1
      /\ has("soundEnd") > 0 => listener[i]
      /\ has("motion") > 0 => listening[i] = 0
      /\ listening[i] > 0 => has("motionEnd") > 0 \/ late[i]

(* The inductive invariant.                                                *)
MonitorsInv ==
  /\ TypeOK
  /\ ChainsGoOn
  /\ ListenerThere
  /\ \A i \in Instances : ChainInv(i)

-----------------------------------------------------------------------------
(* The looper                                                              *)

(* Counts are numbers, read one at a time.                                 *)
LEMMA CountsTyped ==
  ASSUME TypeOK, NEW i \in Instances, NEW k \in Kinds
  PROVE  /\ pending \in [Instances -> [Kinds -> 0..1]]
         /\ pending[i] \in [Kinds -> 0..1]
         /\ pending[i][k] \in 0..1
BY DEF TypeOK

(* Taking a runnable lowers its count and no other.                        *)
LEMMA TakenCounts ==
  ASSUME TypeOK, NEW i \in Instances, NEW k \in Kinds, Due(i, k)
  PROVE  /\ Taken(i, k) \in [Instances -> [Kinds -> 0..1]]
         /\ \A j \in Instances : j # i => Taken(i, k)[j] = pending[j]
         /\ \A l \in Kinds : Taken(i, k)[i][l] = IF l = k THEN 0 ELSE pending[i][l]
BY CountsTyped DEF TypeOK, Taken, Due

(* Posting raises the counts of the kinds posted, while a service has a    *)
(* handler.                                                                *)
LEMMA PostedCounts ==
  ASSUME NEW queued \in [Instances -> [Kinds -> 0..1]], NEW i \in Instances,
         NEW kinds \in SUBSET Kinds, \A k \in kinds : queued[i][k] = 0
  PROVE  /\ Posted(queued, i, kinds) \in [Instances -> [Kinds -> 0..1]]
         /\ \A j \in Instances : j # i => Posted(queued, i, kinds)[j] = queued[j]
         /\ \A l \in Kinds : Posted(queued, i, kinds)[i][l] =
              IF l \in kinds /\ sc # NoInstance THEN 1 ELSE queued[i][l]
<1>1. CASE sc = NoInstance
  BY <1>1 DEF Posted
<1>2. CASE sc # NoInstance
  BY <1>2 DEF Posted
<1> QED
  BY <1>1, <1>2

(* A runnable is taken and others are posted in its place.                 *)
LEMMA HandedOn ==
  ASSUME TypeOK, NEW i \in Instances, NEW k \in Kinds, Due(i, k),
         NEW kinds \in SUBSET Kinds, \A l \in kinds : l = k \/ pending[i][l] = 0,
         pending' = Posted(Taken(i, k), i, kinds)
  PROVE  /\ pending' \in [Instances -> [Kinds -> 0..1]]
         /\ \A j \in Instances : j # i => pending'[j] = pending[j]
         /\ \A l \in Kinds : pending'[i][l] =
              IF l \in kinds /\ sc # NoInstance THEN 1
              ELSE IF l = k THEN 0 ELSE pending[i][l]
<1> DEFINE taken == Taken(i, k)
<1>1. /\ taken \in [Instances -> [Kinds -> 0..1]]
      /\ \A j \in Instances : j # i => taken[j] = pending[j]
      /\ \A l \in Kinds : taken[i][l] = IF l = k THEN 0 ELSE pending[i][l]
  BY TakenCounts
<1>2. \A l \in kinds : taken[i][l] = 0
  BY <1>1
<1>3. pending' = Posted(taken, i, kinds)
  OBVIOUS
<1> HIDE DEF taken
<1> QED
  BY <1>1, <1>2, <1>3, PostedCounts

(* It is followed by others only while its object is bound.                *)
LEMMA HandedOnIfActive ==
  ASSUME TypeOK, NEW i \in Instances, NEW k \in Kinds, Due(i, k),
         NEW kinds \in SUBSET Kinds, \A l \in kinds : l = k \/ pending[i][l] = 0,
         pending' = IF Active(i) THEN Posted(Taken(i, k), i, kinds) ELSE Taken(i, k)
  PROVE  /\ pending' \in [Instances -> [Kinds -> 0..1]]
         /\ \A j \in Instances : j # i => pending'[j] = pending[j]
         /\ \A l \in Kinds : pending'[i][l] =
              IF l \in kinds /\ sc = i THEN 1 ELSE IF l = k THEN 0 ELSE pending[i][l]
<1>1. CASE Active(i)
  <2>1. pending' = Posted(Taken(i, k), i, kinds) /\ sc = i /\ sc # NoInstance
    BY <1>1, MonitorsAssumption DEF Active
  <2> QED
    BY <2>1, HandedOn
<1>2. CASE ~Active(i)
  <2>1. pending' = Taken(i, k) /\ sc # i
    BY <1>2 DEF Active
  <2> QED
    BY <2>1, TakenCounts
<1> QED
  BY <1>1, <1>2

(* A step that leaves the runnables and listeners of an object alone       *)
(* leaves its chains as they were.                                         *)
LEMMA ChainKept ==
  ASSUME NEW i \in Instances, ChainInv(i),
         pending'[i] = pending[i], listener'[i] = listener[i],
         listening'[i] = listening[i], late'[i] = late[i]
  PROVE  ChainInv(i)'
BY DEF ChainInv

-----------------------------------------------------------------------------
(* Every step keeps the invariant                                          *)

(* Nothing is queued at first.                                             *)
LEMMA InitMonitorsInv == Init => MonitorsInv
<1> SUFFICES ASSUME Init PROVE MonitorsInv
  OBVIOUS
<1>1. None \in [Kinds -> 0..1] /\ \A k \in Kinds : None[k] = 0
  BY DEF None
<1>2. TypeOK
  <2>1. pending \in [Instances -> [Kinds -> 0..1]]
    BY <1>1 DEF Init
  <2>2. listening \in [Instances -> 0..1]
    BY DEF Init
  <2>3. /\ listener \in [Instances -> BOOLEAN]
        /\ recording \in [Instances -> BOOLEAN]
        /\ late \in [Instances -> BOOLEAN]
    BY DEF Init
  <2> QED
    BY <2>1, <2>2, <2>3 DEF Init, TypeOK
<1>3. ASSUME NEW i \in Instances PROVE ChainInv(i)
  <2>1. \A k \in Kinds : pending[i][k] = 0
    BY <1>1 DEF Init
  <2>2. listening[i] = 0
    BY DEF Init
  <2> QED
    BY <2>1, <2>2 DEF ChainInv, Kinds
<1>4. ChainsGoOn /\ ListenerThere
  BY DEF Init, ChainsGoOn, ListenerThere
<1> QED
  BY <1>2, <1>3, <1>4 DEF MonitorsInv

(* Binding starts the three chains of an object that has none.             *)
LEMMA BindKeeps ==
  ASSUME MonitorsInv, NEW i \in Instances, Bind(i)
  PROVE  MonitorsInv'
<1> DEFINE first == [k \in Kinds |-> IF k \in {"push", "motion", "sound"} THEN 1 ELSE 0]
<1>1. first \in [Kinds -> 0..1]
  OBVIOUS
<1>2. pending' = [pending EXCEPT ![i] = first] /\ listening[i] = 0
  BY DEF Bind
<1>3. TypeOK
  BY DEF MonitorsInv
<1>4. TypeOK'
  BY <1>1, <1>2, <1>3 DEF Bind, TypeOK
<1>5. /\ pending'[i] = first /\ listening'[i] = 0
      /\ \A j \in Instances : j # i => pending'[j] = pending[j]
  BY <1>2, <1>3 DEF Bind, TypeOK
<1>6. /\ first["push"] = 1 /\ first["motion"] = 1 /\ first["sound"] = 1
      /\ first["motionEnd"] = 0 /\ first["soundEnd"] = 0
      /\ first["listen"] = 0 /\ first["listened"] = 0
  BY DEF Kinds
<1>7. ChainInv(i)'
  BY <1>5, <1>6 DEF ChainInv
<1>8. ASSUME NEW j \in Instances, j # i PROVE ChainInv(j)'
  <2>1. ChainInv(j) /\ listener'[j] = listener[j] /\ listening'[j] = listening[j]
                   /\ late'[j] = late[j]
    BY <1>3, <1>8 DEF MonitorsInv, Bind, TypeOK
  <2> QED
    BY <1>5, <1>8, <2>1, ChainKept
<1>9. sc' = i /\ ChainsGoOn'
  BY <1>5, <1>6 DEF Bind, ChainsGoOn
<1>10. ListenerThere'
  BY DEF MonitorsInv, Bind, ListenerThere
<1> QED
  BY <1>4, <1>7, <1>8, <1>9, <1>10 DEF MonitorsInv

(* Unbinding takes the listeners the object knows.                         *)
LEMMA UnbindKeeps ==
  ASSUME MonitorsInv, Unbind
  PROVE  MonitorsInv'
<1>1. TypeOK
  BY DEF MonitorsInv
<1>2. TypeOK'
  BY <1>1 DEF Unbind, TypeOK
<1>3. ASSUME NEW j \in Instances PROVE ChainInv(j)'
  <2>1. ChainInv(j) /\ listening'[j] \in {0, listening[j]} /\ listening[j] \in 0..1
    BY <1>1 DEF MonitorsInv, Unbind, TypeOK
  <2> QED
    BY <2>1 DEF Unbind, ChainInv
<1>4. ChainsGoOn' /\ ListenerThere'
  BY DEF MonitorsInv, Unbind, ChainsGoOn, ListenerThere
<1> QED
  BY <1>2, <1>3, <1>4 DEF MonitorsInv

(* What a runnable of object i has to establish.                           *)
LEMMA RunKeeps ==
  ASSUME MonitorsInv, NEW i \in Instances, TypeOK', sc' = sc, ListenerThere', ChainInv(i)',
         i = sc => ChainsGoOn',
         \A j \in Instances : j # i => /\ pending'[j] = pending[j]
                                      /\ listener'[j] = listener[j]
                                      /\ listening'[j] = listening[j]
                                      /\ late'[j] = late[j]
  PROVE  MonitorsInv'
<1>1. \A j \in Instances : ChainInv(j)'
  BY ChainKept DEF MonitorsInv
<1>2. CASE sc \in Instances /\ sc # i
  BY <1>1, <1>2 DEF MonitorsInv, ChainsGoOn
<1>3. CASE sc = NoInstance
  BY <1>1, <1>3 DEF MonitorsInv, ChainsGoOn
<1> QED
  BY <1>1, <1>2, <1>3 DEF MonitorsInv, TypeOK

(* A scan is asked for again while the object is bound.                    *)
LEMMA RunPushKeeps ==
  ASSUME MonitorsInv, NEW i \in Instances, RunPush(i)
  PROVE  MonitorsInv'
<1>1. TypeOK /\ "push" \in Kinds /\ Due(i, "push")
  BY DEF MonitorsInv, RunPush, Kinds
<1>2. pending' = IF Active(i) THEN Posted(Taken(i, "push"), i, {"push"}) ELSE Taken(i, "push")
  BY DEF RunPush, PushedAgain
<1>3. /\ pending' \in [Instances -> [Kinds -> 0..1]]
      /\ \A j \in Instances : j # i => pending'[j] = pending[j]
      /\ \A l \in Kinds : l # "push" => pending'[i][l] = pending[i][l]
      /\ i = sc => pending'[i]["push"] = 1
  <2> DEFINE kinds == {"push"}
  <2>1. kinds \in SUBSET Kinds /\ \A l \in kinds : l = "push" \/ pending[i][l] = 0
    BY <1>1
  <2>2. pending' = IF Active(i) THEN Posted(Taken(i, "push"), i, kinds) ELSE Taken(i, "push")
    BY <1>2
  <2>3. "push" \in kinds /\ \A l \in kinds : l = "push"
    OBVIOUS
  <2> HIDE DEF kinds
  <2>4. /\ pending' \in [Instances -> [Kinds -> 0..1]]
        /\ \A j \in Instances : j # i => pending'[j] = pending[j]
        /\ \A l \in Kinds : pending'[i][l] =
             IF l \in kinds /\ sc = i THEN 1 ELSE IF l = "push" THEN 0 ELSE pending[i][l]
    BY <1>1, <2>1, <2>2, HandedOnIfActive
  <2> QED
    BY <1>1, <2>3, <2>4
<1>4. UNCHANGED <<sc, listening, listener, recording, failed, late>>
  BY DEF RunPush
<1>5. TypeOK'
  BY <1>1, <1>3, <1>4 DEF TypeOK
<1>6. ChainInv(i)'
  BY <1>3, <1>4 DEF MonitorsInv, ChainInv, Kinds
<1>7. i = sc => ChainsGoOn'
  BY <1>3, <1>4 DEF MonitorsInv, ChainsGoOn, Kinds
<1>8. ListenerThere'
  BY <1>4 DEF MonitorsInv, ListenerThere
<1> QED
  BY <1>3, <1>4, <1>5, <1>6, <1>7, <1>8, RunKeeps

(* A listener is registered, and its end queued if there is a handler.     *)
LEMMA RunMotionKeeps ==
  ASSUME MonitorsInv, NEW i \in Instances, RunMotion(i)
  PROVE  MonitorsInv'
<1>1. TypeOK /\ {"motion", "motionEnd"} \subseteq Kinds /\ Due(i, "motion")
  BY DEF MonitorsInv, RunMotion, Kinds
<1>2. pending[i]["motion"] = 1 /\ pending[i]["motionEnd"] = 0 /\ listening[i] = 0
  BY <1>1, CountsTyped DEF MonitorsInv, ChainInv, Due
<1>3. pending' = Posted(Taken(i, "motion"), i, {"motionEnd"})
  BY DEF RunMotion
<1>4. /\ pending' \in [Instances -> [Kinds -> 0..1]]
      /\ \A j \in Instances : j # i => pending'[j] = pending[j]
      /\ \A l \in Kinds : l \notin {"motion", "motionEnd"} => pending'[i][l] = pending[i][l]
      /\ pending'[i]["motion"] = 0
      /\ pending'[i]["motionEnd"] = IF sc = NoInstance THEN 0 ELSE 1
  BY <1>1, <1>2, <1>3, HandedOn
<1>5. /\ listening' \in [Instances -> 0..1] /\ listening'[i] = 1
      /\ late' \in [Instances -> BOOLEAN] /\ (sc = NoInstance => late'[i])
      /\ \A j \in Instances : j # i => listening'[j] = listening[j] /\ late'[j] = late[j]
  <2>1. /\ listening' \in [Instances -> 0..1] /\ listening'[i] = 1
        /\ \A j \in Instances : j # i => listening'[j] = listening[j]
    BY <1>1, <1>2 DEF RunMotion, TypeOK
  <2>2. late' = [late EXCEPT ![i] = @ \/ sc = NoInstance] /\ late \in [Instances -> BOOLEAN]
    BY <1>1 DEF RunMotion, TypeOK
  <2>3. /\ late' \in [Instances -> BOOLEAN] /\ (sc = NoInstance => late'[i])
        /\ \A j \in Instances : j # i => late'[j] = late[j]
    BY <2>2, Zenon
  <2> QED
    BY <2>1, <2>3
<1>6. UNCHANGED <<sc, listener, recording, failed>>
  BY DEF RunMotion
<1>7. TypeOK'
  BY <1>1, <1>4, <1>5, <1>6 DEF TypeOK
<1>8. ChainInv(i)'
  BY <1>4, <1>5, <1>6 DEF MonitorsInv, ChainInv, Kinds
<1>9. i = sc => ChainsGoOn'
  BY <1>2, <1>4, <1>6, MonitorsAssumption DEF MonitorsInv, ChainsGoOn, Kinds
<1>10. ListenerThere'
  BY <1>6 DEF MonitorsInv, ListenerThere
<1> QED
  BY <1>4, <1>5, <1>6, <1>7, <1>8, <1>9, <1>10, RunKeeps

(* The listener is unregistered, if onDestroy has not done so.             *)
LEMMA RunMotionEndKeeps ==
  ASSUME MonitorsInv, NEW i \in Instances, RunMotionEnd(i)
  PROVE  MonitorsInv'
<1>1. TypeOK /\ {"motion", "motionEnd"} \subseteq Kinds /\ Due(i, "motionEnd")
  BY DEF MonitorsInv, RunMotionEnd, Kinds
<1>2. pending[i]["motion"] = 0 /\ pending[i]["motionEnd"] = 1
  BY <1>1, CountsTyped DEF MonitorsInv, ChainInv, Due
<1>3. pending' = IF Active(i) THEN Posted(Taken(i, "motionEnd"), i, {"motion"})
                              ELSE Taken(i, "motionEnd")
  BY DEF RunMotionEnd
<1>4. /\ pending' \in [Instances -> [Kinds -> 0..1]]
      /\ \A j \in Instances : j # i => pending'[j] = pending[j]
      /\ \A l \in Kinds : l \notin {"motion", "motionEnd"} => pending'[i][l] = pending[i][l]
      /\ pending'[i]["motionEnd"] = 0
      /\ pending'[i]["motion"] = IF i = sc THEN 1 ELSE 0
  <2>1. /\ {"motion"} \in SUBSET Kinds
        /\ \A l \in {"motion"} : l = "motionEnd" \/ pending[i][l] = 0
    BY <1>1, <1>2
  <2>2. /\ pending' \in [Instances -> [Kinds -> 0..1]]
        /\ \A j \in Instances : j # i => pending'[j] = pending[j]
        /\ \A l \in Kinds : pending'[i][l] =
             IF l \in {"motion"} /\ sc = i THEN 1
             ELSE IF l = "motionEnd" THEN 0 ELSE pending[i][l]
    BY <1>1, <1>3, <2>1, HandedOnIfActive
  <2> QED
    BY <1>1, <1>2, <2>2
<1>5. /\ listening' \in [Instances -> 0..1] /\ listening'[i] = 0
      /\ \A j \in Instances : j # i => listening'[j] = listening[j]
  BY <1>1 DEF RunMotionEnd, Unregistered, TypeOK
<1>6. UNCHANGED <<sc, listener, recording, failed, late>>
  BY DEF RunMotionEnd
<1>7. TypeOK'
  BY <1>1, <1>4, <1>5, <1>6 DEF TypeOK
<1>8. ChainInv(i)'
  BY <1>4, <1>5, <1>6 DEF MonitorsInv, ChainInv, Kinds
<1>9. i = sc => ChainsGoOn'
  BY <1>4, <1>6 DEF MonitorsInv, ChainsGoOn, Kinds
<1>10. ListenerThere'
  BY <1>6 DEF MonitorsInv, ListenerThere
<1> QED
  BY <1>4, <1>5, <1>6, <1>7, <1>8, <1>9, <1>10, RunKeeps

(* A sound listener is made and queued with its end.                       *)
LEMMA RunSoundKeeps ==
  ASSUME MonitorsInv, NEW i \in Instances, RunSound(i)
  PROVE  MonitorsInv'
<1>1. TypeOK /\ {"sound", "soundEnd", "listen", "listened"} \subseteq Kinds /\ Due(i, "sound")
  BY DEF MonitorsInv, RunSound, Kinds
<1>2. /\ pending[i]["sound"] = 1 /\ pending[i]["soundEnd"] = 0 /\ pending[i]["listen"] = 0
      /\ pending[i]["listened"] = 0
  BY <1>1, CountsTyped DEF MonitorsInv, ChainInv, Due, RunSound
<1>3. pending' = Posted(Taken(i, "sound"), i, {"listen", "soundEnd"})
  BY DEF RunSound
<1>4. /\ pending' \in [Instances -> [Kinds -> 0..1]]
      /\ \A j \in Instances : j # i => pending'[j] = pending[j]
      /\ \A l \in Kinds : l \notin {"sound", "soundEnd", "listen"} =>
                            pending'[i][l] = pending[i][l]
      /\ pending'[i]["sound"] = 0
      /\ pending'[i]["soundEnd"] = IF sc = NoInstance THEN 0 ELSE 1
      /\ pending'[i]["listen"] = IF sc = NoInstance THEN 0 ELSE 1
  BY <1>1, <1>2, <1>3, HandedOn
<1>5. /\ listener' \in [Instances -> BOOLEAN] /\ listener'[i]
      /\ \A j \in Instances : j # i => listener'[j] = listener[j]
  BY <1>1 DEF RunSound, Assigned, TypeOK
<1>6. UNCHANGED <<sc, listening, recording, failed, late>>
  BY DEF RunSound
<1>7. TypeOK'
  BY <1>1, <1>4, <1>5, <1>6 DEF TypeOK
<1>8. ChainInv(i)'
  BY <1>2, <1>4, <1>5, <1>6 DEF MonitorsInv, ChainInv, Kinds
<1>9. i = sc => ChainsGoOn'
  BY <1>4, <1>6, MonitorsAssumption DEF MonitorsInv, ChainsGoOn, Kinds
<1>10. ListenerThere'
  BY <1>6 DEF MonitorsInv, ListenerThere
<1> QED
  BY <1>4, <1>5, <1>6, <1>7, <1>8, <1>9, <1>10, RunKeeps

(* The listener is ended wherever it is queued.                            *)
LEMMA EndedCounts ==
  ASSUME NEW queued \in [Instances -> [Kinds -> 0..1]], NEW i \in Instances,
         queued[i]["listen"] + queued[i]["listened"] <= 1
  PROVE  /\ Ended(queued, i) \in [Instances -> [Kinds -> 0..1]]
         /\ \A j \in Instances : j # i => Ended(queued, i)[j] = queued[j]
         /\ \A l \in Kinds \ {"listen", "listened"} : Ended(queued, i)[i][l] = queued[i][l]
         /\ Ended(queued, i)[i]["listen"] = 0
         /\ Ended(queued, i)[i]["listened"] = queued[i]["listened"] + queued[i]["listen"]
<1>1. {"listen", "listened"} \subseteq Kinds
  BY DEF Kinds
<1>2. queued[i]["listen"] \in 0..1 /\ queued[i]["listened"] \in 0..1
  BY <1>1
<1>3. queued[i]["listened"] + queued[i]["listen"] \in 0..1
  BY <1>2
<1> QED
  BY <1>1, <1>2, <1>3 DEF Ended

(* The end finds the listener, ends it, and the next interval follows.     *)
LEMMA RunSoundEndKeeps ==
  ASSUME MonitorsInv, NEW i \in Instances, RunSoundEnd(i)
  PROVE  MonitorsInv'
<1> DEFINE taken == Taken(i, "soundEnd")
           ended == Ended(taken, i)
           kinds == {"sound"}
<1>1. /\ TypeOK /\ {"sound", "soundEnd", "listen", "listened"} \subseteq Kinds
      /\ Due(i, "soundEnd")
  BY DEF MonitorsInv, RunSoundEnd, Kinds
<1>2. /\ pending[i]["sound"] = 0 /\ pending[i]["soundEnd"] = 1
      /\ pending[i]["listen"] + pending[i]["listened"] <= 1
      /\ listener[i]
  BY <1>1, CountsTyped DEF MonitorsInv, ChainInv, Due
<1>3. /\ taken \in [Instances -> [Kinds -> 0..1]]
      /\ \A j \in Instances : j # i => taken[j] = pending[j]
      /\ \A l \in Kinds : taken[i][l] = IF l = "soundEnd" THEN 0 ELSE pending[i][l]
  BY <1>1, TakenCounts
<1> HIDE DEF taken
<1>4. /\ ended \in [Instances -> [Kinds -> 0..1]]
      /\ \A j \in Instances : j # i => ended[j] = pending[j]
      /\ \A l \in Kinds : l \notin {"soundEnd", "listen", "listened"} =>
                            ended[i][l] = pending[i][l]
      /\ ended[i]["soundEnd"] = 0 /\ ended[i]["listen"] = 0
      /\ ended[i]["listened"] = pending[i]["listened"] + pending[i]["listen"]
  <2>1. taken[i]["listen"] + taken[i]["listened"] <= 1
    BY <1>1, <1>2, <1>3
  <2>2. /\ ended \in [Instances -> [Kinds -> 0..1]]
        /\ \A j \in Instances : j # i => ended[j] = taken[j]
        /\ \A l \in Kinds \ {"listen", "listened"} : ended[i][l] = taken[i][l]
        /\ ended[i]["listen"] = 0
        /\ ended[i]["listened"] = taken[i]["listened"] + taken[i]["listen"]
    BY <1>3, <2>1, EndedCounts
  <2> QED
    BY <1>1, <1>3, <2>2
<1>5. pending' = IF Active(i) THEN Posted(ended, i, kinds) ELSE ended
  BY DEF RunSoundEnd, taken
<1> HIDE DEF ended
<1>6. /\ pending' \in [Instances -> [Kinds -> 0..1]]
      /\ \A j \in Instances : j # i => pending'[j] = pending[j]
      /\ \A l \in Kinds : l # "sound" => pending'[i][l] = ended[i][l]
      /\ pending'[i]["sound"] = IF i = sc THEN 1 ELSE 0
  <2>1. kinds \in SUBSET Kinds /\ "sound" \in kinds /\ \A l \in kinds : l = "sound"
    BY <1>1
  <2>2. \A l \in kinds : ended[i][l] = 0
    BY <1>1, <1>2, <1>4, <2>1
  <2> HIDE DEF kinds
  <2>3. CASE Active(i)
    <3>1. sc = i /\ sc # NoInstance /\ pending' = Posted(ended, i, kinds)
      BY <1>5, <2>3, MonitorsAssumption DEF Active
    <3> QED
      BY <1>1, <1>4, <2>1, <2>2, <3>1, PostedCounts
  <2>4. CASE ~Active(i)
    <3>1. sc # i /\ pending' = ended
      BY <1>5, <2>4 DEF Active
    <3> QED
      BY <1>1, <1>2, <1>4, <3>1
  <2> QED
    BY <2>3, <2>4
<1>7. /\ listener' \in [Instances -> BOOLEAN]
      /\ \A j \in Instances : j # i => listener'[j] = listener[j]
  BY <1>1 DEF RunSoundEnd, TypeOK
<1>8. UNCHANGED <<sc, listening, recording, late>> /\ failed' = FALSE
  BY <1>2 DEF RunSoundEnd, MonitorsInv, ListenerThere
<1>9. TypeOK'
  BY <1>1, <1>6, <1>7, <1>8 DEF TypeOK
<1>10. ChainInv(i)'
  BY <1>1, <1>2, <1>4, <1>6, <1>8 DEF MonitorsInv, ChainInv, Kinds
<1>11. i = sc => ChainsGoOn'
  BY <1>1, <1>4, <1>6, <1>8 DEF MonitorsInv, ChainsGoOn, Kinds
<1>12. ListenerThere'
  BY <1>8 DEF ListenerThere
<1> QED
  BY <1>6, <1>7, <1>8, <1>9, <1>10, <1>11, <1>12, RunKeeps

(* The sound is sampled as long as there is a handler.                     *)
LEMMA RunListenKeeps ==
  ASSUME MonitorsInv, NEW i \in Instances, RunListen(i)
  PROVE  MonitorsInv'
<1> DEFINE kinds == {"listen"}
<1>1. TypeOK /\ {"listen", "soundEnd"} \subseteq Kinds /\ Due(i, "listen")
  BY DEF MonitorsInv, RunListen, Kinds
<1>2. pending[i]["listen"] = 1 /\ pending[i]["soundEnd"] = 1
  BY <1>1, CountsTyped DEF MonitorsInv, ChainInv, Due
<1>3. pending' = Posted(Taken(i, "listen"), i, kinds)
  BY DEF RunListen
<1>4. kinds \in SUBSET Kinds /\ "listen" \in kinds /\ \A l \in kinds : l = "listen"
  BY <1>1
<1> HIDE DEF kinds
<1>5. /\ pending' \in [Instances -> [Kinds -> 0..1]]
      /\ \A j \in Instances : j # i => pending'[j] = pending[j]
      /\ \A l \in Kinds : l # "listen" => pending'[i][l] = pending[i][l]
      /\ pending'[i]["listen"] = IF sc = NoInstance THEN 0 ELSE 1
  BY <1>1, <1>3, <1>4, HandedOn
<1>6. UNCHANGED <<sc, listening, listener, recording, failed, late>>
  BY DEF RunListen
<1>7. TypeOK'
  BY <1>1, <1>5, <1>6 DEF TypeOK
<1>8. ChainInv(i)'
  BY <1>2, <1>5, <1>6 DEF MonitorsInv, ChainInv, Kinds
<1>9. i = sc => ChainsGoOn'
  BY <1>2, <1>5, <1>6, MonitorsAssumption DEF MonitorsInv, ChainsGoOn, Kinds
<1>10. ListenerThere'
  BY <1>6 DEF MonitorsInv, ListenerThere
<1> QED
  BY <1>5, <1>6, <1>7, <1>8, <1>9, <1>10, RunKeeps

(* A listener that was ended does nothing.                                 *)
LEMMA RunListenedKeeps ==
  ASSUME MonitorsInv, NEW i \in Instances, RunListened(i)
  PROVE  MonitorsInv'
<1>1. TypeOK /\ "listened" \in Kinds /\ Due(i, "listened")
  BY DEF MonitorsInv, RunListened, Kinds
<1>2. /\ pending' \in [Instances -> [Kinds -> 0..1]]
      /\ \A j \in Instances : j # i => pending'[j] = pending[j]
      /\ \A l \in Kinds : pending'[i][l] = IF l = "listened" THEN 0 ELSE pending[i][l]
  BY <1>1, TakenCounts DEF RunListened
<1>3. UNCHANGED <<sc, listening, listener, recording, failed, late>>
  BY DEF RunListened
<1>4. TypeOK'
  BY <1>1, <1>2, <1>3 DEF TypeOK
<1>5. ChainInv(i)'
  <2>1. pending[i]["listen"] \in 0..1 /\ pending[i]["listened"] \in 0..1
    BY <1>1, CountsTyped DEF Kinds
  <2> QED
    BY <1>2, <1>3, <2>1 DEF MonitorsInv, ChainInv, Kinds
<1>6. i = sc => ChainsGoOn'
  BY <1>2, <1>3 DEF MonitorsInv, ChainsGoOn, Kinds
<1>7. ListenerThere'
  BY <1>3 DEF MonitorsInv, ListenerThere
<1> QED
  BY <1>2, <1>3, <1>4, <1>5, <1>6, <1>7, RunKeeps

(* Everything starts anew.                                                 *)
LEMMA KillKeeps ==
  ASSUME Kill
  PROVE  MonitorsInv'
<1>1. None \in [Kinds -> 0..1] /\ \A k \in Kinds : None[k] = 0
  BY DEF None
<1>2. TypeOK'
  <2>1. pending' \in [Instances -> [Kinds -> 0..1]] /\ listening' \in [Instances -> 0..1]
    BY <1>1 DEF Kill
  <2>2. /\ listener' \in [Instances -> BOOLEAN]
        /\ recording' \in [Instances -> BOOLEAN]
        /\ late' \in [Instances -> BOOLEAN]
    BY DEF Kill
  <2> QED
    BY <2>1, <2>2 DEF Kill, TypeOK
<1>3. ASSUME NEW i \in Instances PROVE ChainInv(i)'
  <2>1. (\A k \in Kinds : pending'[i][k] = 0) /\ listening'[i] = 0
    BY <1>1 DEF Kill
  <2> QED
    BY <2>1 DEF ChainInv, Kinds
<1>4. ChainsGoOn' /\ ListenerThere'
  BY DEF Kill, ChainsGoOn, ListenerThere
<1> QED
  BY <1>2, <1>3, <1>4 DEF MonitorsInv

-----------------------------------------------------------------------------
(* Theorems                                                                *)

(* MonitorsInv is an invariant of the monitors.                            *)
THEOREM MonitorsInvariance == Spec => []MonitorsInv
<1>1. Init => MonitorsInv
  BY InitMonitorsInv
<1>2. MonitorsInv /\ [Next]_vars => MonitorsInv'
  <2> SUFFICES ASSUME MonitorsInv, [Next]_vars PROVE MonitorsInv'
    OBVIOUS
  <2>1. ASSUME NEW i \in Instances, Bind(i) PROVE MonitorsInv'
    BY <2>1, BindKeeps
  <2>2. ASSUME NEW i \in Instances,
               RunPush(i) \/ RunMotion(i) \/ RunMotionEnd(i) \/ RunSound(i)
                 \/ RunSoundEnd(i) \/ RunListen(i) \/ RunListened(i)
        PROVE  MonitorsInv'
    BY <2>2, RunPushKeeps, RunMotionKeeps, RunMotionEndKeeps, RunSoundKeeps,
       RunSoundEndKeeps, RunListenKeeps, RunListenedKeeps
  <2>3. CASE Unbind
    BY <2>3, UnbindKeeps
  <2>4. CASE Kill
    BY <2>4, KillKeeps
  <2>5. CASE UNCHANGED vars
    BY <2>5 DEF vars, MonitorsInv, TypeOK, ChainsGoOn, ListenerThere, ChainInv
  <2> QED
    BY <2>1, <2>2, <2>3, <2>4, <2>5 DEF Next
<1> QED
  BY <1>1, <1>2, PTL DEF Spec

(* Every count stays at 0 or 1: no chain is ever doubled, whatever was     *)
(* left behind by a service that is gone (SoundContext.java:77).           *)
THEOREM MonitorsTypeCorrect == Spec => []TypeOK
<1>1. MonitorsInv => TypeOK
  BY DEF MonitorsInv
<1> QED
  BY <1>1, MonitorsInvariance, PTL

(* While the service is bound each chain has exactly one runnable queued   *)
(* (WifiContext.java:47).                                                  *)
THEOREM ChainsNeverStop == Spec => []ChainsGoOn
<1>1. MonitorsInv => ChainsGoOn
  BY DEF MonitorsInv
<1> QED
  BY <1>1, MonitorsInvariance, PTL

(* The runnable that ends a sound listener finds one.                      *)
THEOREM ListenerAlwaysThere == Spec => []ListenerThere
<1>1. MonitorsInv => ListenerThere
  BY DEF MonitorsInv
<1> QED
  BY <1>1, MonitorsInvariance, PTL

(* A sensor listener is left behind only by a motion monitor that ran      *)
(* without a service (MotionContext.java:66).                              *)
THEOREM ListenersAllEnd == Spec => []ListenersEnd
<1>1. MonitorsInv => ListenersEnd
  BY DEF MonitorsInv, ChainInv, ListenersEnd
<1> QED
  BY <1>1, MonitorsInvariance, PTL
=============================================================================
