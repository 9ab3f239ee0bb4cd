----------------------------- MODULE EngineProofs -----------------------------
(***************************************************************************)
(* Proofs, for any set of lists and any number of changes and failures,    *)
(* that the engine keeps its types and loses no wake-up.                   *)
(***************************************************************************)
EXTENDS Engine, TLAPS

USE DEF Source, Of, sources, socket, loop, signals, rest, Fail, CallFails

(* A trigger is never taken back by another one. *)
LEMMA TriggerKeeps ==
    ASSUME NEW reason \in {"startup", "icloud", "home_assistant", "recovery"},
           TypeOK, Trigger(reason)
    PROVE  /\ slot' \in {"startup", "icloud", "home_assistant", "recovery"}
           /\ slot # "none" => slot' = slot
BY DEF TypeOK, Trigger

(* What passes have still to settle is a number for each list, however the pass
   ends, and only changes by users make or cure a refusal. *)
LEMMA SidesStep ==
    ASSUME TypeOK, [Next]_vars
    PROVE  SidesOK'
<1> USE EngineAssumption DEF EngineAssumption, SidesOK, sides
<1>1. SidesOK
  BY DEF TypeOK
<1>2. CASE UNCHANGED sides
  BY <1>1, <1>2
<1>3. CASE User
  <2>1. PICK l \in Lists : ChangeReminders(l) \/ ChangeItems(l)
    BY <1>3 DEF User
  <2>2. refused' \subseteq Lists
    BY <1>1, <2>1 DEF ChangeReminders, ChangeItems
  <2>3. UNCHANGED unsettled
    BY <1>3 DEF User
  <2>4. QED BY <1>1, <2>2, <2>3
<1>4. ASSUME NEW l \in Lists, Reconcile(l) PROVE SidesOK'
  <2>1. unsettled[l] \in 0 .. Settling
    BY <1>1
  <2>2. PassesLeft(l) \in 0 .. Settling
    BY <2>1 DEF PassesLeft
  <2>3. \/ unsettled' = [unsettled EXCEPT ![l] = PassesLeft(l)]
        \/ UNCHANGED unsettled
    BY <1>4 DEF Reconcile
  <2>4. UNCHANGED refused
    BY <1>4 DEF Reconcile
  <2>5. QED BY <1>1, <2>2, <2>3, <2>4
<1>5. ASSUME Next, ~User, \A l \in Lists : ~Reconcile(l)
      PROVE  UNCHANGED sides
  <2>1. CASE Subscription
    BY <2>1 DEF Subscription, Dial, Subscribe, Notice, EndSubscription,
                Answer, ReadEvent
  <2>2. CASE Run
    BY <1>5, <2>2 DEF Run, StartWatching, SelectTick, SelectTrigger, FetchAll,
                      EndPass, GetItems, Ended
  <2>3. CASE ReadSignal \/ SelectDone \/ Start
    BY <2>3 DEF ReadSignal, SelectDone, Start, Ended
  <2>4. CASE Sever \/ Tick \/ Cancel \/ Crash
    BY <2>4 DEF Sever, Tick, Cancel, Crash, Ended
  <2>5. QED BY <1>5, <2>1, <2>2, <2>3, <2>4 DEF Next
<1>6. CASE UNCHANGED vars
  BY <1>2, <1>6 DEF vars
<1>7. QED
  BY <1>2, <1>3, <1>4, <1>5, <1>6

(* The end of the process resets what it held, and forgets no change. *)
LEMMA EndedTyped ==
    ASSUME TypeOK, SidesOK', Ended, UNCHANGED changes, failures' \in Nat
    PROVE  TypeOK'
<1> USE DEF Ended
<1>1. unread' \subseteq Source /\ taken' = {} /\ missed' = {}
  BY DEF TypeOK
<1>2. notified' = FALSE /\ tick' = FALSE /\ cancelled' = FALSE
  OBVIOUS
<1>3. conn' = "over" /\ slot' = "none" /\ pc' = "stopped" /\ backoff' = 1
  OBVIOUS
<1>4. subs' = {} /\ wire' = {} /\ todo' = {} /\ cur' = {}
  OBVIOUS
<1>5. changes' \in Nat
  BY DEF TypeOK
<1> HIDE DEF Ended
<1>6. QED
  BY <1>1, <1>2, <1>3, <1>4, <1>5 DEF TypeOK

LEMMA TypeStep ==
    ASSUME TypeOK, [Next]_vars
    PROVE  TypeOK'
<1> USE EngineAssumption DEF EngineAssumption
<1>0. SidesOK'
  BY SidesStep
<1>1. CASE User
  <2>1. PICK l \in Lists : ChangeReminders(l) \/ ChangeItems(l)
    BY <1>1 DEF User
  <2>2. <<"icloud", l>> \in Source /\ <<"ha", l>> \in Source
    OBVIOUS
  <2>3. CASE ChangeReminders(l)
    BY <1>0, <1>1, <2>2, <2>3 DEF User, ChangeReminders, Watching, TypeOK
  <2>4. CASE ChangeItems(l)
    BY <1>0, <1>1, <2>2, <2>4 DEF User, ChangeItems, TypeOK
  <2>5. QED BY <2>1, <2>3, <2>4
<1>2. CASE Sever
  <2>1. {"ha"} \X wire \subseteq Source
    BY DEF TypeOK
  <2>2. QED BY <1>0, <1>2, <2>1 DEF Sever, TypeOK
<1>3. CASE Tick
  BY <1>0, <1>3 DEF Tick, TypeOK
<1>4. CASE Cancel
  BY <1>0, <1>4 DEF Cancel, TypeOK
<1>5. CASE Crash
  BY <1>0, <1>5, EndedTyped DEF Crash, TypeOK
<1>6. CASE Start
  BY <1>0, <1>6 DEF Start, TypeOK
<1>7. CASE Subscription
  <2> USE DEF Disconnected, Double
  <2>1. CASE Dial BY <1>0, <2>1 DEF Dial, TypeOK
  <2>2. CASE Subscribe BY <1>0, <2>2 DEF Subscribe, TypeOK
  <2>3. CASE Notice BY <1>0, <2>3 DEF Notice, TypeOK
  <2>4. CASE EndSubscription BY <1>0, <2>4 DEF EndSubscription, TypeOK
  <2>5. ASSUME NEW l \in Lists, Answer(l) PROVE TypeOK'
    BY <1>0, <2>5 DEF Answer, TypeOK
  <2>6. ASSUME NEW l \in Lists, ReadEvent(l) PROVE TypeOK'
    BY <1>0, <2>6 DEF ReadEvent, Trigger, TypeOK
  <2>7. QED BY <1>7, <2>1, <2>2, <2>3, <2>4, <2>5, <2>6 DEF Subscription
<1>8. CASE ReadSignal
  <2>1. slot' \in {"none", "startup", "icloud", "home_assistant", "recovery"}
    BY <1>0, <1>8 DEF ReadSignal, Trigger, TypeOK
  <2>2. notified' \in BOOLEAN
    BY <1>8 DEF ReadSignal
  <2> QED
    BY <1>0, <1>8, <2>1, <2>2 DEF ReadSignal, TypeOK
<1>9. CASE Run
  <2>1. CASE StartWatching
    <3>1. CASE Ended /\ Fail
      BY <1>0, <2>1, <3>1, EndedTyped DEF StartWatching, TypeOK
    <3>2. CASE ~(Ended /\ Fail)
      BY <1>0, <2>1, <3>2 DEF StartWatching, Trigger, TypeOK
    <3>3. QED BY <3>1, <3>2
  <2>2. CASE SelectTick
    BY <1>0, <2>2 DEF SelectTick, Recover, Trigger, TypeOK
  <2>3. CASE SelectTrigger
    BY <1>0, <2>3 DEF SelectTrigger, TypeOK
  <2>4. CASE FetchAll
    BY <1>0, <2>4 DEF FetchAll, TypeOK
  <2>5. CASE EndPass
    BY <1>0, <2>5 DEF EndPass, KeepTriggers, TypeOK
  <2>6. ASSUME NEW l \in Lists, GetItems(l) PROVE TypeOK'
    BY <1>0, <2>6 DEF GetItems, GiveUp, TypeOK
  <2>7. ASSUME NEW l \in Lists, Reconcile(l) PROVE TypeOK'
    BY <1>0, <2>7 DEF Reconcile, Writes, GiveUp, TypeOK
  <2>8. QED BY <1>9, <2>1, <2>2, <2>3, <2>4, <2>5, <2>6, <2>7 DEF Run
<1>10. CASE SelectDone
  BY <1>0, <1>10, EndedTyped DEF SelectDone, TypeOK
<1>11. CASE UNCHANGED vars
  BY <1>0, <1>11 DEF vars, TypeOK
<1>12. QED
  BY <1>1, <1>2, <1>3, <1>4, <1>5, <1>6, <1>7, <1>8, <1>9, <1>10, <1>11
  DEF Next

(* Every variable of the engine keeps its type; the delay before a
   reconnection stays one of the six that doubling from one second gives. *)
THEOREM EngineTyped == Spec => []TypeOK
<1>1. Init => TypeOK
  <2> SUFFICES ASSUME Init PROVE TypeOK
    OBVIOUS
  <2>1. /\ unread = {} /\ taken = {} /\ missed = {}
        /\ subs = {} /\ wire = {} /\ todo = {} /\ cur = {}
    BY DEF Init
  <2>2. /\ notified = FALSE /\ tick = FALSE /\ cancelled = FALSE
        /\ conn = "over" /\ slot = "none" /\ pc = "stopped" /\ backoff = 1
        /\ changes = 0 /\ failures = 0
    BY DEF Init
  <2>3. SidesOK
    BY EngineAssumption DEF EngineAssumption, Init, SidesOK
  <2>4. QED BY <2>1, <2>2, <2>3 DEF TypeOK
<1>2. QED
  BY <1>1, TypeStep, PTL DEF Spec

(* One step loses no wake-up. *)
LEMMA WakeUpStep ==
    ASSUME TypeOK, NoWakeUpLost, [Next]_vars
    PROVE  NoWakeUpLost'
<1> USE DEF NoWakeUpLost, Announced
<1>1. CASE User
  <2>1. PICK l \in Lists : ChangeReminders(l) \/ ChangeItems(l)
    BY <1>1 DEF User
  <2>2. UNCHANGED <<pc, slot, todo>>
    BY <1>1 DEF User
  <2>3. CASE ChangeReminders(l)
    <3>1. notified' \/ pc' \in {"stopped", "start"}
      BY <2>2, <2>3, Zenon DEF ChangeReminders, Watching
    <3>2. \A s \in unread' : s \in unread \/ s[1] = "icloud"
      BY <2>3 DEF ChangeReminders
    <3>3. UNCHANGED <<wire, missed>>
      BY <2>3 DEF ChangeReminders
    <3>4. CASE notified'
      BY <2>2, <3>2, <3>3, <3>4
    <3>5. CASE pc' \in {"stopped", "start"}
      BY <3>5
    <3>6. QED BY <3>1, <3>4, <3>5
  <2>4. CASE ChangeItems(l)
    BY <2>2, <2>4 DEF ChangeItems, TypeOK
  <2>5. QED BY <2>1, <2>3, <2>4
<1>2. CASE Sever
  BY <1>2 DEF Sever, TypeOK
<1>3. CASE Tick
  BY <1>3 DEF Tick
<1>4. CASE Cancel
  BY <1>4 DEF Cancel
<1>5. CASE Crash
  BY <1>5 DEF Crash, Ended
<1>6. CASE Start
  BY <1>6 DEF Start
<1>7. CASE Subscription
  <2> USE DEF Disconnected
  <2>1. CASE Dial BY <2>1 DEF Dial, TypeOK
  <2>2. CASE Subscribe BY <2>2 DEF Subscribe, TypeOK
  <2>3. CASE Notice BY <2>3 DEF Notice, TypeOK
  <2>4. CASE EndSubscription BY <2>4 DEF EndSubscription, TypeOK
  <2>5. ASSUME NEW l \in Lists, Answer(l) PROVE NoWakeUpLost'
    BY <2>5 DEF Answer, TypeOK
  <2>6. ASSUME NEW l \in Lists, ReadEvent(l) PROVE NoWakeUpLost'
    <3>1. slot' # "none" BY <2>6, TriggerKeeps DEF ReadEvent
    <3>2. QED BY <3>1
  <2>7. QED BY <1>7, <2>1, <2>2, <2>3, <2>4, <2>5, <2>6 DEF Subscription
<1>8. CASE ReadSignal
  <2>1. slot' # "none" BY <1>8, TriggerKeeps DEF ReadSignal
  <2>2. QED BY <2>1
<1>9. CASE Run
  <2>1. CASE StartWatching
    BY <2>1, TriggerKeeps DEF StartWatching, Ended
  <2>2. CASE SelectTick
    BY <2>2, TriggerKeeps DEF SelectTick, Recover
  <2>3. CASE SelectTrigger
    BY <2>3 DEF SelectTrigger
  <2>4. CASE FetchAll
    BY <2>4 DEF FetchAll, TypeOK
  <2>5. CASE EndPass
    BY <2>5 DEF EndPass, KeepTriggers
  <2>6. ASSUME NEW l \in Lists, GetItems(l) PROVE NoWakeUpLost'
    BY <2>6 DEF GetItems, GiveUp, TypeOK
  <2>7. ASSUME NEW l \in Lists, Reconcile(l) PROVE NoWakeUpLost'
    BY <2>7 DEF Reconcile, GiveUp, TypeOK
  <2>8. QED BY <1>9, <2>1, <2>2, <2>3, <2>4, <2>5, <2>6, <2>7 DEF Run
<1>10. CASE SelectDone
  BY <1>10 DEF SelectDone, Ended
<1>11. CASE UNCHANGED vars
  BY <1>11 DEF vars
<1>12. QED
  BY <1>1, <1>2, <1>3, <1>4, <1>5, <1>6, <1>7, <1>8, <1>9, <1>10, <1>11
  DEF Next

(* No wake-up is lost: triggers that fall together in the channel, a pass that
   fails, a connection that drops, a crash, a shutdown - a change that was not
   read is announced by something, or nothing could announce it. *)
THEOREM WakeUpsKept == Spec => []NoWakeUpLost
<1>1. Init => NoWakeUpLost
  BY DEF Init, NoWakeUpLost
<1>2. QED
  BY <1>1, WakeUpStep, EngineTyped, PTL DEF Spec
===============================================================================
