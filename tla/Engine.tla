-------------------------------- MODULE Engine --------------------------------
(***************************************************************************)
(* When passes run: Engine.Run of internal/sync/engine.go with the two     *)
(* change streams it listens to - EventKit notifications, and the Home     *)
(* Assistant subscription of internal/homeassistant/adapter.go, with its   *)
(* reconnect loop - the recovery ticker, shutdown, and the restart by      *)
(* launchd.                                                                *)
(*                                                                         *)
(* A pass is seen here as reads and writes of the two sides of each list:  *)
(* what it does with what it read is the subject of Reconciler.            *)
(***************************************************************************)
EXTENDS Naturals

CONSTANTS
    Lists,         \* the configured lists, each mapped to one HA entity
    Shared,        \* lists shared with others: their items have assignees
    Settling,      \* passes after the one that read a change which may write
    MaxChanges,    \* bound: changes users make
    MaxFailures    \* bound: failed calls, lost connections, crashes, stops

Source == {"icloud", "ha"} \X Lists
Of(l)  == {<<"icloud", l>>, <<"ha", l>>}

ASSUME EngineAssumption ==
    /\ Shared \subseteq Lists
    /\ {Settling, MaxChanges, MaxFailures} \subseteq Nat

VARIABLES
    unread,     \* sources changed by users since a pass last read them
    taken,      \* changed sources the running pass has read, not yet handled
    unsettled,  \* passes over each list that may still find a difference
    refused,    \* lists with an item whose assignee iCloud refuses
    notified,   \* an EventKit change signal waits to be received
    conn,       \* the subscription: down, dialled, reading, lost, or over
    subs,       \* entities HA sends events for
    wire,       \* entities whose events wait to be read
    backoff,    \* seconds to wait after the next disconnection
    slot,       \* the channel triggers, of capacity one: its reason, or "none"
    tick,       \* ticker.C, of capacity one
    pc,         \* where Run stands
    todo,       \* lists the running pass has still to visit
    cur,        \* a set: the list the pass is reconciling
    cancelled,  \* ctx is cancelled
    missed,     \* history: changes no signal will announce (any more)
    changes,    \* changes so far
    failures    \* failures so far

sides   == <<unsettled, refused>>
sources == <<unread, taken, missed, sides>>
socket  == <<conn, subs, wire, backoff>>
loop    == <<pc, todo, cur>>
vars    == <<sources, notified, socket, slot, tick, loop, cancelled,
             changes, failures>>

SidesOK == unsettled \in [Lists -> 0 .. Settling] /\ refused \subseteq Lists

TypeOK ==
    /\ SidesOK
    /\ unread \subseteq Source /\ taken \subseteq Source
    /\ missed \subseteq Source
    /\ notified \in BOOLEAN /\ tick \in BOOLEAN /\ cancelled \in BOOLEAN
    /\ conn \in {"down", "dialled", "reading", "lost", "over"}
    /\ subs \subseteq Lists /\ wire \subseteq Lists
    /\ backoff \in {1, 2, 4, 8, 16, 32}
    /\ slot \in {"none", "startup", "icloud", "home_assistant", "recovery"}
    /\ pc \in {"stopped", "start", "select", "fetch", "lists", "write"}
    /\ todo \subseteq Lists /\ cur \subseteq Lists
    /\ changes \in Nat /\ failures \in Nat

Init ==
    /\ unread = {}
    /\ taken = {} /\ missed = {}
    /\ unsettled = [l \in Lists |-> 0] /\ refused = {}
    /\ notified = FALSE
    /\ conn = "over" /\ subs = {} /\ wire = {} /\ backoff = 1
    /\ slot = "none" /\ tick = FALSE
    /\ pc = "stopped" /\ todo = {} /\ cur = {}
    /\ cancelled = FALSE
    /\ changes = 0 /\ failures = 0

Fail == failures < MaxFailures /\ failures' = failures + 1

(* Every call fails once the context is cancelled. *)
CallFails == Fail \/ (cancelled /\ UNCHANGED failures)

(* trigger: a send that gives up when the channel is full. *)
(* Mutant: the channel has no buffer. *)
TriggerUnbuffered(reason) ==
    slot' = IF slot = "none" /\ pc = "select" THEN reason ELSE slot

Trigger(reason) == slot' = IF slot = "none" THEN reason ELSE slot

(* The process ends; what it had read and not handled is as good as unread. *)
Ended ==
    /\ UNCHANGED sides
    /\ unread' = unread \cup taken /\ taken' = {} /\ missed' = {}
    /\ notified' = FALSE
    /\ conn' = "over" /\ subs' = {} /\ wire' = {} /\ backoff' = 1
    /\ slot' = "none" /\ tick' = FALSE
    /\ pc' = "stopped" /\ todo' = {} /\ cur' = {}
    /\ cancelled' = FALSE

-------------------------------------------------------------------------------
(***************************************************************************)
(* Users.  A change on iCloud raises a signal once WatchChanges is on; a   *)
(* change in HA is sent to whoever is subscribed at that moment.           *)
(***************************************************************************)
Watching == pc \notin {"stopped", "start"}

ChangeReminders(l) ==
    /\ unread' = unread \cup {<<"icloud", l>>}
    /\ notified' = Watching
    /\ refused' = refused \ {l}
    /\ UNCHANGED <<wire, missed>>

ChangeItems(l) ==
    /\ unread' = unread \cup {<<"ha", l>>}
    /\ IF l \in subs
       THEN wire' = wire \cup {l} /\ UNCHANGED missed
       ELSE missed' = missed \cup {<<"ha", l>>} /\ UNCHANGED wire
    /\ refused' \in {refused \cup ({l} \cap Shared), refused \ {l}}
    /\ UNCHANGED notified

User ==
    /\ changes < MaxChanges /\ changes' = changes + 1
    /\ \E l \in Lists : ChangeReminders(l) \/ ChangeItems(l)
    /\ UNCHANGED <<taken, unsettled, conn, subs, backoff, slot, tick, loop, cancelled,
                   failures>>

(***************************************************************************)
(* The subscription goroutine: SubscribeChanges around                     *)
(* subscribeTodoItemsOnce.                                                 *)
(***************************************************************************)
(* Mutant: the delay grows faster. *)
Triple(b) == IF b < 30 THEN 3 * b ELSE b

Double(b) == IF b < 30 THEN 2 * b ELSE b

(* subscribeTodoItemsOnce has returned an error: wait, then dial again.  What
   was on the wire is lost. *)
(* Mutant: the error ends the subscription. *)
DisconnectedForGood ==
    /\ conn' = "over" /\ subs' = {} /\ wire' = {}
    /\ missed' = missed \cup ({"ha"} \X wire)
    /\ UNCHANGED backoff

Disconnected ==
    /\ conn' = "down" /\ subs' = {} /\ wire' = {}
    /\ missed' = missed \cup ({"ha"} \X wire)
    /\ backoff' = Double(backoff)

rest == <<unread, taken, sides, notified, tick, loop, cancelled, changes>>

(* dialAndAuthenticate *)
Dial ==
    /\ conn = "down" /\ ~cancelled
    /\ \/ /\ conn' = "dialled"
          /\ UNCHANGED <<subs, wire, backoff, missed, failures>>
       \/ Disconnected /\ Fail
    /\ UNCHANGED <<rest, slot>>

(* All requests are written before anything is read. *)
Subscribe ==
    /\ conn = "dialled"
    /\ \/ /\ conn' = "reading"
          /\ UNCHANGED <<subs, wire, backoff, missed, failures>>
       \/ Disconnected /\ Fail
    /\ UNCHANGED <<rest, slot>>

(* HA answers the request for one entity; a refusal ends the connection. *)
Answer(l) ==
    /\ conn = "reading"
    /\ l \notin subs
    /\ \/ subs' = subs \cup {l}
          /\ UNCHANGED <<conn, wire, backoff, missed, failures>>
       \/ Disconnected /\ Fail
    /\ UNCHANGED <<rest, slot>>

(* An event is read, and its callback runs. *)
ReadEvent(l) ==
    /\ conn = "reading"
    /\ l \in wire
    /\ wire' = wire \ {l}
    /\ Trigger("home_assistant")
    /\ UNCHANGED <<rest, conn, subs, backoff, missed, failures>>

(* HA or the network is gone: events are lost from here on, ... *)
Sever ==
    /\ conn = "reading"
    /\ Fail
    /\ conn' = "lost" /\ subs' = {} /\ wire' = {}
    /\ missed' = missed \cup ({"ha"} \X wire)
    /\ UNCHANGED <<rest, slot, backoff>>

(* ... and the read fails some time later. *)
Notice ==
    /\ conn = "lost"
    /\ Disconnected
    /\ UNCHANGED <<rest, slot, failures>>

(* The context is cancelled: the connection is closed, the loop returns. *)
EndSubscription ==
    /\ cancelled /\ conn # "over"
    /\ conn' = "over" /\ subs' = {} /\ wire' = {}
    /\ missed' = missed \cup ({"ha"} \X wire)
    /\ UNCHANGED <<rest, slot, backoff, failures>>

Subscription ==
    \/ Dial \/ Subscribe \/ Notice \/ EndSubscription
    \/ \E l \in Lists : Answer(l) \/ ReadEvent(l)

(* The EventKit goroutine: one signal, without a diff, becomes a trigger. *)
ReadSignal ==
    /\ notified
    /\ notified' = FALSE
    /\ Trigger("icloud")
    /\ UNCHANGED <<sources, socket, tick, loop, cancelled, changes, failures>>

-------------------------------------------------------------------------------
(***************************************************************************)
(* Engine.Run.                                                             *)
(***************************************************************************)
signals == <<notified, socket>>

(* launchd starts the process; Run starts the subscription goroutine. *)
Start ==
    /\ pc = "stopped"
    /\ pc' = "start" /\ conn' = "down"
    /\ UNCHANGED <<sources, notified, subs, wire, backoff, slot, tick, todo,
                   cur, cancelled, changes, failures>>

(* WatchChanges, and the first trigger; without EventKit Run returns. *)
StartWatching ==
    /\ pc = "start"
    /\ \/ /\ pc' = "select"
          /\ Trigger("startup")
          /\ UNCHANGED <<sources, signals, tick, todo, cur, cancelled,
                         failures>>
       \/ Ended /\ Fail
    /\ UNCHANGED changes

(* Mutant: the recovery tick is only logged. *)
NoRecovery == UNCHANGED slot

Recover == Trigger("recovery")

SelectTick ==
    /\ pc = "select" /\ tick
    /\ tick' = FALSE
    /\ Recover
    /\ UNCHANGED <<sources, signals, loop, cancelled, changes, failures>>

SelectTrigger ==
    /\ pc = "select" /\ slot # "none"
    /\ slot' = "none"
    /\ pc' = "fetch"
    /\ missed' = {}
    /\ UNCHANGED <<unread, taken, sides, signals, tick, todo, cur, cancelled,
                   changes, failures>>

(* Mutant: a cancelled context is not looked at. *)
NeverDone == FALSE

Done == cancelled

SelectDone ==
    /\ pc = "select" /\ Done
    /\ Ended
    /\ UNCHANGED <<changes, failures>>

(* Reconciler.Run: FetchAll reads iCloud for all lists; a failure ends the
   pass. *)
FetchAll ==
    /\ pc = "fetch"
    /\ \/ /\ ~cancelled
          /\ taken' = unread \cap ({"icloud"} \X Lists)
          /\ unread' = unread \ taken'
          /\ pc' = "lists" /\ todo' = Lists
          /\ UNCHANGED <<missed, failures>>
       \/ /\ missed' = unread
          /\ pc' = "select"
          /\ UNCHANGED <<unread, taken, todo>> /\ CallFails
    /\ UNCHANGED <<sides, signals, slot, tick, cur, cancelled, changes>>

(* What is not handled of list l is left for a pass that nothing announces. *)
GiveUp(l) ==
    /\ unread' = unread \cup (taken \cap Of(l))
    /\ taken' = taken \ Of(l)
    /\ missed' = missed \cup (unread' \cap Of(l))

(* reconcileList: GetItems reads the HA side of list l. *)
GetItems(l) ==
    /\ pc = "lists"
    /\ l \in todo
    /\ todo' = todo \ {l}
    /\ \/ /\ ~cancelled
          /\ taken' = taken \cup (unread \cap {<<"ha", l>>})
          /\ unread' = unread \ {<<"ha", l>>}
          /\ missed' = missed \ {<<"ha", l>>}
          /\ pc' = "write" /\ cur' = {l}
          /\ UNCHANGED failures
       \/ GiveUp(l) /\ UNCHANGED <<pc, cur>> /\ CallFails
    /\ UNCHANGED <<sides, signals, slot, tick, cancelled, changes>>

(***************************************************************************)
(* The sides a pass writes for list l.  A change that it has read, and the *)
(* passes after that until both sides are in step, may write to both.  An  *)
(* item with an assignee that iCloud refuses is written in every pass:     *)
(* Update saves the fields before it fails.  Sides in step are left alone  *)
(* (NoChurn of Reconciler).                                                *)
(***************************************************************************)
Read(l) == taken \cap Of(l) # {}

(* Mutant: a pass always writes something back. *)
WritesAlways(l) == SUBSET {"icloud", "ha"}

Writes(l) == IF Read(l) \/ unsettled[l] > 0 THEN SUBSET {"icloud", "ha"}
             ELSE IF l \in refused THEN SUBSET {"icloud"} ELSE {{}}

PassesLeft(l) == IF Read(l) THEN Settling
                 ELSE IF unsettled[l] > 0 THEN unsettled[l] - 1 ELSE 0

(* The actions on the items of list l; what the relay writes is announced like
   any change.  Some may fail; a refusal by iCloud is an answer. *)
Reconcile(l) ==
    /\ pc = "write" /\ cur = {l}
    /\ pc' = "lists" /\ cur' = {}
    /\ \E written \in Writes(l) :
         /\ notified' = (notified \/ "icloud" \in written)
         /\ wire' = wire \cup (IF "ha" \in written THEN subs \cap {l} ELSE {})
    /\ \/ /\ taken' = taken \ Of(l)
          /\ unsettled' = [unsettled EXCEPT ![l] = PassesLeft(l)]
          /\ UNCHANGED <<unread, missed, failures>>
       \/ GiveUp(l) /\ CallFails /\ UNCHANGED unsettled
    /\ UNCHANGED <<refused, conn, subs, backoff, slot, tick, todo, cancelled,
                   changes>>

(* Mutant: triggers that came in during the pass are dropped. *)
Drain == slot' = "none"

KeepTriggers == UNCHANGED slot

EndPass ==
    /\ pc = "lists" /\ todo = {}
    /\ pc' = "select"
    /\ KeepTriggers
    /\ UNCHANGED <<sources, signals, tick, todo, cur, cancelled, changes,
                   failures>>

(* The body of Run, the choice among the ready cases of its select apart. *)
Run == \/ StartWatching \/ SelectTick \/ SelectTrigger \/ FetchAll \/ EndPass
       \/ \E l \in Lists : GetItems(l) \/ Reconcile(l)

Tick ==
    /\ Watching
    /\ tick' = TRUE
    /\ UNCHANGED <<sources, signals, slot, loop, cancelled, changes, failures>>

Cancel ==
    /\ Watching /\ ~cancelled /\ Fail
    /\ cancelled' = TRUE
    /\ UNCHANGED <<sources, signals, slot, tick, loop, changes>>

Crash ==
    /\ pc # "stopped" /\ Fail
    /\ Ended
    /\ UNCHANGED changes

Next == \/ User \/ Sever \/ Tick \/ Cancel \/ Crash
        \/ Start \/ Subscription \/ ReadSignal \/ Run \/ SelectDone

Spec == Init /\ [][Next]_vars

(* The goroutines run, HA answers, EventKit signals arrive, a dead connection
   is noticed and launchd restarts the process (KeepAlive).  select chooses at
   random among the cases that are ready, so none is passed over for ever. *)
PushSpec ==
    /\ Spec
    /\ WF_vars(Start) /\ WF_vars(Run) /\ WF_vars(ReadSignal)
    /\ WF_vars(Dial) /\ WF_vars(Subscribe) /\ WF_vars(Notice)
    /\ WF_vars(EndSubscription)
    /\ \A l \in Lists : WF_vars(Answer(l)) /\ WF_vars(ReadEvent(l))
    /\ SF_vars(SelectTrigger) /\ SF_vars(SelectDone)

(* The ticker of the recovery interval goes on ticking. *)
Ticks == WF_vars(Tick) /\ SF_vars(SelectTick)

-------------------------------------------------------------------------------
(* No wake-up is lost: a change that no pass has read yet is announced by
   something still under way, whatever the loop is doing and however many
   triggers fell together, except where nothing can announce it: HA was not
   subscribed, or a pass that read it failed. *)
Announced(s) ==
    \/ pc \in {"stopped", "start", "fetch"}
    \/ slot # "none"
    \/ s[1] = "icloud" /\ notified
    \/ s[1] = "ha" /\ (s[2] \in wire \/ s[2] \in todo)

NoWakeUpLost == \A s \in unread : Announced(s) \/ s \in missed

(* Push alone is enough: without a single recovery tick, every change is handled
   but those nothing could announce. *)
PushSuffices == <>[](unread \cup taken \subseteq missed)

(* Once users and failures rest, the recovery ticks see to it that every change
   has been handled, missed or not. *)
RecoveryHandlesAll == Ticks => <>[](unread \cup taken = {})

(* The relay does not feed itself, unless an item with a refused assignee stays:
   it hears its own writes, and the passes they start write again, but this
   ends, and from then on only the ticker starts passes. *)
Settles == <>[](refused = {}) => <>[](slot \notin {"icloud", "home_assistant"})

(* The subscription comes back by itself, for all entities. *)
Reconnects == <>[](conn = "reading" /\ subs = Lists)

(* Cancelling the context ends the process. *)
Stops == cancelled ~> pc = "stopped"
===============================================================================
