------------------------------ MODULE Reconciler ------------------------------
(***************************************************************************)
(* One reconcile pass of ReminderRelay over one list <-> entity mapping,   *)
(* repeated for ever, while users edit both sides                          *)
(* (internal/sync/reconciler.go, internal/sync/ha_create.go, with the      *)
(* state database of internal/state and the two adapters it calls).        *)
(*                                                                         *)
(* One action is one call that leaves the process - to EventKit, to Home   *)
(* Assistant or to SQLite - together with the local computation that       *)
(* precedes it, so users, failures and crashes interleave exactly where    *)
(* the program can be interrupted.  Every call either succeeds, fails      *)
(* without effect, or fails although it took effect (a lost response).     *)
(*                                                                         *)
(* Data is abstracted to what the pass compares: a projection is the       *)
(* content both sides can represent (ProjectionHash is taken to be         *)
(* injective on it).  HA sees only a label of the recurrence rules that a  *)
(* reminder has in iCloud.                                                 *)
(***************************************************************************)
EXTENDS Naturals, FiniteSets

CONSTANTS
    RemUIDs,      \* UIDs EventKit can hand out; never reused
    HAUIDs,       \* UIDs Home Assistant can hand out; never reused
    Texts,        \* title, due date ...: what both sides can represent in full
    Rules,        \* recurrence rules: intervals, weekdays, ends
    NoRules,      \* those of a reminder that does not recur
    Frequencies,  \* the labels an item can have for them
    Once,         \* the label of NoRules, and of an item without a label
    Simple,       \* labels that a user of HA may set: once, daily, weekly
    FrequencyLabel,      \* the label of each of Rules
    recurrenceForLabel,  \* the rules that each of Simple stands for
    Legacy,       \* reminders that metadata blocks of older releases mention
    None,         \* absence: no such item, no row, no UID
    Concurrent,   \* may users act while a pass runs?
    MaxAttempts,  \* bound: tries of one HA call (retry.go)
    MaxTasks,     \* bound: tasks users ever make, initial ones included
    MaxEdits,     \* bound: edits and deletions by users
    MaxFaults,    \* bound: calls whose outcome is a failure
    MaxCrashes    \* bound: crashes of the process

Projection == [text : Texts, freq : Frequencies, done : BOOLEAN]
Reminder   == {c \in [proj : Projection, rules : Rules] :
                 c.proj.freq = FrequencyLabel[c.rules]}
HAItem     == [proj : Projection, canon : Legacy \cup {None}]
Row        == [ha : HAUIDs, hash : Projection]
Link       == [origin : HAUIDs, due : Texts, ha : HAUIDs, rem : RemUIDs]
Work       == [rem : RemUIDs, ha : HAUIDs, proj : Projection]
Adding     == [rem : RemUIDs, proj : Projection,
               before : SUBSET HAUIDs, ha : HAUIDs \cup {None}]

ASSUME ConstantsAssumption ==
    /\ NoRules \in Rules
    /\ Once \in Simple /\ Simple \subseteq Frequencies
    /\ FrequencyLabel \in [Rules -> Frequencies]
    /\ recurrenceForLabel \in [Simple -> Rules]
    /\ \A f \in Simple : FrequencyLabel[recurrenceForLabel[f]] = f
    /\ \A u \in Rules : FrequencyLabel[u] = Once <=> u = NoRules
    /\ Legacy \subseteq RemUIDs
    /\ None \notin RemUIDs \cup HAUIDs
    /\ None \notin Reminder \cup HAItem \cup Row \cup Work \cup Adding
    /\ Concurrent \in BOOLEAN
    /\ {MaxAttempts, MaxTasks, MaxEdits, MaxFaults, MaxCrashes} \subseteq Nat

VARIABLES
    rem,        \* the iCloud list: reminder of each UID, or None
    ha,         \* the HA entity: todo item of each UID, or None
    db,         \* sync_items: the row keyed by reminders_uid, or None
    links,      \* completion_links
    remIssued,  \* UIDs EventKit has handed out so far
    haIssued,   \* UIDs HA has handed out so far
    pc,         \* where the pass stands: the next external call it makes
    remSnap,    \* remByUID: what FetchAll returned for this pass
    haSnap,     \* haByUID: what GetItems returned for this pass
    todo,       \* tracked rows the pass has still to visit
    newRem,     \* untracked reminders it has still to create in HA
    newHA,      \* untracked HA items it has still to create in Reminders
    cur,        \* the tracked or new item whose sync action is under way
    add,        \* the addToHAAndResolveUID call under way
    tasks,      \* tasks made so far by users and by recurrence
    edits,      \* user edits and deletions so far
    faults,     \* failed calls so far
    crashes     \* crashes so far

world   == <<rem, ha, remIssued, haIssued>>
store   == <<db, links>>
pass    == <<remSnap, haSnap, todo, newRem, newHA>>
users   == <<tasks, edits>>
counts  == <<users, faults, crashes>>
vars    == <<world, store, pc, pass, cur, add, counts>>

NoReminders == [r \in RemUIDs |-> None]
NoItems     == [h \in HAUIDs |-> None]
Present(f)  == {k \in DOMAIN f : f[k] # None}
Tracked     == Present(db)
LinkedHA    == {db[r].ha : r \in Tracked}

TypeOK ==
    /\ rem \in [RemUIDs -> Reminder \cup {None}]
    /\ ha \in [HAUIDs -> HAItem \cup {None}]
    /\ db \in [RemUIDs -> Row \cup {None}]
    /\ links \subseteq Link
    /\ remIssued \subseteq RemUIDs
    /\ haIssued \subseteq HAUIDs
    /\ pc \in {"idle", "fetched", "loop", "drop", "echo", "save", "archive",
               "before", "add", "after", "apply", "saveNew", "link"}
    /\ remSnap \in [RemUIDs -> Reminder \cup {None}]
    /\ haSnap \in [HAUIDs -> HAItem \cup {None}]
    /\ todo \subseteq RemUIDs
    /\ newRem \subseteq RemUIDs
    /\ newHA \subseteq HAUIDs
    /\ cur \in Work \cup {None}
    /\ add \in Adding \cup {None}
    /\ tasks \in Nat
    /\ edits \in Nat
    /\ faults \in Nat
    /\ crashes \in Nat

(* What UpdateItem leaves in HA: the projection, without the metadata block
   of an older release. *)
Item(p) == [proj |-> p, canon |-> None]

(* What add_item leaves in HA: it has no status field, a new item is open. *)
Opened(p) == Item([p EXCEPT !.done = FALSE])

(***************************************************************************)
(* The daemon starts with both sides in step: an earlier run, or the       *)
(* first-run bootstrap, has linked what was there.  Items an older release *)
(* wrote still carry its metadata block.                                   *)
(***************************************************************************)
Linked(pairs, link, content, old) ==
    /\ \A r, s \in pairs : link[r] = link[s] => r = s
    /\ tasks = Cardinality(pairs)
    /\ rem = [r \in RemUIDs |-> IF r \in pairs THEN content[r] ELSE None]
    /\ ha = [h \in HAUIDs |->
               IF \E r \in pairs : link[r] = h
               THEN LET r == CHOOSE r \in pairs : link[r] = h
                    IN  [proj |-> content[r].proj,
                         canon |-> IF r \in old THEN r ELSE None]
               ELSE None]
    /\ db = [r \in RemUIDs |->
               IF r \in pairs
               THEN [ha |-> link[r], hash |-> content[r].proj] ELSE None]
    /\ remIssued = pairs
    /\ haIssued = {link[r] : r \in pairs}

Init ==
    /\ \E pairs \in SUBSET RemUIDs :
         /\ IsFiniteSet(pairs) /\ Cardinality(pairs) <= MaxTasks
         /\ \E link \in [pairs -> HAUIDs], content \in [pairs -> Reminder],
               old \in SUBSET (pairs \cap Legacy) :
              Linked(pairs, link, content, old)
    /\ links = {}
    /\ pc = "idle"
    /\ remSnap = NoReminders /\ haSnap = NoItems
    /\ todo = {} /\ newRem = {} /\ newHA = {}
    /\ cur = None /\ add = None
    /\ edits = 0 /\ faults = 0 /\ crashes = 0

-------------------------------------------------------------------------------
(***************************************************************************)
(* How a call can end, and what the pass does then.                        *)
(***************************************************************************)
Fault == faults < MaxFaults /\ faults' = faults + 1

(* The current item is finished or given up; the pass goes on to the next. *)
NextItem == pc' = "loop" /\ cur' = None /\ add' = None

(* A call that only reads, or whose target is gone, fails. *)
Refused(gone) == NextItem /\ (Fault \/ (gone /\ UNCHANGED faults))

(* ha.UpdateItem(h, p), after which the pass stands at "next". *)
UpdateItem(h, p, next, c, a) ==
    \/ /\ ha[h] # None
       /\ ha' = [ha EXCEPT ![h] = Item(p)]
       /\ \/ pc' = next /\ cur' = c /\ add' = a /\ UNCHANGED faults
          \/ NextItem /\ Fault
    \/ UNCHANGED ha /\ Refused(ha[h] = None)

(* store.UpsertItem: the row of r is replaced; the unique index on ha_uid
   rejects an HA UID that another row holds. *)
Clashes(r, h) == \E s \in Tracked \ {r} : db[s].ha = h

(* Mutants: the HA UID is not recorded; the hash is kept from the old row. *)
NewRowWithoutHA(r, h, p) == [ha |-> None, hash |-> p]
NewRowOldHash(r, h, p)   == [ha |-> h,
                             hash |-> IF db[r] = None THEN p ELSE db[r].hash]

NewRow(r, h, p) == [ha |-> h, hash |-> p]

UpsertItem(r, h, p, next, c, a) ==
    \/ /\ ~Clashes(r, h)
       /\ db' = [db EXCEPT ![r] = NewRow(r, h, p)]
       /\ pc' = next /\ cur' = c /\ add' = a
       /\ UNCHANGED faults
    \/ UNCHANGED db /\ Refused(Clashes(r, h))

(***************************************************************************)
(* Starting a pass: FetchAll, then GetItems and GetAllItemsForList.  The   *)
(* relay is the only writer of the database, so the last two are one step. *)
(***************************************************************************)
Fetched == rem          \* completed reminders are fetched as well

FetchAll ==
    /\ pc = "idle"
    /\ \/ remSnap' = Fetched /\ pc' = "fetched" /\ UNCHANGED faults
       \/ UNCHANGED <<remSnap, pc>> /\ Fault
    /\ UNCHANGED <<world, store, haSnap, todo, newRem, newHA, cur, add,
                   users, crashes>>

(* Mutants: the processed set is not consulted; an error of GetItems is taken
   for an empty list. *)
AllReminders == Present(remSnap)
SkipNothing  == todo' = Tracked /\ UNCHANGED <<haSnap, newRem, newHA>>

NewReminders == Present(remSnap) \ Tracked
NewItems     == Present(ha) \ LinkedHA
SkipList     == UNCHANGED <<haSnap, todo, newRem, newHA>>

GetItems ==
    /\ pc = "fetched"
    /\ NextItem
    /\ \/ /\ haSnap' = ha
          /\ todo' = Tracked
          /\ newRem' = NewReminders
          /\ newHA' = NewItems
          /\ UNCHANGED faults
       \/ SkipList /\ Fault
    /\ UNCHANGED <<world, store, remSnap, users, crashes>>

(***************************************************************************)
(* decide: which action the row of r calls for, from the two snapshots.    *)
(***************************************************************************)
HACopy(r) == haSnap[db[r].ha]

RemChanged(r) == remSnap[r].proj # db[r].hash
HAChanged(r)  == HACopy(r).proj # db[r].hash

(* Mutants: a deletion in HA only drops the row; HA wins conflicts; HA never
   wins; an unchanged item is refreshed as well. *)
decideForgets(r) ==
    CASE remSnap[r] = None \/ HACopy(r) = None -> "deleteFromHA"
      [] OTHER -> IF HACopy(r).canon # None \/ RemChanged(r) THEN "updateHA"
                  ELSE IF HAChanged(r) THEN "updateRem" ELSE "none"

decideForHA(r) ==
    CASE remSnap[r] = None -> "deleteFromHA"
      [] remSnap[r] # None /\ HACopy(r) = None -> "deleteFromRem"
      [] OTHER -> IF HAChanged(r) THEN "updateRem"
                  ELSE IF RemChanged(r) THEN "updateHA" ELSE "none"

decideOneWay(r) ==
    CASE remSnap[r] = None -> "deleteFromHA"
      [] remSnap[r] # None /\ HACopy(r) = None -> "deleteFromRem"
      [] OTHER -> IF HAChanged(r) \/ RemChanged(r) THEN "updateHA" ELSE "none"

decideAlways(r) ==
    CASE remSnap[r] = None -> "deleteFromHA"
      [] remSnap[r] # None /\ HACopy(r) = None -> "deleteFromRem"
      [] OTHER -> IF HAChanged(r) THEN "updateRem" ELSE "updateHA"

decide(r) ==
    CASE remSnap[r] = None -> "deleteFromHA"
      [] remSnap[r] # None /\ HACopy(r) = None -> "deleteFromRem"
      [] OTHER -> IF HACopy(r).canon # None \/ RemChanged(r) THEN "updateHA"
                  ELSE IF HAChanged(r) THEN "updateRem" ELSE "none"

(* The tracked loop visits r, and acts as decided. *)
Visit(r, act) ==
    /\ pc = "loop"
    /\ r \in todo
    /\ decide(r) = act
    /\ todo' = todo \ {r}
    /\ UNCHANGED <<remSnap, haSnap, newRem, newHA>>

DoNothing(r) ==
    /\ Visit(r, "none")
    /\ UNCHANGED <<world, store, pc, cur, add, counts>>

(* execute, actionDeleteFromHA: remove the item if it was there, then the row
   (DropRow); if neither copy was there the row goes at once. *)
DeleteFromHA(r) ==
    LET h == db[r].ha IN
    /\ Visit(r, "deleteFromHA")
    /\ IF haSnap[h] = None
       THEN /\ \/ db' = [db EXCEPT ![r] = None] /\ UNCHANGED faults
               \/ UNCHANGED db /\ Fault
            /\ NextItem
            /\ UNCHANGED ha
       ELSE /\ \/ /\ ha[h] # None
                  /\ ha' = [ha EXCEPT ![h] = None]
                  /\ \/ /\ pc' = "drop"
                        /\ cur' = [rem |-> r, ha |-> h, proj |-> db[r].hash]
                        /\ UNCHANGED <<add, faults>>
                     \/ NextItem /\ Fault
               \/ UNCHANGED ha /\ Refused(ha[h] = None)
            /\ UNCHANGED db
    /\ UNCHANGED <<rem, remIssued, haIssued, links, users, crashes>>

(* execute, actionDeleteFromRem. *)
DeleteFromRem(r) ==
    /\ Visit(r, "deleteFromRem")
    /\ \/ /\ rem[r] # None
          /\ rem' = [rem EXCEPT ![r] = None]
          /\ \/ /\ pc' = "drop"
                /\ cur' = [rem |-> r, ha |-> db[r].ha, proj |-> db[r].hash]
                /\ UNCHANGED <<add, faults>>
             \/ NextItem /\ Fault
       \/ UNCHANGED rem /\ Refused(rem[r] = None)
    /\ UNCHANGED <<ha, remIssued, haIssued, store, users, crashes>>

(* store.DeleteItem after a deletion. *)
DropRow ==
    /\ pc = "drop"
    /\ NextItem
    /\ \/ db' = [db EXCEPT ![cur.rem] = None] /\ UNCHANGED faults
       \/ UNCHANGED db /\ Fault
    /\ UNCHANGED <<world, links, pass, users, crashes>>

(* execute, actionUpdateHA: push the snapshot of the reminder. *)
UpdateHA(r) ==
    LET p == remSnap[r].proj
        h == db[r].ha
    IN
    /\ Visit(r, "updateHA")
    /\ UpdateItem(h, p, "save", [rem |-> r, ha |-> h, proj |-> p], None)
    /\ UNCHANGED <<rem, remIssued, haIssued, store, users, crashes>>

(***************************************************************************)
(* execute, actionUpdateRem: merge the HA projection onto the snapshot of  *)
(* the reminder and write it over whatever the reminder is now.            *)
(***************************************************************************)
(* FrequencyEditable: the item names its frequency, and it is one of Simple.  An
   item that names none shows once as well. *)
FrequencyEditable(i) ==
    IF i.proj.freq = Once THEN BOOLEAN ELSE {i.proj.freq \in Simple}

WithRules(p, rules) == [proj |-> [p EXCEPT !.freq = FrequencyLabel[rules]],
                        rules |-> rules]

(* Mutant: the rules are replaced even if their label is what it was. *)
mergeReplaces(canonical, projection, editable) ==
    WithRules(projection.proj,
              IF editable THEN recurrenceForLabel[projection.proj.freq]
                          ELSE canonical.rules)

mergeHAProjection(canonical, projection, editable) ==
    WithRules(projection.proj,
              IF editable /\ projection.proj.freq # canonical.proj.freq
              THEN recurrenceForLabel[projection.proj.freq]
              ELSE canonical.rules)

(* rem.Update of a reminder that it does not complete, or that does not recur. *)
WriteReminder(r, command) ==
    /\ rem' = [rem EXCEPT ![r] = command]
    /\ \/ /\ pc' = "echo"
          /\ cur' = [rem |-> r, ha |-> db[r].ha, proj |-> command.proj]
          /\ UNCHANGED <<add, faults>>
       \/ NextItem /\ Fault
    /\ UNCHANGED <<remIssued, tasks>>

(* rem.Update sets the fields, then the completion; it fails between the two. *)
WriteFields(r, command) ==
    /\ rem' = [rem EXCEPT ![r] =
                 [command EXCEPT !.proj.done = rem[r].proj.done]]
    /\ NextItem /\ Fault
    /\ UNCHANGED <<remIssued, tasks>>

(* Completing a recurring reminder: EventKit advances it to its next occurrence,
   with another due date, and archives the completed one, which does not recur,
   under a UID of its own. *)
RollsOver(c) == c.rules # NoRules /\ c.proj.done

Advanced(c) == {[c EXCEPT !.proj.text = t, !.proj.done = FALSE] :
                  t \in Texts \ {c.proj.text}}
Archived(c) == WithRules(c.proj, NoRules)

(* rem.Update completing a recurring reminder. *)
RollOver(r, command) ==
    \E a \in RemUIDs \ remIssued, next \in Advanced(command) :
       /\ rem' = [rem EXCEPT ![r] = next, ![a] = Archived(command)]
       /\ remIssued' = remIssued \cup {a}
       /\ tasks' = tasks + 1
       /\ \/ /\ pc' = "archive"
             /\ cur' = [rem |-> r, ha |-> db[r].ha, proj |-> next.proj]
             /\ add' = [rem |-> a, proj |-> Archived(command).proj,
                        before |-> {}, ha |-> None]
             /\ UNCHANGED faults
          \/ NextItem /\ Fault

UpdateRem(r) ==
    /\ Visit(r, "updateRem")
    /\ IF rem[r] = None
       THEN Refused(TRUE) /\ UNCHANGED <<rem, remIssued, tasks>>
       ELSE \/ \E editable \in FrequencyEditable(HACopy(r)) :
                 LET command == mergeHAProjection(remSnap[r], HACopy(r), editable)
                 IN \/ /\ RollsOver(command) /\ ~rem[r].proj.done
                       /\ RollOver(r, command)
                    \/ /\ ~RollsOver(command) \/ rem[r].proj.done
                       /\ WriteReminder(r, command)
                    \/ WriteFields(r, command)
            \/ Refused(FALSE) /\ UNCHANGED <<rem, remIssued, tasks>>
    /\ UNCHANGED <<ha, haIssued, store, edits, crashes>>

(* After a rollover: fetch the archived occurrence, to create it in HA. *)
FetchArchived ==
    /\ pc = "archive"
    /\ \/ /\ rem[add.rem] # None
          /\ IF db[add.rem] = None
             THEN /\ pc' = "before"
                  /\ add' = [add EXCEPT !.proj = rem[add.rem].proj]
             ELSE /\ pc' = "link"
                  /\ add' = [add EXCEPT !.ha = db[add.rem].ha]
          /\ UNCHANGED <<cur, faults>>
       \/ Refused(rem[add.rem] = None)
    /\ UNCHANGED <<world, store, pass, users, crashes>>

(* SaveCompletionLink: one link per origin item and due date. *)
(* Mutant: the link names the recurring reminder, not the archived one. *)
NewLinkToMaster == [origin |-> cur.ha, due |-> haSnap[cur.ha].proj.text,
                    ha |-> add.ha, rem |-> cur.rem]

NewLink == [origin |-> cur.ha, due |-> haSnap[cur.ha].proj.text,
            ha |-> add.ha, rem |-> add.rem]

SaveCompletionLink ==
    /\ pc = "link"
    /\ \/ /\ links' = {l \in links : \/ l.origin # NewLink.origin
                                     \/ l.due # NewLink.due} \cup {NewLink}
          /\ pc' = "echo" /\ add' = None
          /\ UNCHANGED <<cur, faults>>
       \/ UNCHANGED links /\ Refused(FALSE)
    /\ UNCHANGED <<world, db, pass, users, crashes>>

(* Both directions end alike: the committed reminder is echoed to HA, and the
   row is written with its hash. *)
EchoToHA ==
    /\ pc = "echo"
    /\ UpdateItem(cur.ha, cur.proj, "save", cur, None)
    /\ UNCHANGED <<rem, remIssued, haIssued, store, pass, users, crashes>>

SaveRow ==
    /\ pc = "save"
    /\ UpsertItem(cur.rem, cur.ha, cur.proj, "loop", None, None)
    /\ UNCHANGED <<world, links, pass, users, crashes>>

(***************************************************************************)
(* createInHA and addToHAAndResolveUID: list the items, add one, list them *)
(* again, and take the difference for the new UID.                         *)
(***************************************************************************)
ListBefore(r, p) ==
    \/ /\ pc' = "add"
       /\ add' = [rem |-> r, proj |-> p, before |-> Present(ha), ha |-> None]
       /\ UNCHANGED <<cur, faults>>
    \/ Refused(FALSE)

CreateInHA(r) ==
    /\ pc = "loop" /\ todo = {}
    /\ r \in newRem
    /\ newRem' = newRem \ {r}
    /\ ListBefore(r, remSnap[r].proj)
    /\ UNCHANGED <<world, store, remSnap, haSnap, todo, newHA, users, crashes>>

CreateArchivedInHA ==
    /\ pc = "before"
    /\ ListBefore(add.rem, add.proj)
    /\ UNCHANGED <<world, store, pass, users, crashes>>

(* ha.AddItem: every try that lost its response has added a copy. *)
AddItem ==
    /\ pc = "add"
    /\ \E n \in 0 .. MaxAttempts, copies \in SUBSET (HAUIDs \ haIssued) :
         /\ IsFiniteSet(copies) /\ Cardinality(copies) = n
         /\ ha' = [h \in HAUIDs |-> IF h \in copies THEN Opened(add.proj)
                                    ELSE ha[h]]
         /\ haIssued' = haIssued \cup copies
         /\ \/ /\ n > 0
               /\ faults + n - 1 <= MaxFaults /\ faults' = faults + n - 1
               /\ pc' = "after" /\ UNCHANGED <<cur, add>>
            \/ NextItem /\ Fault
    /\ UNCHANGED <<rem, remIssued, store, pass, users, crashes>>

(* Mutant: the list before the addition is not subtracted. *)
AnyItem == Present(ha)

Candidates == Present(ha) \ add.before

Identified(h) == \/ Candidates = {h}
                 \/ h \in Candidates /\ ha[h].canon = add.rem

ResolveUID ==
    /\ pc = "after"
    /\ \/ \E h \in HAUIDs :
            /\ Identified(h)
            /\ pc' = "apply" /\ add' = [add EXCEPT !.ha = h]
            /\ UNCHANGED <<cur, faults>>
       \/ Refused(\A h \in HAUIDs : ~Identified(h))
    /\ UNCHANGED <<world, store, pass, users, crashes>>

ApplyToAdded ==
    /\ pc = "apply"
    /\ UpdateItem(add.ha, add.proj, "saveNew", cur, add)
    /\ UNCHANGED <<rem, remIssued, haIssued, store, pass, users, crashes>>

SaveAdded ==
    /\ pc = "saveNew"
    /\ IF cur = None
       THEN UpsertItem(add.rem, add.ha, add.proj, "loop", None, None)
       ELSE UpsertItem(add.rem, add.ha, add.proj, "link", cur, add)
    /\ UNCHANGED <<world, links, pass, users, crashes>>

(***************************************************************************)
(* createInReminders: rem.Create, then the echo and the row as above.      *)
(* Create adds the reminder open and completes it, which makes a recurring *)
(* one roll over here, too; when that fails it deletes it again, which can *)
(* fail as well.                                                           *)
(***************************************************************************)
(* The reminder an item asks for: only a simple frequency has rules. *)
Asked(i) ==
    WithRules(i.proj, IF i.proj.freq \in Simple
                      THEN recurrenceForLabel[i.proj.freq] ELSE NoRules)

CreateReminder(r, h, c) ==
    /\ ~RollsOver(c)
    /\ rem' = [rem EXCEPT ![r] = c]
    /\ remIssued' = remIssued \cup {r}
    /\ pc' = "echo" /\ cur' = [rem |-> r, ha |-> h, proj |-> c.proj]
    /\ UNCHANGED <<add, tasks, faults>>

CreateRecurring(r, h, c) ==
    /\ RollsOver(c)
    /\ \E a \in RemUIDs \ (remIssued \cup {r}), next \in Advanced(c) :
         /\ \/ /\ rem' = [rem EXCEPT ![r] = next, ![a] = Archived(c)]
               /\ pc' = "echo"
               /\ cur' = [rem |-> r, ha |-> h, proj |-> next.proj]
               /\ UNCHANGED <<add, faults>>
            \/ /\ rem' \in {[rem EXCEPT ![r] = next, ![a] = Archived(c)],
                            [rem EXCEPT ![a] = Archived(c)]}
               /\ NextItem /\ Fault
         /\ remIssued' = remIssued \cup {r, a}
    /\ tasks' = tasks + 1

CreateUncompleted(r, c) ==
    /\ rem' = [rem EXCEPT ![r] = [c EXCEPT !.proj.done = FALSE]]
    /\ remIssued' = remIssued \cup {r}
    /\ NextItem /\ Fault
    /\ UNCHANGED tasks

CreateInReminders(h) ==
    /\ pc = "loop" /\ todo = {} /\ newRem = {}
    /\ h \in newHA
    /\ newHA' = newHA \ {h}
    /\ \/ \E r \in RemUIDs \ remIssued :
            \/ CreateReminder(r, h, Asked(haSnap[h]))
            \/ CreateRecurring(r, h, Asked(haSnap[h]))
            \/ CreateUncompleted(r, Asked(haSnap[h]))
       \/ UNCHANGED <<rem, remIssued, tasks>> /\ Refused(FALSE)
    /\ UNCHANGED <<ha, haIssued, store, remSnap, haSnap, todo, newRem,
                   edits, crashes>>

(* publishListSummary reads only; it ends the pass, successful or not. *)
Forget ==
    /\ pc' = "idle"
    /\ remSnap' = NoReminders /\ haSnap' = NoItems
    /\ todo' = {} /\ newRem' = {} /\ newHA' = {}
    /\ cur' = None /\ add' = None

EndPass ==
    /\ pc = "loop" /\ todo = {} /\ newRem = {} /\ newHA = {}
    /\ Forget
    /\ UNCHANGED <<world, store, counts>>

(* The process dies; launchd starts it again.  Only the database survives.
   With no row left the restart would go through the first-run bootstrap. *)
Crash ==
    /\ pc # "idle"
    /\ Tracked # {}
    /\ crashes < MaxCrashes /\ crashes' = crashes + 1
    /\ Forget
    /\ UNCHANGED <<world, store, users, faults>>

Relay ==
    \/ FetchAll \/ GetItems
    \/ \E r \in RemUIDs : \/ DoNothing(r) \/ DeleteFromHA(r)
                           \/ DeleteFromRem(r) \/ UpdateHA(r)
                           \/ UpdateRem(r) \/ CreateInHA(r)
    \/ \E h \in HAUIDs : CreateInReminders(h)
    \/ DropRow \/ FetchArchived \/ SaveCompletionLink \/ EchoToHA \/ SaveRow
    \/ CreateArchivedInHA \/ AddItem \/ ResolveUID \/ ApplyToAdded \/ SaveAdded
    \/ EndPass

(***************************************************************************)
(* Users of Reminders.app, of other iCloud devices and of Home Assistant.  *)
(***************************************************************************)
UserMayAct == Concurrent \/ pc = "idle"

NewTask == UserMayAct /\ tasks < MaxTasks /\ tasks' = tasks + 1
Edit    == UserMayAct /\ edits < MaxEdits /\ edits' = edits + 1

relay == <<store, pc, pass, cur, add, faults, crashes>>

UserAddsReminder ==
    /\ NewTask
    /\ \E r \in RemUIDs \ remIssued, c \in Reminder :
         /\ rem' = [rem EXCEPT ![r] = c]
         /\ remIssued' = remIssued \cup {r}
    /\ UNCHANGED <<ha, haIssued, relay, edits>>

UserEditsReminder ==
    /\ Edit
    /\ \E r \in Present(rem), c \in Reminder :
         c # rem[r] /\ rem' = [rem EXCEPT ![r] = c]
    /\ UNCHANGED <<ha, remIssued, haIssued, relay, tasks>>

UserDeletesReminder ==
    /\ Edit
    /\ \E r \in Present(rem) : rem' = [rem EXCEPT ![r] = None]
    /\ UNCHANGED <<ha, remIssued, haIssued, relay, tasks>>

UserAddsItem ==
    /\ NewTask
    /\ \E h \in HAUIDs \ haIssued, i \in HAItem :
         /\ ha' = [ha EXCEPT ![h] = i]
         /\ haIssued' = haIssued \cup {h}
    /\ UNCHANGED <<rem, remIssued, relay, edits>>

UserEditsItem ==
    /\ Edit
    /\ \E h \in Present(ha), p \in Projection :
         p # ha[h].proj /\ ha' = [ha EXCEPT ![h].proj = p]
    /\ UNCHANGED <<rem, remIssued, haIssued, relay, tasks>>

UserDeletesItem ==
    /\ Edit
    /\ \E h \in Present(ha) : ha' = [ha EXCEPT ![h] = None]
    /\ UNCHANGED <<rem, remIssued, haIssued, relay, tasks>>

User ==
    \/ UserAddsReminder \/ UserEditsReminder \/ UserDeletesReminder
    \/ UserAddsItem \/ UserEditsItem \/ UserDeletesItem

Next == Relay \/ Crash \/ User

Spec == Init /\ [][Next]_vars

(* The engine triggers a pass after every change it hears of and every six
   hours, launchd restarts the daemon, and a pass is sequential code that does
   not block for ever: the relay always goes on.  Users owe nothing. *)
FairSpec == Spec /\ WF_vars(Relay)

-------------------------------------------------------------------------------
(***************************************************************************)
(* What makes a pass correct.                                              *)
(***************************************************************************)

(* Two rows never name the same HA item, and no row about to be written would:
   the unique index idx_ha_uid never rejects an upsert, although the UIDs come
   from a list read at the start of the pass and from set differences. *)
LinksInjective ==
    /\ \A r, s \in Tracked : db[r].ha = db[s].ha => r = s
    /\ pc \in {"echo", "save"} => ~Clashes(cur.rem, cur.ha)
    /\ pc \in {"apply", "saveNew"} => ~Clashes(add.rem, add.ha)

(* A task that has a row is never created a second time on the other side,
   however stale the lists the pass works from: when the relay has created a
   reminder for an item, or is adding an item for a reminder, neither already
   had a row. *)
NoEcho ==
    /\ pc \in {"before", "add", "after", "apply"} => db[add.rem] = None
    /\ (pc = "echo" /\ db[cur.rem] = None) => cur.ha \notin LinkedHA

(* The relay deletes a copy only as the echo of a deletion: the linked copy on
   the other side is already gone.  Since the first of two copies to go can
   then only have been deleted by a user, a failed or partial fetch, a crash or
   a wrong link never destroys a task. *)
DeletionMirrored ==
    /\ \A r \in Present(rem) : rem'[r] = None =>
          db[r] # None /\ ha[db[r].ha] = None
    /\ \A h \in Present(ha) : ha'[h] = None =>
          \E r \in Tracked : db[r].ha = h /\ rem[r] = None

DeletionsMirrorUsers == [][User \/ DeletionMirrored]_vars

(* The relay forgets a link only when both copies are gone, so that no crash or
   failure makes it import the survivor as a new task. *)
ForgottenLast ==
    \A r \in Tracked : db'[r] = None => rem[r] = None /\ ha[db[r].ha] = None

LinksForgottenLast == [][ForgottenLast]_vars

(* A completion link leads to the archived reminder and its HA copy for as long
   as that reminder exists: a consumer that undoes the completion through the
   link reaches a tracked pair. *)
CompletionLinksResolve ==
    \A l \in links : rem[l.rem] # None =>
        db[l.rem] # None /\ db[l.rem].ha = l.ha

(* The relay makes no task of its own: there are never more reminders, or HA
   items, than users (and recurrence) ever made. *)
NoDuplicates ==
    Cardinality(remIssued) <= tasks /\ Cardinality(haIssued) <= tasks

(* While no call has failed and the process has not crashed, the relay makes no
   task of its own: completing, recurring, being edited or deleted on either
   side between passes never makes a task look new. *)
NoDuplicatesUnfailed == faults = 0 /\ crashes = 0 => NoDuplicates

(* Conflicts resolve to iCloud: the relay overwrites what a reminder shows only
   if that is still what both sides last agreed on. *)
ICloudWins ==
    [][ \/ User
        \/ \A r \in Tracked :
             (rem[r] # None /\ rem'[r] # None /\ rem'[r].proj # rem[r].proj)
                => rem[r].proj = db[r].hash ]_vars

(* The recurrence rules of a reminder, of which HA shows only a label, survive
   every edit made in HA except one that names another simple frequency; that
   one replaces them, weekdays and end included. *)
RulesKept ==
    [][ \/ User
        \/ \A r \in Present(rem) :
             rem'[r] # None /\ rem'[r].rules # rem[r].rules =>
                LET named == HACopy(r).proj.freq IN
                /\ named \in Simple /\ named # rem[r].proj.freq
                /\ rem'[r].rules = recurrenceForLabel[named] ]_vars

(* Both sides show the same tasks, and the database knows them all. *)
InSync ==
    /\ \A r \in Present(rem) \cup Tracked :
         /\ rem[r] # None /\ db[r] # None
         /\ ha[db[r].ha] = Item(rem[r].proj)
         /\ db[r].hash = rem[r].proj
    /\ Present(ha) = LinkedHA

(* A pass over two sides in step writes nothing: hearing of its own writes, the
   relay runs one more pass, and that pass is quiet. *)
NoChurn ==
    [][ User \/ Crash
        \/ (InSync => /\ UNCHANGED <<world, store>>
                      /\ pc' \in {"idle", "fetched", "loop"}) ]_vars

(* Once users and faults leave the system alone, the two sides and the database
   come into step and stay so, whatever happened before. *)
Converges == <>[]InSync

(* The relay keeps the promise of Mirror: seen as the tasks that are there and
   the rows that pair them, whatever it does at any call, retry, failure or
   crash, it copies only what has no counterpart, links one to one, deletes a
   copy only when the other is gone and forgets only what is gone. *)
Promise == INSTANCE Mirror WITH
    reminders <- Present(rem),
    items     <- Present(ha),
    pairs     <- {<<r, db[r].ha>> : r \in Tracked},
    MaxCopies <- MaxAttempts

Mirrors == Promise!Spec
===============================================================================
