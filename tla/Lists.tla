--------------------------------- MODULE Lists ---------------------------------
(***************************************************************************)
(* A pass over several list <-> entity mappings (Run, reconcileList and    *)
(* publishListSummary of internal/sync/reconciler.go).  The reminders of   *)
(* all lists are read once, at the start; the items, the rows and what is  *)
(* new belong to one list at a time, in the order of a Go map.  Users move *)
(* reminders between lists, lists come and go, and the configuration may   *)
(* change between two runs of the daemon, which keeps its database.        *)
(*                                                                         *)
(* Reconciler has the calls of a pass over one list; here one action is    *)
(* all that is done for one row or one new task: it succeeds, does         *)
(* nothing, or stops after its remote effect.  Contents are left out: what *)
(* matters is which tasks there are, where, and how they are linked.       *)
(***************************************************************************)
EXTENDS Naturals, FiniteSets

CONSTANTS
    RemUIDs, HAUIDs,  \* UIDs of the two sides; never reused
    ListNames,        \* iCloud lists, configured or not
    Entities,         \* HA to-do entities
    Mappings,         \* the configurations: functions from lists to entities
    None,             \* absence: no such task, no row, no list
    MaxTasks,         \* bound: tasks users ever make, initial ones included
    MaxMoves,         \* bound: reminders moved to another list
    MaxEdits,         \* bound: deletions by users, lists hidden
    MaxAttempts,      \* defaultMaxAttempts: how often Retry calls add_item
    MaxFaults,        \* bound: failed actions, lost responses and crashes
    MaxRemaps         \* bound: changes of the configuration

Row == [ha : HAUIDs, list : ListNames]

ASSUME ListsAssumption ==
    /\ None \notin RemUIDs \cup HAUIDs \cup ListNames \cup Entities \cup Row
    /\ \A m \in Mappings : /\ m \in [DOMAIN m -> Entities]
                           /\ DOMAIN m \subseteq ListNames
    /\ {MaxTasks, MaxMoves, MaxEdits, MaxFaults, MaxRemaps} \subseteq Nat
    /\ MaxAttempts \in Nat \ {0}

VARIABLES
    rem,        \* the list each reminder is in, or None
    ha,         \* the entity each item is in, or None
    db,         \* sync_items: the row keyed by reminders_uid, or None
    remIssued, haIssued,   \* UIDs handed out so far
    mapping,    \* list_mappings of the running daemon
    hidden,     \* lists that do not resolve: renamed, signed out, ambiguous
    phase,      \* does a pass run?
    left,       \* the lists it has still to visit
    cur,        \* the list it is visiting, or None
    remSnap,    \* remByUID: the mapped list each reminder was in, or None
    haSnap,     \* haByUID: the items the entity of cur had
    todo,       \* rows of cur still to be visited
    newRem,     \* reminders of cur without a row of cur
    newHA,      \* items of the entity that no row of cur names
    summary,    \* the last summary: <<reminder, its ha_uid>>
    moved,      \* history: reminders moved since the pass read them
    tasks, moves, edits, faults, remaps   \* bounded by the constants

tasksIn == <<rem, ha, remIssued, haIssued>>
lists   == <<haSnap, todo, newRem, newHA>>
pass    == <<phase, left, cur, remSnap, lists, summary>>
setting == <<mapping, hidden>>
users   == <<tasks, moves, edits, remaps, moved>>
vars    == <<tasksIn, db, setting, pass, users, faults>>

Present(f) == {k \in DOMAIN f : f[k] # None}
Tracked    == Present(db)
Mapped     == DOMAIN mapping

TypeOK ==
    /\ rem \in [RemUIDs -> ListNames \cup {None}]
    /\ ha \in [HAUIDs -> Entities \cup {None}]
    /\ db \in [RemUIDs -> Row \cup {None}]
    /\ remIssued \subseteq RemUIDs /\ haIssued \subseteq HAUIDs
    /\ mapping \in Mappings
    /\ hidden \subseteq ListNames
    /\ phase \in {"idle", "pass"}
    /\ left \subseteq Mapped
    /\ cur \in Mapped \cup {None}
    /\ remSnap \in [RemUIDs -> ListNames \cup {None}]
    /\ haSnap \subseteq HAUIDs
    /\ todo \subseteq RemUIDs /\ newRem \subseteq RemUIDs
    /\ newHA \subseteq HAUIDs
    /\ moved \subseteq RemUIDs
    /\ tasks \in Nat /\ moves \in Nat /\ edits \in Nat
    /\ faults \in Nat /\ remaps \in Nat

(* Nothing is under way. *)
Idle ==
    /\ phase = "idle" /\ left = {} /\ cur = None
    /\ remSnap = [r \in RemUIDs |-> None]
    /\ haSnap = {} /\ todo = {} /\ newRem = {} /\ newHA = {} /\ summary = {}

(* The pass is over, or lost: its working set is dropped. *)
Drop ==
    /\ phase' = "idle" /\ left' = {} /\ cur' = None
    /\ remSnap' = [r \in RemUIDs |-> None]
    /\ haSnap' = {} /\ todo' = {} /\ newRem' = {} /\ newHA' = {} /\ summary' = {}

(* The daemon starts with what the bootstrap has linked, list by list. *)
Init ==
    /\ mapping \in Mappings
    /\ \E pairs \in SUBSET RemUIDs :
         /\ IsFiniteSet(pairs)
         /\ tasks = Cardinality(pairs) /\ tasks <= MaxTasks
         /\ \E link \in [pairs -> HAUIDs], where \in [pairs -> Mapped] :
              /\ \A r, s \in pairs : link[r] = link[s] => r = s
              /\ remIssued = pairs /\ haIssued = {link[r] : r \in pairs}
              /\ rem = [r \in RemUIDs |->
                          IF r \in pairs THEN where[r] ELSE None]
              /\ ha \in [HAUIDs -> Entities \cup {None}]
              /\ Present(ha) = haIssued
              /\ \A r \in pairs : ha[link[r]] = mapping[where[r]]
              /\ db = [r \in RemUIDs |->
                         IF r \in pairs
                         THEN [ha |-> link[r], list |-> where[r]] ELSE None]
    /\ hidden = {} /\ moved = {}
    /\ Idle
    /\ moves = 0 /\ edits = 0 /\ faults = 0 /\ remaps = 0

-------------------------------------------------------------------------------
Fault == faults < MaxFaults /\ faults' = faults + 1

(* Mutant: a list that does not resolve is passed over. *)
AnyList == TRUE

(* resolveICloudLists: every mapped list resolves, or nothing is read. *)
Resolved == Mapped \cap hidden = {}

(* Run reads the reminders of all mapped lists. *)
FetchAll ==
    /\ phase = "idle" /\ Resolved
    /\ phase' = "pass" /\ left' = Mapped
    /\ remSnap' = [r \in RemUIDs |->
                     IF rem[r] \in Mapped \ hidden THEN rem[r] ELSE None]
    /\ moved' = {}
    /\ UNCHANGED <<tasksIn, db, setting, cur, lists, summary, tasks, moves,
                   edits, remaps, faults>>

(* reconcileList reads the items of the entity and the rows of the list; what
   no row of this list names is new.  Without the items the list is skipped. *)
RowsOf(l) == {r \in Tracked : db[r].list = l}

(* Mutant: rows of other lists count as processed. *)
TrackedAnywhere(l) == {r \in RemUIDs : remSnap[r] = l} \ Tracked

NewReminders(l) == {r \in RemUIDs : remSnap[r] = l} \ RowsOf(l)

(* Mutant: all items are new, the processed ones as well. *)
AllItems(l) == {h \in HAUIDs : ha[h] = mapping[l]}

NewItems(l) == {h \in HAUIDs : ha[h] = mapping[l]} \ {db[r].ha : r \in RowsOf(l)}

OpenList(l) ==
    /\ phase = "pass" /\ cur = None
    /\ l \in left
    /\ cur' = l /\ left' = left \ {l} /\ summary' = {}
    /\ \/ /\ haSnap' = {h \in HAUIDs : ha[h] = mapping[l]}
          /\ todo' = RowsOf(l)
          /\ newRem' = NewReminders(l)
          /\ newHA' = NewItems(l)
          /\ UNCHANGED faults
       \/ UNCHANGED lists /\ Fault
    /\ UNCHANGED <<tasksIn, db, setting, phase, remSnap, users>>

(* decide: is the reminder, or the item, of a row gone?  The reminder is looked
   for in all mapped lists, the item in this entity. *)
(* Mutant: the reminder is looked for in this list. *)
LeftTheList(r) == remSnap[r] # cur

ReminderGone(r) == remSnap[r] = None
ItemGone(r)     == db[r].ha \notin haSnap

Visit(r) ==
    /\ r \in todo
    /\ todo' = todo \ {r}
    /\ UNCHANGED <<setting, phase, left, cur, remSnap, haSnap, newRem, newHA,
                   summary, users>>

(* Neither is: at most their contents are brought in step. *)
Keep(r) ==
    /\ Visit(r) /\ ~ReminderGone(r) /\ ~ItemGone(r)
    /\ UNCHANGED <<tasksIn, db, faults>>

DropRow(r) == db' = [db EXCEPT ![r] = None]

(* actionDeleteFromHA: the item, if it was there, then the row. *)
DeleteFromHA(r) ==
    /\ Visit(r) /\ ReminderGone(r)
    /\ \/ ItemGone(r) /\ DropRow(r) /\ UNCHANGED <<ha, faults>>
       \/ /\ ~ItemGone(r) /\ ha[db[r].ha] = mapping[cur]
          /\ ha' = [ha EXCEPT ![db[r].ha] = None]
          /\ \/ DropRow(r) /\ UNCHANGED faults
             \/ UNCHANGED db /\ Fault
       \/ /\ ~ItemGone(r) /\ ha[db[r].ha] # mapping[cur]
          /\ UNCHANGED <<ha, db, faults>>
       \/ UNCHANGED <<ha, db>> /\ Fault
    /\ UNCHANGED <<rem, remIssued, haIssued>>

(* actionDeleteFromRem: the reminder, wherever it is now, then the row. *)
DeleteFromRem(r) ==
    /\ Visit(r) /\ ~ReminderGone(r) /\ ItemGone(r)
    /\ \/ /\ rem[r] # None
          /\ rem' = [rem EXCEPT ![r] = None]
          /\ \/ DropRow(r) /\ UNCHANGED faults
             \/ UNCHANGED db /\ Fault
       \/ rem[r] = None /\ UNCHANGED <<rem, db, faults>>
       \/ UNCHANGED <<rem, db>> /\ Fault
    /\ UNCHANGED <<ha, remIssued, haIssued>>

(* UpsertItem: the row of r is replaced, whichever list it was of; the unique
   index rejects an item that another row names. *)
UpsertItem(r, h) ==
    IF \E s \in Tracked \ {r} : db[s].ha = h
    THEN UNCHANGED db
    ELSE db' = [db EXCEPT ![r] = [ha |-> h, list |-> cur]]

(* createInHA: a new item, and the row.  Every try of add_item that lost its
   response has added a copy.  With several new items, one of which a user may
   just have added, ResolveUID fails and none gets a row. *)
Candidates ==
    {new \in SUBSET (HAUIDs \ haIssued) :
       IsFiniteSet(new) /\ Cardinality(new) \in 1 .. MaxAttempts + 1}

CreateInHA(r) ==
    /\ todo = {} /\ r \in newRem
    /\ newRem' = newRem \ {r}
    /\ \/ \E new \in Candidates :
            /\ ha' = [h \in HAUIDs |-> IF h \in new THEN mapping[cur]
                                      ELSE ha[h]]
            /\ haIssued' = haIssued \cup new
            /\ \/ /\ \E h \in HAUIDs : new = {h} /\ UpsertItem(r, h)
                  /\ UNCHANGED <<tasks, faults>>
               \/ \E h \in HAUIDs : new = {h} /\ UNCHANGED <<db, tasks>> /\ Fault
               \/ /\ Cardinality(new) > 1
                  /\ faults + Cardinality(new) - 1 <= MaxFaults
                  /\ faults' = faults + Cardinality(new) - 1
                  /\ \/ Cardinality(new) <= MaxAttempts /\ UNCHANGED tasks
                     \/ tasks < MaxTasks /\ tasks' = tasks + 1
                  /\ UNCHANGED db
       \/ UNCHANGED <<ha, haIssued, db, tasks>> /\ Fault
    /\ UNCHANGED <<rem, remIssued, setting, phase, left, cur, remSnap, haSnap,
                   todo, newHA, summary, moves, edits, remaps, moved>>

(* createInReminders: a new reminder, the echo to the item, and the row. *)
CreateInReminders(h) ==
    /\ todo = {} /\ newRem = {} /\ h \in newHA
    /\ newHA' = newHA \ {h}
    /\ \/ \E r \in RemUIDs \ remIssued :
            /\ cur \notin hidden
            /\ rem' = [rem EXCEPT ![r] = cur]
            /\ remIssued' = remIssued \cup {r}
            /\ \/ /\ ha[h] = mapping[cur]
                  /\ UpsertItem(r, h) /\ UNCHANGED faults
               \/ ha[h] # mapping[cur] /\ UNCHANGED <<db, faults>>
               \/ UNCHANGED db /\ Fault
       \/ /\ cur \in hidden
          /\ UNCHANGED <<rem, remIssued, db, faults>>
       \/ UNCHANGED <<rem, remIssued, db>> /\ Fault
    /\ UNCHANGED <<ha, haIssued, setting, phase, left, cur, remSnap, haSnap,
                   todo, newRem, summary, users>>

(* publishListSummary reads the list again, and the row of each reminder. *)
LinkedItem(r) == IF r \in Tracked THEN db[r].ha ELSE None

Summary == {<<r, LinkedItem(r)>> : r \in {s \in RemUIDs : rem[s] = cur}}

PublishSummary ==
    /\ cur # None /\ todo = {} /\ newRem = {} /\ newHA = {}
    /\ cur' = None /\ haSnap' = {}
    /\ \/ cur \notin hidden /\ summary' = Summary /\ UNCHANGED faults
       \/ cur \in hidden /\ UNCHANGED <<summary, faults>>
       \/ UNCHANGED summary /\ Fault
    /\ UNCHANGED <<tasksIn, db, setting, phase, left, remSnap, todo, newRem,
                   newHA, users>>

EndPass ==
    /\ phase = "pass" /\ left = {} /\ cur = None
    /\ Drop
    /\ UNCHANGED <<tasksIn, db, setting, users, faults>>

Relay ==
    \/ FetchAll \/ PublishSummary \/ EndPass
    \/ \E l \in ListNames : OpenList(l)
    \/ \E r \in RemUIDs : \/ Keep(r) \/ DeleteFromHA(r) \/ DeleteFromRem(r)
                          \/ CreateInHA(r)
    \/ \E h \in HAUIDs : CreateInReminders(h)

(* The process dies and is started again, with its database. *)
Crash ==
    /\ phase = "pass" /\ Fault
    /\ Drop
    /\ UNCHANGED <<tasksIn, db, setting, users>>

-------------------------------------------------------------------------------
(* Users, at any point of a pass.  A reminder keeps its UID when it is moved;
   where it does not, that is a deletion and an addition. *)
AddReminder ==
    /\ tasks < MaxTasks /\ tasks' = tasks + 1
    /\ \E r \in RemUIDs \ remIssued, l \in ListNames :
         rem' = [rem EXCEPT ![r] = l] /\ remIssued' = remIssued \cup {r}
    /\ UNCHANGED <<ha, haIssued, db, setting, pass, moves, edits, remaps,
                   moved, faults>>

AddItem ==
    /\ tasks < MaxTasks /\ tasks' = tasks + 1
    /\ \E h \in HAUIDs \ haIssued, e \in Entities :
         ha' = [ha EXCEPT ![h] = e] /\ haIssued' = haIssued \cup {h}
    /\ UNCHANGED <<rem, remIssued, db, setting, pass, moves, edits, remaps,
                   moved, faults>>

MoveReminder ==
    /\ moves < MaxMoves /\ moves' = moves + 1
    /\ \E r \in Present(rem), l \in ListNames :
         /\ l # rem[r]
         /\ rem' = [rem EXCEPT ![r] = l]
         /\ moved' = moved \cup {r}
    /\ UNCHANGED <<ha, remIssued, haIssued, db, setting, pass, tasks, edits,
                   remaps, faults>>

Delete ==
    /\ edits < MaxEdits /\ edits' = edits + 1
    /\ \/ /\ \E r \in Present(rem) : rem' = [rem EXCEPT ![r] = None]
          /\ UNCHANGED ha
       \/ /\ \E h \in Present(ha) : ha' = [ha EXCEPT ![h] = None]
          /\ UNCHANGED rem
    /\ UNCHANGED <<remIssued, haIssued, db, setting, pass, tasks, moves,
                   remaps, moved, faults>>

(* A list is renamed, its account signs out, a namesake appears ... *)
Hide ==
    /\ edits < MaxEdits /\ edits' = edits + 1
    /\ \E l \in ListNames \ hidden : hidden' = hidden \cup {l}
    /\ UNCHANGED <<tasksIn, db, mapping, pass, tasks, moves, remaps, moved,
                   faults>>

(* ... and is back. *)
Show ==
    /\ \E l \in hidden : hidden' = hidden \ {l}
    /\ UNCHANGED <<tasksIn, db, mapping, pass, users, faults>>

User == AddReminder \/ AddItem \/ MoveReminder \/ Delete \/ Hide \/ Show

Next == Relay \/ Crash \/ User

Spec == Init /\ [][Next]_vars

(* Passes go on, as in Reconciler; a list that is hidden is found again. *)
FairSpec == Spec /\ WF_vars(Relay) /\ WF_vars(Show)

(* The configuration is changed and the daemon started again: its database has
   rows, so no bootstrap asks for anything. *)
Remap ==
    /\ phase = "idle" /\ Tracked # {}
    /\ remaps < MaxRemaps /\ remaps' = remaps + 1
    /\ \E m \in Mappings : m # mapping /\ mapping' = m
    /\ UNCHANGED <<tasksIn, db, hidden, pass, tasks, moves, edits, moved,
                   faults>>

ReconfiguredSpec == Init /\ [][Next \/ Remap]_vars

-------------------------------------------------------------------------------
(***************************************************************************)
(* What makes a pass over several lists correct.                           *)
(***************************************************************************)
(* What is in use has been handed out. *)
Issued ==
    /\ Present(rem) \cup Present(remSnap) \cup Tracked \subseteq remIssued
    /\ Present(ha) \cup haSnap \subseteq haIssued
    /\ \A r \in Tracked : db[r].ha \in haIssued

OneToOne == \A r, s \in Tracked : db[r].ha = db[s].ha => r = s

(* While the configuration is what it was, an item is in the entity that the
   list of its row is mapped to, wherever its reminder has been moved. *)
RowInItsEntity ==
    remaps = 0 => \A r \in Tracked :
                    /\ db[r].list \in Mapped
                    /\ ha[db[r].ha] \in {None, mapping[db[r].list]}

(* What the pass holds of the list it visits. *)
Visiting ==
    /\ phase = "idle" => cur = None /\ left = {}
    /\ cur \notin left
    /\ cur = None => todo = {} /\ newRem = {} /\ newHA = {}
    /\ cur # None => summary = {}
    /\ \A r \in todo : r \in Tracked /\ db[r].list = cur
    /\ \A r \in newRem : remSnap[r] = cur

(* A reminder with a row that the pass did not find is gone, or in no mapped
   list, or was moved since; an item it did not find is gone. *)
GoneIsGone ==
    /\ \A r \in Tracked :
         r \in todo \/ db[r].list \in left =>
           (remSnap[r] = None => rem[r] \notin Mapped \/ r \in moved)
    /\ remaps = 0 => \A r \in todo : ItemGone(r) => ha[db[r].ha] = None

(* Unless something failed, every reminder the pass found in the list it visits
   is new, gone by now, or has a row of this list. *)
Covered ==
    faults = 0 /\ cur # None =>
      \A r \in RemUIDs : remSnap[r] = cur =>
        \/ rem[r] = None \/ r \in newRem
        \/ r \in Tracked /\ db[r].list = cur

(* The inductive invariant: whatever is moved, hidden or reconfigured, rows
   stay one to one, and what looks gone to the list being visited is gone. *)
ListsInv ==
    /\ TypeOK /\ Issued /\ OneToOne
    /\ RowInItsEntity /\ Visiting /\ GoneIsGone /\ Covered

(* The relay deletes a reminder only when its item is gone, although it looks
   for the item in one entity only; and an item only when its reminder is gone
   from all mapped lists, or was when the pass read them: a list that does not
   resolve, or a move to another mapped list, deletes nothing. *)
ReminderMirrored ==
    \A r \in Present(rem) : rem'[r] = None =>
        r \in Tracked /\ ha[db[r].ha] = None

ItemMirrored ==
    \A h \in Present(ha) : ha'[h] = None =>
        \E r \in Tracked : /\ db[r].ha = h
                           /\ rem[r] \notin Mapped \/ r \in moved

DeletionsMirrored ==
    [][User \/ remaps # 0 \/ (ReminderMirrored /\ ItemMirrored)]_vars

(* What the documentation says of deletions, whatever the configuration was. *)
RemindersSurvive == [][User \/ ReminderMirrored]_vars

(* Unless something failed, the summary of a list names, for every reminder the
   pass found there, an item of that list's entity (or one just deleted), the
   reminders moved there from other lists included. *)
SummaryResolves ==
    [][ PublishSummary /\ summary' # {} /\ faults' = 0 /\ remaps = 0 =>
          \A t \in summary' : remSnap[t[1]] = cur =>
            t[2] # None /\ ha[t[2]] \in {None, mapping[cur]} ]_vars

(* A task is copied at most once for every move and deletion and twice for every
   failure (a lost response leaves two copies, none of which gets a row, and
   the task is still to be created): no pass keeps adding copies. *)
CopiesBounded ==
    LET causes == tasks + moves + edits + 2 * faults IN
    Cardinality(remIssued) <= causes /\ Cardinality(haIssued) <= causes

(* Once users and failures leave it alone, every reminder of a mapped list is
   linked in that list, with an item in its entity, and every item is linked. *)
Settled ==
    /\ \A r \in RemUIDs : rem[r] \in Mapped =>
         /\ r \in Tracked /\ db[r].list = rem[r]
         /\ ha[db[r].ha] = mapping[rem[r]]
    /\ \A r \in Tracked : rem[r] \in Mapped
    /\ \A h \in HAUIDs : (\E l \in Mapped : ha[h] = mapping[l]) =>
         \E r \in Tracked : db[r].ha = h

Converges == <>[]Settled
===============================================================================
