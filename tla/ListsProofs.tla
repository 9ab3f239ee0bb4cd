------------------------------ MODULE ListsProofs ------------------------------
(***************************************************************************)
(* Proofs, for every value of the constants, that ListsInv is inductive,   *)
(* changes of the configuration included, and of what follows from it for  *)
(* deletions and summaries.  One lemma per action, with one step per       *)
(* conjunct of the invariant.                                              *)
(***************************************************************************)
EXTENDS Lists, FiniteSetTheorems, TLAPS

USE DEF Row, tasksIn, lists, pass, setting, users, vars, Present, Tracked,
        Mapped

(* The configurations: their lists exist, and absence is neither list nor
   entity. *)
LEMMA Configured ==
    /\ \A m \in Mappings : /\ DOMAIN m \subseteq ListNames
                           /\ \A l \in DOMAIN m : m[l] \in Entities
    /\ None \notin ListNames /\ None \notin Entities
    /\ None \notin RemUIDs /\ None \notin HAUIDs /\ None \notin Row
BY ListsAssumption DEF ListsAssumption

(* Reading the reminders: every mapped list has been looked at. *)
LEMMA FetchAllKept ==
    ASSUME ListsInv, FetchAll
    PROVE  ListsInv'
<1> USE Configured DEF FetchAll, Resolved
<1>1. TypeOK' BY DEF ListsInv, TypeOK
<1>2. Issued' BY DEF ListsInv, TypeOK, Issued
<1>3. OneToOne' BY DEF ListsInv, TypeOK, Issued, OneToOne
<1>4. RowInItsEntity' BY DEF ListsInv, TypeOK, Issued, RowInItsEntity, Visiting
<1>5. Visiting' BY DEF ListsInv, TypeOK, Visiting
<1>6. GoneIsGone' BY DEF ListsInv, TypeOK, Issued, RowInItsEntity, Visiting, GoneIsGone, ReminderGone, ItemGone
<1>7. Covered' BY DEF ListsInv, TypeOK, Issued, Visiting, Covered, ReminderGone
<1>8. QED
  BY <1>1, <1>2, <1>3, <1>4, <1>5, <1>6, <1>7 DEF ListsInv

(* Opening a list: what no row of it names is new. *)
LEMMA OpenListKept ==
    ASSUME NEW l \in ListNames, ListsInv, OpenList(l)
    PROVE  ListsInv'
<1> USE Configured DEF OpenList, RowsOf, NewReminders, NewItems, Fault
<1>1. TypeOK' BY DEF ListsInv, TypeOK
<1>2. Issued' BY DEF ListsInv, TypeOK, Issued
<1>3. OneToOne' BY DEF ListsInv, TypeOK, Issued, OneToOne
<1>4. RowInItsEntity' BY DEF ListsInv, TypeOK, Issued, RowInItsEntity, Visiting
<1>5. Visiting' BY DEF ListsInv, TypeOK, Visiting
<1>6. GoneIsGone' BY DEF ListsInv, TypeOK, Issued, RowInItsEntity, Visiting, GoneIsGone, ReminderGone, ItemGone
<1>7. Covered' BY DEF ListsInv, TypeOK, Issued, Visiting, Covered, ReminderGone
<1>8. QED
  BY <1>1, <1>2, <1>3, <1>4, <1>5, <1>6, <1>7 DEF ListsInv

(* Nothing is gone. *)
LEMMA KeepKept ==
    ASSUME NEW r \in RemUIDs, ListsInv, Keep(r)
    PROVE  ListsInv'
<1> USE Configured DEF Keep, Visit
<1>1. TypeOK' BY DEF ListsInv, TypeOK
<1>2. Issued' BY DEF ListsInv, TypeOK, Issued
<1>3. OneToOne' BY DEF ListsInv, TypeOK, Issued, OneToOne
<1>4. RowInItsEntity' BY DEF ListsInv, TypeOK, Issued, RowInItsEntity, Visiting
<1>5. Visiting' BY DEF ListsInv, TypeOK, Visiting
<1>6. GoneIsGone' BY DEF ListsInv, TypeOK, Issued, RowInItsEntity, Visiting, GoneIsGone, ReminderGone, ItemGone
<1>7. Covered' BY DEF ListsInv, TypeOK, Issued, Visiting, Covered, ReminderGone
<1>8. QED
  BY <1>1, <1>2, <1>3, <1>4, <1>5, <1>6, <1>7 DEF ListsInv

(* The item of a reminder that is gone. *)
LEMMA DeleteFromHAKept ==
    ASSUME NEW r \in RemUIDs, ListsInv, DeleteFromHA(r)
    PROVE  ListsInv'
<1> USE Configured DEF DeleteFromHA, Visit, DropRow, Fault
<1>1. TypeOK' BY DEF ListsInv, TypeOK
<1>2. Issued' BY DEF ListsInv, TypeOK, Issued
<1>3. OneToOne' BY DEF ListsInv, TypeOK, Issued, OneToOne
<1>4. RowInItsEntity' BY DEF ListsInv, TypeOK, Issued, RowInItsEntity, Visiting
<1>5. Visiting' BY DEF ListsInv, TypeOK, Visiting
<1>6. GoneIsGone' BY DEF ListsInv, TypeOK, Issued, RowInItsEntity, Visiting, GoneIsGone, ReminderGone, ItemGone
<1>7. Covered' BY DEF ListsInv, TypeOK, Issued, Visiting, Covered, ReminderGone
<1>8. QED
  BY <1>1, <1>2, <1>3, <1>4, <1>5, <1>6, <1>7 DEF ListsInv

(* The reminder of an item that is gone. *)
LEMMA DeleteFromRemKept ==
    ASSUME NEW r \in RemUIDs, ListsInv, DeleteFromRem(r)
    PROVE  ListsInv'
<1> USE Configured DEF DeleteFromRem, Visit, DropRow, Fault
<1>1. TypeOK' BY DEF ListsInv, TypeOK
<1>2. Issued' BY DEF ListsInv, TypeOK, Issued
<1>3. OneToOne' BY DEF ListsInv, TypeOK, Issued, OneToOne
<1>4. RowInItsEntity' BY DEF ListsInv, TypeOK, Issued, RowInItsEntity, Visiting
<1>5. Visiting' BY DEF ListsInv, TypeOK, Visiting
<1>6. GoneIsGone' BY DEF ListsInv, TypeOK, Issued, RowInItsEntity, Visiting, GoneIsGone, ReminderGone, ItemGone
<1>7. Covered' BY DEF ListsInv, TypeOK, Issued, Visiting, Covered, ReminderGone
<1>8. QED
  BY <1>1, <1>2, <1>3, <1>4, <1>5, <1>6, <1>7 DEF ListsInv

(* A fresh item clashes with no row; items without a row are in no way. *)
LEMMA CreateInHAKept ==
    ASSUME NEW r \in RemUIDs, ListsInv, CreateInHA(r)
    PROVE  ListsInv'
<1> USE Configured DEF CreateInHA, Candidates, UpsertItem, Fault
<1>0. /\ cur \in Mapped /\ cur \in ListNames /\ mapping[cur] \in Entities
      /\ \A k \in HAUIDs : [ha |-> k, list |-> cur] \in Row
  BY DEF ListsInv, TypeOK, Visiting
<1>d. UNCHANGED db \/ \E k \in haIssued' :
        k \in HAUIDs /\ db' = [db EXCEPT ![r] = [ha |-> k, list |-> cur]]
  OBVIOUS
<1>e. db' \in [RemUIDs -> Row \cup {None}]
  BY <1>0, <1>d DEF ListsInv, TypeOK
<1>1. TypeOK' BY <1>0, <1>e DEF ListsInv, TypeOK
<1>2. Issued'
  <2>1. /\ Tracked' \subseteq remIssued'
        /\ \A s \in Tracked' : db'[s].ha \in haIssued'
    BY <1>0, <1>d DEF ListsInv, TypeOK, Issued, Visiting
  <2>2. Present(ha') \subseteq haIssued'
    BY <1>0 DEF ListsInv, TypeOK, Issued
  <2>3. QED
    BY <2>1, <2>2 DEF ListsInv, TypeOK, Issued
<1>3. OneToOne' BY DEF ListsInv, TypeOK, Issued, OneToOne
<1>4. RowInItsEntity' BY DEF ListsInv, TypeOK, Issued, RowInItsEntity, Visiting
<1>5. Visiting' BY DEF ListsInv, TypeOK, Visiting
<1>6. GoneIsGone' BY DEF ListsInv, TypeOK, Issued, RowInItsEntity, Visiting, GoneIsGone, ReminderGone, ItemGone
<1>7. Covered' BY DEF ListsInv, TypeOK, Issued, Visiting, Covered, ReminderGone
<1>8. QED
  BY <1>1, <1>2, <1>3, <1>4, <1>5, <1>6, <1>7 DEF ListsInv

(* A fresh reminder, unless another row names the item. *)
LEMMA CreateInRemindersKept ==
    ASSUME NEW h \in HAUIDs, ListsInv, CreateInReminders(h)
    PROVE  ListsInv'
<1> USE Configured DEF CreateInReminders, UpsertItem, Fault
<1>0. /\ cur \in Mapped /\ cur \in ListNames /\ mapping[cur] \in Entities
      /\ [ha |-> h, list |-> cur] \in Row
  BY DEF ListsInv, TypeOK, Visiting
<1>d. db' \in [RemUIDs -> Row \cup {None}]
  BY <1>0 DEF ListsInv, TypeOK
<1>1. TypeOK' BY <1>0, <1>d DEF ListsInv, TypeOK
<1>2. Issued'
  <2>1. UNCHANGED db \/ \E r \in remIssued' :
          h \in haIssued /\ db' = [db EXCEPT ![r] = [ha |-> h, list |-> cur]]
    BY <1>0, Configured DEF ListsInv, TypeOK, Issued
  <2>2. /\ Tracked' \subseteq remIssued'
        /\ \A s \in Tracked' : db'[s].ha \in haIssued'
    BY <1>0, <2>1 DEF ListsInv, TypeOK, Issued
  <2>3. Present(rem') \subseteq remIssued'
    BY DEF ListsInv, TypeOK, Issued
  <2>4. QED
    BY <2>2, <2>3 DEF ListsInv, TypeOK, Issued
<1>3. OneToOne' BY DEF ListsInv, TypeOK, Issued, OneToOne
<1>4. RowInItsEntity' BY DEF ListsInv, TypeOK, Issued, RowInItsEntity, Visiting
<1>5. Visiting' BY DEF ListsInv, TypeOK, Visiting
<1>6. GoneIsGone' BY DEF ListsInv, TypeOK, Issued, RowInItsEntity, Visiting, GoneIsGone, ReminderGone, ItemGone
<1>7. Covered' BY DEF ListsInv, TypeOK, Issued, Visiting, Covered, ReminderGone
<1>8. QED
  BY <1>1, <1>2, <1>3, <1>4, <1>5, <1>6, <1>7 DEF ListsInv

(* The list is done. *)
LEMMA PublishSummaryKept ==
    ASSUME ListsInv, PublishSummary
    PROVE  ListsInv'
<1> USE Configured DEF PublishSummary, Fault
<1>1. TypeOK' BY DEF ListsInv, TypeOK
<1>2. Issued' BY DEF ListsInv, TypeOK, Issued
<1>3. OneToOne' BY DEF ListsInv, TypeOK, Issued, OneToOne
<1>4. RowInItsEntity' BY DEF ListsInv, TypeOK, Issued, RowInItsEntity, Visiting
<1>5. Visiting' BY DEF ListsInv, TypeOK, Visiting
<1>6. GoneIsGone' BY DEF ListsInv, TypeOK, Issued, RowInItsEntity, Visiting, GoneIsGone, ReminderGone, ItemGone
<1>7. Covered' BY DEF ListsInv, TypeOK, Issued, Visiting, Covered, ReminderGone
<1>8. QED
  BY <1>1, <1>2, <1>3, <1>4, <1>5, <1>6, <1>7 DEF ListsInv

(* The pass is over, or lost. *)
LEMMA EndPassKept ==
    ASSUME ListsInv, EndPass \/ Crash
    PROVE  ListsInv'
<1> USE Configured DEF EndPass, Crash, Drop, Fault
<1>1. TypeOK' BY DEF ListsInv, TypeOK
<1>2. Issued' BY DEF ListsInv, TypeOK, Issued
<1>3. OneToOne' BY DEF ListsInv, TypeOK, Issued, OneToOne
<1>4. RowInItsEntity' BY DEF ListsInv, TypeOK, Issued, RowInItsEntity, Visiting
<1>5. Visiting' BY DEF ListsInv, TypeOK, Visiting
<1>6. GoneIsGone' BY DEF ListsInv, TypeOK, Issued, RowInItsEntity, Visiting, GoneIsGone, ReminderGone, ItemGone
<1>7. Covered' BY DEF ListsInv, TypeOK, Issued, Visiting, Covered, ReminderGone
<1>8. QED
  BY <1>1, <1>2, <1>3, <1>4, <1>5, <1>6, <1>7 DEF ListsInv

(* Users, whatever the pass is doing. *)
LEMMA UserKept ==
    ASSUME ListsInv, User
    PROVE  ListsInv'
<1> USE Configured DEF User, AddReminder, AddItem, MoveReminder, Delete, Hide, Show
<1>1. TypeOK' BY DEF ListsInv, TypeOK
<1>2. Issued' BY DEF ListsInv, TypeOK, Issued
<1>3. OneToOne' BY DEF ListsInv, TypeOK, Issued, OneToOne
<1>4. RowInItsEntity' BY DEF ListsInv, TypeOK, Issued, RowInItsEntity, Visiting
<1>5. Visiting' BY DEF ListsInv, TypeOK, Visiting
<1>6. GoneIsGone' BY DEF ListsInv, TypeOK, Issued, RowInItsEntity, Visiting, GoneIsGone, ReminderGone, ItemGone
<1>7. Covered' BY DEF ListsInv, TypeOK, Issued, Visiting, Covered, ReminderGone
<1>8. QED
  BY <1>1, <1>2, <1>3, <1>4, <1>5, <1>6, <1>7 DEF ListsInv

(* Another configuration: nothing is under way. *)
LEMMA RemapKept ==
    ASSUME ListsInv, Remap
    PROVE  ListsInv'
<1> USE Configured DEF Remap
<1>1. TypeOK' BY DEF ListsInv, TypeOK, Visiting
<1>2. Issued' BY DEF ListsInv, TypeOK, Issued
<1>3. OneToOne' BY DEF ListsInv, TypeOK, Issued, OneToOne
<1>4. RowInItsEntity' BY DEF ListsInv, TypeOK, Issued, RowInItsEntity, Visiting
<1>5. Visiting' BY DEF ListsInv, TypeOK, Visiting
<1>6. GoneIsGone' BY DEF ListsInv, TypeOK, Issued, RowInItsEntity, Visiting, GoneIsGone, ReminderGone, ItemGone
<1>7. Covered' BY DEF ListsInv, TypeOK, Issued, Visiting, Covered, ReminderGone
<1>8. QED
  BY <1>1, <1>2, <1>3, <1>4, <1>5, <1>6, <1>7 DEF ListsInv

(* The daemon starts with rows for tasks that are in place. *)
LEMMA InitHolds == Init => ListsInv
<1> SUFFICES ASSUME Init PROVE ListsInv
  OBVIOUS
<1> USE Configured DEF Init, Idle
<1>1. tasks \in Nat
  BY FS_CardinalityType
<1>2. db \in [RemUIDs -> Row \cup {None}]
  OBVIOUS
<1>t. TypeOK BY <1>1, <1>2, ListsAssumption DEF TypeOK, ListsAssumption
<1>3. Issued BY DEF Issued
<1>4. OneToOne BY DEF OneToOne
<1>5. RowInItsEntity BY DEF RowInItsEntity
<1>6. Visiting BY DEF Visiting
<1>7. GoneIsGone BY DEF GoneIsGone
<1>8. Covered BY DEF Covered
<1>9. QED
  BY <1>t, <1>3, <1>4, <1>5, <1>6, <1>7, <1>8 DEF ListsInv

LEMMA StepHolds == ListsInv /\ [Next \/ Remap]_vars => ListsInv'
<1> SUFFICES ASSUME ListsInv, [Next \/ Remap]_vars PROVE ListsInv'
  OBVIOUS
<1>1. CASE UNCHANGED vars
  BY <1>1 DEF ListsInv, TypeOK, Issued, OneToOne, RowInItsEntity, Visiting,
              GoneIsGone, Covered, ItemGone
<1>2. CASE Next \/ Remap
  BY <1>2, FetchAllKept, OpenListKept, KeepKept, DeleteFromHAKept,
     DeleteFromRemKept, CreateInHAKept, CreateInRemindersKept,
     PublishSummaryKept, EndPassKept, UserKept, RemapKept DEF Next, Relay
<1>3. QED
  BY <1>1, <1>2

(* Rows stay one to one and what looks gone is gone, also when lists are given
   other entities. *)
THEOREM ListsInvariant == ReconfiguredSpec => []ListsInv
  BY InitHolds, StepHolds, PTL DEF ReconfiguredSpec

(* The same of a daemon that keeps its configuration. *)
THEOREM ListsInvariantKept == Spec => []ListsInv
<1>1. [Next]_vars => [Next \/ Remap]_vars
  OBVIOUS
<1>2. QED
  BY <1>1, InitHolds, StepHolds, PTL DEF Spec

(* What the steps of the relay delete. *)
LEMMA MirroredStep ==
    ASSUME ListsInv, Next \/ Remap
    PROVE  User \/ remaps # 0 \/ (ReminderMirrored /\ ItemMirrored)
<1> SUFFICES ASSUME ~User, remaps = 0 PROVE ReminderMirrored /\ ItemMirrored
  OBVIOUS
<1> USE Configured DEF ListsInv
<1>1. CASE \E r \in RemUIDs : DeleteFromHA(r)
  BY <1>1 DEF DeleteFromHA, Visit, TypeOK, Visiting, GoneIsGone, ReminderGone,
              ReminderMirrored, ItemMirrored
<1>2. CASE \E r \in RemUIDs : DeleteFromRem(r)
  BY <1>2 DEF DeleteFromRem, Visit, TypeOK, Visiting, GoneIsGone,
              ReminderMirrored, ItemMirrored
<1>3. CASE (\E r \in RemUIDs : CreateInHA(r)) \/ \E h \in HAUIDs : CreateInReminders(h)
  BY <1>3 DEF CreateInHA, CreateInReminders, TypeOK, Issued, Visiting,
              ReminderMirrored, ItemMirrored
<1>4. CASE UNCHANGED <<rem, ha>>
  BY <1>4 DEF ReminderMirrored, ItemMirrored
<1>5. QED
  BY <1>1, <1>2, <1>3, <1>4 DEF Next, Relay, FetchAll, OpenList, Keep,
     PublishSummary, EndPass, Crash, Remap

(* A task disappears from one side only when it is gone from the other, with
   any number of lists: moved, hidden and skipped lists delete nothing. *)
THEOREM OnlyMirroredDeletions == Spec => DeletionsMirrored
<1>1. ListsInv /\ [Next]_vars =>
        [User \/ remaps # 0 \/ (ReminderMirrored /\ ItemMirrored)]_vars
  BY MirroredStep
<1>2. QED
  BY <1>1, ListsInvariantKept, PTL DEF Spec, DeletionsMirrored

(* Without failures every task of a summary that the pass found in the list
   names an item of the entity the summary is for. *)
THEOREM SummariesResolve == Spec => SummaryResolves
<1>1. ASSUME ListsInv
      PROVE  PublishSummary /\ summary' # {} /\ faults' = 0 /\ remaps = 0 =>
               \A t \in summary' : remSnap[t[1]] = cur =>
                 t[2] # None /\ ha[t[2]] \in {None, mapping[cur]}
  <2> SUFFICES ASSUME PublishSummary, summary' # {}, faults' = 0, remaps = 0,
                      NEW t \in summary', remSnap[t[1]] = cur
               PROVE  t[2] # None /\ ha[t[2]] \in {None, mapping[cur]}
    OBVIOUS
  <2>1. summary' = Summary /\ faults = 0
    BY <1>1 DEF PublishSummary, ListsInv, TypeOK, Visiting, Fault
  <2>2. PICK r \in RemUIDs : t = <<r, LinkedItem(r)>> /\ rem[r] = cur
    BY <2>1 DEF Summary
  <2>3. r \in Tracked /\ db[r].list = cur
    BY <1>1, <2>1, <2>2, Configured DEF PublishSummary, ListsInv, TypeOK, Covered
  <2>4. QED
    BY <1>1, <2>2, <2>3, Configured
       DEF LinkedItem, ListsInv, TypeOK, RowInItsEntity
<1>2. QED
  BY <1>1, ListsInvariantKept, PTL DEF Spec, SummaryResolves
-------------------------------------------------------------------------------
(***************************************************************************)
(* Copies are counted                                                      *)
(***************************************************************************)
(* No two lists of a configuration share an entity. *)
Distinct == \A m \in Mappings : \A k, l \in DOMAIN m : m[k] = m[l] => k = l

(* The pass is about to create an item for these reminders. *)
ItemsDue == newRem \cup
    {r \in RemUIDs : remSnap[r] \in left /\ r \notin RowsOf(remSnap[r])}

(* The row of r is one of the list r is in, and the pass will not drop it. *)
InPlace(r) ==
    /\ r \in RowsOf(rem[r])
    /\ remSnap[r] = None => r \notin todo /\ db[r].list \notin left

(* Reminders that have still to be copied to HA ... *)
ItemsOwed == ItemsDue \cup {r \in Present(rem) : ~InPlace(r)}

(* ... and, moved since the pass read them, once more after that. *)
MovedOn == {r \in ItemsDue : rem[r] # None /\ rem[r] # remSnap[r]}

(* Items that are gone, but will be copied all the same. *)
Ghosts == {h \in newHA : ha[h] = None}

(* Items that have still to be copied to Reminders: no row names them, or its
   reminder is about to get another item. *)
RemindersOwed == newHA \cup
    {h \in Present(ha) : \A r \in Tracked : db[r].ha = h =>
        r \in ItemsDue \/ (rem[r] # None /\ rem[r] # db[r].list)}

causes == tasks + moves + edits + 2 * faults

(* The new items of the entity are in it, or gone, and no row of the list that
   is visited names them. *)
NewItemsUnlinked ==
    /\ remaps = 0
    /\ \A h \in newHA : h \in haIssued /\ ha[h] \in {None, mapping[cur]}
    /\ cur # None => \A r \in RowsOf(cur) : db[r].ha \notin newHA

(* What was copied and what has still to be copied is no more than what users
   have done and what has failed. *)
Counted ==
    /\ IsFiniteSet(remIssued) /\ IsFiniteSet(haIssued)
    /\ Cardinality(haIssued) + Cardinality(ItemsOwed) + Cardinality(MovedOn)
         + Cardinality(Ghosts) <= causes
    /\ Cardinality(remIssued) + Cardinality(RemindersOwed)
         + Cardinality(MovedOn) <= causes

CountInv == ListsInv /\ NewItemsUnlinked /\ Counted

(* S is finite, and T is smaller, no larger, or larger by one at most. *)
LEMMA Sizes ==
    ASSUME NEW S, IsFiniteSet(S), NEW T
    PROVE  /\ Cardinality(S) \in Nat
           /\ T \subseteq S => /\ IsFiniteSet(T) /\ Cardinality(T) \in Nat
                               /\ Cardinality(T) <= Cardinality(S)
           /\ \A x : T \subseteq S \cup {x} =>
                /\ IsFiniteSet(T) /\ Cardinality(T) \in Nat
                /\ Cardinality(T) <= Cardinality(S) + 1
           /\ \A x \in S : T \subseteq S \ {x} =>
                /\ IsFiniteSet(T) /\ Cardinality(T) \in Nat
                /\ Cardinality(T) + 1 <= Cardinality(S)
<1>1. Cardinality(S) \in Nat
  BY FS_CardinalityType
<1>2. ASSUME NEW U, IsFiniteSet(U), T \subseteq U
      PROVE  /\ IsFiniteSet(T) /\ Cardinality(T) \in Nat
             /\ Cardinality(T) <= Cardinality(U)
  BY <1>2, FS_Subset, FS_CardinalityType
<1>3. ASSUME NEW x PROVE /\ IsFiniteSet(S \cup {x})
                         /\ Cardinality(S \cup {x}) \in Nat
                         /\ Cardinality(S \cup {x}) <= Cardinality(S) + 1
  BY <1>1, FS_AddElement, FS_CardinalityType
<1>4. ASSUME NEW x \in S PROVE /\ IsFiniteSet(S \ {x})
                               /\ Cardinality(S \ {x}) = Cardinality(S) - 1
  BY FS_RemoveElement
<1>5. QED
  <2>1. ASSUME NEW x, T \subseteq S \cup {x}
        PROVE  /\ IsFiniteSet(T) /\ Cardinality(T) \in Nat
               /\ Cardinality(T) <= Cardinality(S) + 1
    <3>1. IsFiniteSet(T) /\ Cardinality(T) \in Nat
          /\ Cardinality(T) <= Cardinality(S \cup {x})
      BY <1>2, <1>3, <2>1
    <3>2. /\ Cardinality(S \cup {x}) \in Nat
          /\ Cardinality(S \cup {x}) <= Cardinality(S) + 1
      BY <1>3
    <3>3. QED
      BY <1>1, <3>1, <3>2
  <2>2. ASSUME NEW x \in S, T \subseteq S \ {x}
        PROVE  /\ IsFiniteSet(T) /\ Cardinality(T) \in Nat
               /\ Cardinality(T) + 1 <= Cardinality(S)
    <3>1. IsFiniteSet(T) /\ Cardinality(T) \in Nat
          /\ Cardinality(T) <= Cardinality(S \ {x})
      BY <1>2, <1>4, <2>2
    <3>2. QED
      BY <1>1, <1>4, <3>1
  <2>3. QED
    BY <1>1, <1>2, <2>1, <2>2

(* Of finite sets: two without a common element, and what is in either. *)
LEMMA Disjoint ==
    ASSUME NEW S, NEW T, IsFiniteSet(S), IsFiniteSet(T), S \cap T = {}
    PROVE  /\ IsFiniteSet(S \cup T)
           /\ Cardinality(S \cup T) = Cardinality(S) + Cardinality(T)
<1>1. Cardinality(S \cap T) = 0
  BY FS_EmptySet
<1>2. QED
  BY <1>1, FS_Union, FS_CardinalityType

LEMMA AtMostBoth ==
    ASSUME NEW S, NEW T, NEW U, IsFiniteSet(S), IsFiniteSet(T),
           U \subseteq S \cup T
    PROVE  /\ Cardinality(U) \in Nat
           /\ Cardinality(U) <= Cardinality(S) + Cardinality(T)
<1>1. /\ IsFiniteSet(S \cup T)
      /\ Cardinality(S \cup T) = Cardinality(S) + Cardinality(T)
                                    - Cardinality(S \cap T)
  BY FS_Union
<1>2. IsFiniteSet(S \cap T)
  BY FS_Subset
<1>3. /\ IsFiniteSet(U) /\ Cardinality(U) <= Cardinality(S \cup T)
  BY <1>1, FS_Subset
<1>4. QED
  BY <1>1, <1>2, <1>3, FS_CardinalityType

(* Everything that is counted is finite. *)
LEMMA CountsFinite ==
    ASSUME CountInv
    PROVE  /\ IsFiniteSet(ItemsOwed) /\ IsFiniteSet(MovedOn)
           /\ IsFiniteSet(Ghosts) /\ IsFiniteSet(RemindersOwed)
           /\ IsFiniteSet(remIssued) /\ IsFiniteSet(haIssued)
           /\ Cardinality(ItemsOwed) \in Nat /\ Cardinality(MovedOn) \in Nat
           /\ Cardinality(Ghosts) \in Nat /\ Cardinality(RemindersOwed) \in Nat
           /\ Cardinality(remIssued) \in Nat /\ Cardinality(haIssued) \in Nat
           /\ causes \in Nat
<1>1. ItemsDue \subseteq remIssued
  BY Configured DEF CountInv, ListsInv, TypeOK, Issued, Visiting, ItemsDue
<1>2. ItemsOwed \subseteq remIssued /\ MovedOn \subseteq remIssued
  BY <1>1 DEF CountInv, ListsInv, Issued, ItemsOwed, MovedOn
<1>3. Ghosts \subseteq haIssued /\ RemindersOwed \subseteq haIssued
  BY DEF CountInv, ListsInv, Issued, NewItemsUnlinked, Ghosts, RemindersOwed
<1>4. causes \in Nat
  BY DEF CountInv, ListsInv, TypeOK, causes
<1>5. QED
  BY <1>2, <1>3, <1>4, Sizes DEF CountInv, Counted

(* Nothing is copied, and no more has still to be copied. *)
LEMMA NotMore ==
    ASSUME CountInv, UNCHANGED <<remIssued, haIssued>>,
           causes' \in Nat, causes' >= causes,
           ItemsOwed' \subseteq ItemsOwed, MovedOn' \subseteq MovedOn,
           Ghosts' \subseteq Ghosts, RemindersOwed' \subseteq RemindersOwed
    PROVE  Counted'
<1>1. /\ Cardinality(ItemsOwed') \in Nat /\ Cardinality(MovedOn') \in Nat
      /\ Cardinality(Ghosts') \in Nat /\ Cardinality(RemindersOwed') \in Nat
      /\ Cardinality(ItemsOwed') <= Cardinality(ItemsOwed)
      /\ Cardinality(MovedOn') <= Cardinality(MovedOn)
      /\ Cardinality(Ghosts') <= Cardinality(Ghosts)
      /\ Cardinality(RemindersOwed') <= Cardinality(RemindersOwed)
  BY CountsFinite, Sizes
<1>2. QED
  BY <1>1, CountsFinite DEF CountInv, Counted

(* The steps that copy nothing. *)
LEMMA FetchAllCounted ==
    ASSUME CountInv, FetchAll
    PROVE  NewItemsUnlinked' /\ Counted'
<1> USE Configured DEF FetchAll, Resolved, RowsOf, CountInv, ListsInv, TypeOK, Visiting
<1>1. NewItemsUnlinked' BY DEF NewItemsUnlinked
<1>2. ItemsOwed' \subseteq ItemsOwed
  BY DEF ItemsOwed, ItemsDue, InPlace, RowInItsEntity, NewItemsUnlinked
<1>3. MovedOn' \subseteq MovedOn BY DEF MovedOn, ItemsDue
<1>4. Ghosts' \subseteq Ghosts BY DEF Ghosts
<1>5. RemindersOwed' \subseteq RemindersOwed
  BY DEF RemindersOwed, ItemsDue
<1>6. causes' \in Nat /\ causes' >= causes
  BY DEF causes
<1>7. QED
  BY <1>1, <1>2, <1>3, <1>4, <1>5, <1>6, NotMore

(* Opening a list: its new items were owed a reminder already. *)
LEMMA OpenListCounted ==
    ASSUME CountInv, Distinct, NEW l \in ListNames, OpenList(l)
    PROVE  NewItemsUnlinked' /\ Counted'
<1> USE Configured DEF OpenList, NewReminders, NewItems, Fault, Distinct, RowsOf, CountInv, ListsInv, TypeOK, Visiting
<1>1. NewItemsUnlinked' BY DEF NewItemsUnlinked, Issued
<1>2. ItemsOwed' \subseteq ItemsOwed
  BY DEF ItemsOwed, ItemsDue, InPlace, RowInItsEntity, NewItemsUnlinked
<1>3. MovedOn' \subseteq MovedOn BY DEF MovedOn, ItemsDue
<1>4. Ghosts' \subseteq Ghosts BY DEF Ghosts, NewItemsUnlinked
<1>5. RemindersOwed' \subseteq RemindersOwed
  BY DEF RemindersOwed, ItemsDue, NewItemsUnlinked, RowInItsEntity, GoneIsGone
<1>6. causes' \in Nat /\ causes' >= causes
  BY DEF causes
<1>7. QED
  BY <1>1, <1>2, <1>3, <1>4, <1>5, <1>6, NotMore

(* A row that is left alone. *)
LEMMA KeepCounted ==
    ASSUME CountInv, NEW r \in RemUIDs, Keep(r)
    PROVE  NewItemsUnlinked' /\ Counted'
<1> USE Configured DEF Keep, Visit, RowsOf, CountInv, ListsInv, TypeOK, Visiting
<1>1. NewItemsUnlinked' BY DEF NewItemsUnlinked, Issued
<1>2. ItemsOwed' \subseteq ItemsOwed
  BY DEF ItemsOwed, ItemsDue, InPlace, RowInItsEntity, NewItemsUnlinked
<1>3. MovedOn' \subseteq MovedOn BY DEF MovedOn, ItemsDue
<1>4. Ghosts' \subseteq Ghosts BY DEF Ghosts, NewItemsUnlinked
<1>5. RemindersOwed' \subseteq RemindersOwed
  BY DEF RemindersOwed, ItemsDue, NewItemsUnlinked, RowInItsEntity, GoneIsGone
<1>6. causes' \in Nat /\ causes' >= causes
  BY DEF causes
<1>7. QED
  BY <1>1, <1>2, <1>3, <1>4, <1>5, <1>6, NotMore

(* A row goes, its reminder having been owed an item if it is back by now. *)
LEMMA DeleteFromHACounted ==
    ASSUME CountInv, NEW r \in RemUIDs, DeleteFromHA(r)
    PROVE  NewItemsUnlinked' /\ Counted'
<1> USE Configured DEF DeleteFromHA, Visit, DropRow, Fault, ReminderGone, ItemGone, RowsOf, CountInv, ListsInv, TypeOK, Visiting
<1>1. NewItemsUnlinked' BY DEF NewItemsUnlinked, Issued
<1>2. ItemsOwed' \subseteq ItemsOwed
  BY DEF ItemsOwed, ItemsDue, InPlace, RowInItsEntity, NewItemsUnlinked
<1>3. MovedOn' \subseteq MovedOn BY DEF MovedOn, ItemsDue
<1>4. Ghosts' \subseteq Ghosts BY DEF Ghosts, NewItemsUnlinked
<1>5. RemindersOwed' \subseteq RemindersOwed
  BY DEF RemindersOwed, ItemsDue, NewItemsUnlinked, RowInItsEntity, GoneIsGone
<1>6. causes' \in Nat /\ causes' >= causes
  BY DEF causes
<1>7. QED
  BY <1>1, <1>2, <1>3, <1>4, <1>5, <1>6, NotMore

(* A row goes with its reminder, and its item is gone. *)
LEMMA DeleteFromRemCounted ==
    ASSUME CountInv, NEW r \in RemUIDs, DeleteFromRem(r)
    PROVE  NewItemsUnlinked' /\ Counted'
<1> USE Configured DEF DeleteFromRem, Visit, DropRow, Fault, ReminderGone, ItemGone, RowsOf, CountInv, ListsInv, TypeOK, Visiting
<1>1. NewItemsUnlinked' BY DEF NewItemsUnlinked, Issued
<1>2. ItemsOwed' \subseteq ItemsOwed
  BY DEF ItemsOwed, ItemsDue, InPlace, RowInItsEntity, NewItemsUnlinked
<1>3. MovedOn' \subseteq MovedOn BY DEF MovedOn, ItemsDue
<1>4. Ghosts' \subseteq Ghosts BY DEF Ghosts, NewItemsUnlinked
<1>5. RemindersOwed' \subseteq RemindersOwed
  BY DEF RemindersOwed, ItemsDue, NewItemsUnlinked, RowInItsEntity, GoneIsGone
<1>6. causes' \in Nat /\ causes' >= causes
  BY DEF causes
<1>7. QED
  BY <1>1, <1>2, <1>3, <1>4, <1>5, <1>6, NotMore

(* The list is done. *)
LEMMA PublishSummaryCounted ==
    ASSUME CountInv, PublishSummary
    PROVE  NewItemsUnlinked' /\ Counted'
<1> USE Configured DEF PublishSummary, Fault, RowsOf, CountInv, ListsInv, TypeOK, Visiting
<1>1. NewItemsUnlinked' BY DEF NewItemsUnlinked, Issued
<1>2. ItemsOwed' \subseteq ItemsOwed
  BY DEF ItemsOwed, ItemsDue, InPlace, RowInItsEntity, NewItemsUnlinked
<1>3. MovedOn' \subseteq MovedOn BY DEF MovedOn, ItemsDue
<1>4. Ghosts' \subseteq Ghosts BY DEF Ghosts, NewItemsUnlinked
<1>5. RemindersOwed' \subseteq RemindersOwed
  BY DEF RemindersOwed, ItemsDue, NewItemsUnlinked, RowInItsEntity, GoneIsGone
<1>6. causes' \in Nat /\ causes' >= causes
  BY DEF causes
<1>7. QED
  BY <1>1, <1>2, <1>3, <1>4, <1>5, <1>6, NotMore

(* What a pass was about to create is owed as before. *)
LEMMA EndPassCounted ==
    ASSUME CountInv, EndPass \/ Crash
    PROVE  NewItemsUnlinked' /\ Counted'
<1> USE Configured DEF EndPass, Crash, Drop, Fault, RowsOf, CountInv, ListsInv, TypeOK, Visiting
<1>1. NewItemsUnlinked' BY DEF NewItemsUnlinked, Issued
<1>2. ItemsOwed' \subseteq ItemsOwed
  BY DEF ItemsOwed, ItemsDue, InPlace, RowInItsEntity, NewItemsUnlinked
<1>3. MovedOn' \subseteq MovedOn BY DEF MovedOn, ItemsDue
<1>4. Ghosts' \subseteq Ghosts BY DEF Ghosts, NewItemsUnlinked
<1>5. RemindersOwed' \subseteq RemindersOwed
  BY DEF RemindersOwed, ItemsDue, NewItemsUnlinked, RowInItsEntity, GoneIsGone
<1>6. causes' \in Nat /\ causes' >= causes
  BY DEF causes
<1>7. QED
  BY <1>1, <1>2, <1>3, <1>4, <1>5, <1>6, NotMore

(* Hidden lists. *)
LEMMA HideCounted ==
    ASSUME CountInv, Hide \/ Show
    PROVE  NewItemsUnlinked' /\ Counted'
<1> USE Configured DEF Hide, Show, RowsOf, CountInv, ListsInv, TypeOK, Visiting
<1>1. NewItemsUnlinked' BY DEF NewItemsUnlinked, Issued
<1>2. ItemsOwed' \subseteq ItemsOwed
  BY DEF ItemsOwed, ItemsDue, InPlace, RowInItsEntity, NewItemsUnlinked
<1>3. MovedOn' \subseteq MovedOn BY DEF MovedOn, ItemsDue
<1>4. Ghosts' \subseteq Ghosts BY DEF Ghosts, NewItemsUnlinked
<1>5. RemindersOwed' \subseteq RemindersOwed
  BY DEF RemindersOwed, ItemsDue, NewItemsUnlinked, RowInItsEntity, GoneIsGone
<1>6. causes' \in Nat /\ causes' >= causes
  BY DEF causes
<1>7. QED
  BY <1>1, <1>2, <1>3, <1>4, <1>5, <1>6, NotMore

(* New items are in the entity of their list, and the row is of that list. *)
LEMMA CreateInHACounted ==
    ASSUME CountInv, NEW r \in RemUIDs, CreateInHA(r)
    PROVE  NewItemsUnlinked' /\ Counted'
<1> USE Configured
    DEF CreateInHA, Candidates, RowsOf, Fault, CountInv, ListsInv, TypeOK,
        Visiting
<1>0. /\ cur \in Mapped /\ cur # None /\ cur \notin left
      /\ mapping[cur] \in Entities /\ mapping[cur] # None
      /\ r \in newRem /\ newRem' = newRem \ {r} /\ remSnap[r] = cur
      /\ todo = {} /\ r \in ItemsDue
  BY DEF ItemsDue
<1>1. \/ \E new \in Candidates :
           /\ ha' = [h \in HAUIDs |-> IF h \in new THEN mapping[cur] ELSE ha[h]]
           /\ haIssued' = haIssued \cup new
           /\ \/ /\ \E h \in HAUIDs :
                       /\ new = {h}
                       /\ db' = [db EXCEPT ![r] = [ha |-> h, list |-> cur]]
                 /\ UNCHANGED <<tasks, faults>>
              \/ /\ UNCHANGED db
                 /\ tasks' \in {tasks, tasks + 1}
                 /\ faults' \in Nat /\ faults' >= faults + 1
                 /\ faults' >= faults + Cardinality(new) - 1
      \/ UNCHANGED <<ha, haIssued, db, tasks>> /\ faults' = faults + 1
  <2>1. \A new \in Candidates : Cardinality(new) \in Nat
    BY FS_CardinalityType
  <2>2. \A h : Cardinality({h}) = 1
    BY FS_Singleton
  <2>3. ASSUME NEW new \in Candidates, NEW h \in HAUIDs,
               haIssued' = haIssued \cup new, new = {h}
        PROVE  UpsertItem(r, h) => db' = [db EXCEPT ![r] = [ha |-> h, list |-> cur]]
    BY <2>3 DEF UpsertItem, Issued
  <2>4. CASE UNCHANGED <<ha, haIssued, db, tasks>> /\ Fault
    BY <2>4
  <2>5. CASE \E new \in Candidates :
               /\ ha' = [h \in HAUIDs |-> IF h \in new THEN mapping[cur] ELSE ha[h]]
               /\ haIssued' = haIssued \cup new
               /\ \/ /\ \E h \in HAUIDs : new = {h} /\ UpsertItem(r, h)
                     /\ UNCHANGED <<tasks, faults>>
                  \/ \E h \in HAUIDs : new = {h} /\ UNCHANGED <<db, tasks>> /\ Fault
                  \/ /\ Cardinality(new) > 1
                     /\ faults' = faults + Cardinality(new) - 1
                     /\ tasks' \in {tasks, tasks + 1}
                     /\ UNCHANGED db
    <3> HIDE DEF CreateInHA, Candidates, UpsertItem, ListsInv, Visiting, RowsOf
    <3>1. PICK new \in Candidates :
               /\ ha' = [h \in HAUIDs |-> IF h \in new THEN mapping[cur] ELSE ha[h]]
               /\ haIssued' = haIssued \cup new
               /\ \/ /\ \E h \in HAUIDs : new = {h} /\ UpsertItem(r, h)
                     /\ UNCHANGED <<tasks, faults>>
                  \/ \E h \in HAUIDs : new = {h} /\ UNCHANGED <<db, tasks>> /\ Fault
                  \/ /\ Cardinality(new) > 1
                     /\ faults' = faults + Cardinality(new) - 1
                     /\ tasks' \in {tasks, tasks + 1}
                     /\ UNCHANGED db
      BY <2>5
    <3>2. faults \in Nat /\ tasks \in Nat /\ Cardinality(new) \in Nat
      BY <2>1 DEF ListsInv
    <3>3. CASE /\ \E h \in HAUIDs : new = {h} /\ UpsertItem(r, h)
               /\ UNCHANGED <<tasks, faults>>
      BY <2>3, <3>1, <3>3
    <3>4. CASE \E h \in HAUIDs : new = {h} /\ UNCHANGED <<db, tasks>> /\ Fault
      <4>1. Cardinality(new) = 1
        BY <2>2, <3>4
      <4>2. faults' = faults + 1 /\ UNCHANGED <<db, tasks>>
        BY <3>4
      <4>3. QED
        BY <3>1, <3>2, <4>1, <4>2
    <3>5. CASE /\ Cardinality(new) > 1
               /\ faults' = faults + Cardinality(new) - 1
               /\ tasks' \in {tasks, tasks + 1}
               /\ UNCHANGED db
      BY <3>1, <3>2, <3>5
    <3>6. QED
      BY <3>1, <3>3, <3>4, <3>5
  <2>6. QED
    BY <2>4, <2>5
<1>2. /\ UNCHANGED <<rem, remIssued, remSnap, left, cur, todo, newHA, mapping,
                     moves, edits, remaps>>
  OBVIOUS
<1>3. NewItemsUnlinked'
  BY <1>0, <1>1, <1>2 DEF NewItemsUnlinked, Issued
<1>4. ItemsDue' \subseteq ItemsDue \ {r}
  BY <1>0, <1>1, <1>2 DEF ItemsDue
<1>5. MovedOn' \subseteq MovedOn \ {r}
  BY <1>2, <1>4 DEF MovedOn
<1>6. Ghosts' \subseteq Ghosts
  BY <1>1, <1>2 DEF Ghosts, NewItemsUnlinked
<1>7. ItemsOwed' \subseteq ItemsOwed
  BY <1>0, <1>1, <1>2, <1>4 DEF ItemsOwed, InPlace
<1>8. CASE UNCHANGED <<ha, haIssued, db, tasks>> /\ faults' = faults + 1
  <2>1. RemindersOwed' \subseteq RemindersOwed
    BY <1>2, <1>4, <1>8 DEF RemindersOwed
  <2>2. causes' \in Nat /\ causes' >= causes
    BY <1>2, <1>8 DEF causes
  <2>3. QED
    BY <1>2, <1>3, <1>5, <1>6, <1>7, <1>8, <2>1, <2>2, NotMore
<1>9. ASSUME NEW new \in Candidates,
             ha' = [h \in HAUIDs |-> IF h \in new THEN mapping[cur] ELSE ha[h]],
             haIssued' = haIssued \cup new
      PROVE  /\ IsFiniteSet(haIssued') /\ Cardinality(new) \in Nat
             /\ Cardinality(haIssued') = Cardinality(haIssued) + Cardinality(new)
             /\ RemindersOwed' \subseteq RemindersOwed \cup new
             /\ Cardinality(ItemsOwed') \in Nat /\ Cardinality(MovedOn') \in Nat
             /\ Cardinality(Ghosts') \in Nat
             /\ Cardinality(RemindersOwed') \in Nat
             /\ Cardinality(ItemsOwed') <= Cardinality(ItemsOwed)
             /\ Cardinality(MovedOn') <= Cardinality(MovedOn)
             /\ Cardinality(Ghosts') <= Cardinality(Ghosts)
             /\ Cardinality(RemindersOwed')
                  <= Cardinality(RemindersOwed) + Cardinality(new)
  <2>1. IsFiniteSet(new) /\ Cardinality(new) \in Nat /\ haIssued \cap new = {}
    BY <1>9, FS_CardinalityType
  <2>2. /\ IsFiniteSet(haIssued')
        /\ Cardinality(haIssued') = Cardinality(haIssued) + Cardinality(new)
    BY <1>9, <2>1, CountsFinite, Disjoint
  <2>3. RemindersOwed' \subseteq RemindersOwed \cup new
    BY <1>0, <1>1, <1>2, <1>4, <1>9 DEF RemindersOwed, Issued
  <2>4. /\ Cardinality(RemindersOwed') \in Nat
        /\ Cardinality(RemindersOwed')
             <= Cardinality(RemindersOwed) + Cardinality(new)
    BY <2>1, <2>3, CountsFinite, AtMostBoth
  <2>5. QED
    BY <1>5, <1>6, <1>7, <2>1, <2>2, <2>3, <2>4, CountsFinite, Sizes
<1>10. ASSUME NEW new \in Candidates,
              ha' = [h \in HAUIDs |-> IF h \in new THEN mapping[cur] ELSE ha[h]],
              haIssued' = haIssued \cup new,
              UNCHANGED db, tasks' \in {tasks, tasks + 1},
              faults' \in Nat, faults' >= faults + 1,
              faults' >= faults + Cardinality(new) - 1
       PROVE  Counted'
  <2>1. Cardinality(new) \in Nat
    BY <1>9, <1>10
  <2>2. causes' \in Nat /\ causes' >= causes + Cardinality(new)
    BY <1>2, <1>10, <2>1 DEF causes
  <2>3. /\ Cardinality(ItemsOwed') <= Cardinality(ItemsOwed)
        /\ Cardinality(MovedOn') <= Cardinality(MovedOn)
        /\ Cardinality(Ghosts') <= Cardinality(Ghosts)
        /\ Cardinality(RemindersOwed')
             <= Cardinality(RemindersOwed) + Cardinality(new)
        /\ Cardinality(haIssued') = Cardinality(haIssued) + Cardinality(new)
        /\ Cardinality(remIssued') = Cardinality(remIssued)
        /\ Cardinality(ItemsOwed') \in Nat /\ Cardinality(MovedOn') \in Nat
        /\ Cardinality(Ghosts') \in Nat /\ Cardinality(RemindersOwed') \in Nat
        /\ IsFiniteSet(haIssued') /\ IsFiniteSet(remIssued')
    BY <1>2, <1>9, <1>10, CountsFinite
  <2> HIDE DEF CreateInHA, Candidates, ListsInv, TypeOK, Visiting, Fault
  <2>4. QED
    BY <2>1, <2>2, <2>3, CountsFinite DEF Counted
<1>11. ASSUME NEW h \in HAUIDs, {h} \in Candidates,
              ha' = [k \in HAUIDs |-> IF k \in {h} THEN mapping[cur] ELSE ha[k]],
              haIssued' = haIssued \cup {h},
              db' = [db EXCEPT ![r] = [ha |-> h, list |-> cur]],
              UNCHANGED <<tasks, faults>>
       PROVE  Counted'
  <2>1. causes' = causes
    BY <1>2, <1>11 DEF causes
  <2>0. /\ Cardinality(ItemsOwed') <= Cardinality(ItemsOwed)
        /\ Cardinality(MovedOn') <= Cardinality(MovedOn)
        /\ Cardinality(Ghosts') <= Cardinality(Ghosts)
        /\ Cardinality(RemindersOwed') <= Cardinality(RemindersOwed) + 1
        /\ Cardinality(haIssued') = Cardinality(haIssued) + 1
        /\ Cardinality(remIssued') = Cardinality(remIssued)
        /\ Cardinality(ItemsOwed') \in Nat /\ Cardinality(MovedOn') \in Nat
        /\ Cardinality(Ghosts') \in Nat /\ Cardinality(RemindersOwed') \in Nat
        /\ IsFiniteSet(haIssued') /\ IsFiniteSet(remIssued')
    <3>1. Cardinality({h}) = 1
      BY FS_Singleton
    <3>2. QED
      BY <1>2, <1>9, <1>11, <3>1, CountsFinite
  <2>2. r \in RowsOf(cur)' /\ db'[r].ha = h
    BY <1>0, <1>11
  <2>3. CASE r \in MovedOn
    <3>1. Cardinality(MovedOn') + 1 <= Cardinality(MovedOn)
      BY <1>5, <2>3, CountsFinite, Sizes
    <3> HIDE DEF CreateInHA, Candidates, ListsInv, TypeOK, Visiting, Fault
    <3>2. QED
      BY <2>0, <2>1, <3>1, CountsFinite DEF Counted
  <2>4. CASE r \notin MovedOn
    <3>1. rem[r] \in {None, cur}
      BY <1>0, <2>4 DEF MovedOn
    <3>2. ItemsOwed' \subseteq ItemsOwed \ {r} /\ r \in ItemsOwed
      BY <1>0, <1>2, <1>4, <1>7, <2>2, <3>1 DEF ItemsOwed, InPlace
    <3>3. RemindersOwed' \subseteq RemindersOwed \cup {h}
      BY <1>9, <1>11
    <3>4. RemindersOwed' \subseteq RemindersOwed
      BY <1>0, <1>2, <1>4, <1>11, <2>2, <3>1, <3>3
      DEF RemindersOwed, NewItemsUnlinked
    <3>5. /\ Cardinality(ItemsOwed') + 1 <= Cardinality(ItemsOwed)
          /\ Cardinality(RemindersOwed') <= Cardinality(RemindersOwed)
      BY <3>2, <3>4, CountsFinite, Sizes
    <3> HIDE DEF CreateInHA, Candidates, ListsInv, TypeOK, Visiting, Fault
    <3>6. QED
      BY <2>0, <2>1, <3>5, CountsFinite DEF Counted
  <2>5. QED
    BY <2>3, <2>4
<1>12. QED
  BY <1>1, <1>3, <1>8, <1>10, <1>11

(* A new reminder is in its list, and no row names the item it is made from. *)
LEMMA CreateInRemindersCounted ==
    ASSUME CountInv, Distinct, NEW h \in HAUIDs, CreateInReminders(h)
    PROVE  NewItemsUnlinked' /\ Counted'
<1> USE Configured
    DEF CreateInReminders, RowsOf, Fault, CountInv, ListsInv, TypeOK, Visiting
<1>0. /\ cur \in Mapped /\ cur # None /\ cur \notin left
      /\ h \in newHA /\ newHA' = newHA \ {h} /\ h \in RemindersOwed
      /\ todo = {} /\ newRem = {} /\ ha[h] \in {None, mapping[cur]}
  BY DEF RemindersOwed, NewItemsUnlinked
<1>1. /\ UNCHANGED <<ha, haIssued, remSnap, left, cur, todo, newRem, mapping,
                     tasks, moves, edits, remaps>>
  OBVIOUS
<1>2. ha[h] = mapping[cur] => \A s \in Tracked : db[s].ha # h
  <2> SUFFICES ASSUME NEW s \in Tracked, db[s].ha = h, ha[h] = mapping[cur]
               PROVE  FALSE
    OBVIOUS
  <2>1. db[s].list \in Mapped /\ ha[h] \in {None, mapping[db[s].list]}
    BY DEF RowInItsEntity, NewItemsUnlinked
  <2>2. db[s].list = cur
    BY <1>0, <2>1 DEF Distinct
  <2>3. QED
    BY <1>0, <2>2 DEF NewItemsUnlinked
<1>3. \/ \E r \in RemUIDs \ remIssued :
           /\ rem' = [rem EXCEPT ![r] = cur]
           /\ remIssued' = remIssued \cup {r}
           /\ \/ /\ ha[h] = mapping[cur]
                 /\ db' = [db EXCEPT ![r] = [ha |-> h, list |-> cur]]
                 /\ UNCHANGED faults
              \/ h \in Ghosts /\ UNCHANGED <<db, faults>>
              \/ UNCHANGED db /\ faults' = faults + 1
      \/ /\ UNCHANGED <<rem, remIssued, db>>
         /\ UNCHANGED faults \/ faults' = faults + 1
  BY <1>0, <1>2 DEF UpsertItem, Ghosts
<1>4. NewItemsUnlinked'
  BY <1>0, <1>1, <1>3 DEF NewItemsUnlinked, Issued
<1>5. Ghosts' \subseteq Ghosts \ {h}
  BY <1>0, <1>1 DEF Ghosts
<1>6. CASE /\ UNCHANGED <<rem, remIssued, db>>
           /\ UNCHANGED faults \/ faults' = faults + 1
  <2>1. ItemsDue' = ItemsDue
    BY <1>1, <1>6 DEF ItemsDue
  <2>2. ItemsOwed' \subseteq ItemsOwed /\ MovedOn' \subseteq MovedOn
    BY <1>1, <1>6, <2>1 DEF ItemsOwed, InPlace, MovedOn
  <2>3. RemindersOwed' \subseteq RemindersOwed
    BY <1>0, <1>1, <1>6, <2>1 DEF RemindersOwed
  <2>4. causes' \in Nat /\ causes' >= causes
    BY <1>1, <1>6 DEF causes
  <2>5. QED
    BY <1>1, <1>4, <1>5, <1>6, <2>2, <2>3, <2>4, NotMore
<1>7. CASE \E r \in RemUIDs \ remIssued :
             /\ rem' = [rem EXCEPT ![r] = cur]
             /\ remIssued' = remIssued \cup {r}
             /\ \/ /\ ha[h] = mapping[cur]
                   /\ db' = [db EXCEPT ![r] = [ha |-> h, list |-> cur]]
                   /\ UNCHANGED faults
                \/ h \in Ghosts /\ UNCHANGED <<db, faults>>
                \/ UNCHANGED db /\ faults' = faults + 1
  <2>1. PICK r \in RemUIDs \ remIssued :
             /\ rem' = [rem EXCEPT ![r] = cur]
             /\ remIssued' = remIssued \cup {r}
             /\ \/ /\ ha[h] = mapping[cur]
                   /\ db' = [db EXCEPT ![r] = [ha |-> h, list |-> cur]]
                   /\ UNCHANGED faults
                \/ h \in Ghosts /\ UNCHANGED <<db, faults>>
                \/ UNCHANGED db /\ faults' = faults + 1
    BY <1>7
  <2>2. /\ IsFiniteSet(remIssued')
        /\ Cardinality(remIssued') = Cardinality(remIssued) + 1
    BY <2>1, CountsFinite, FS_AddElement
  <2>3. r \notin Tracked /\ rem[r] = None /\ remSnap[r] = None
    BY <2>1 DEF Issued
  <2>4. ItemsDue' = ItemsDue /\ r \notin ItemsDue
    BY <1>0, <1>1, <2>1, <2>3 DEF ItemsDue
  <2>5. MovedOn' \subseteq MovedOn
    BY <1>1, <2>1, <2>4 DEF MovedOn
  <2>6. ItemsOwed' \subseteq ItemsOwed \cup {r}
    BY <1>1, <2>1, <2>4 DEF ItemsOwed, InPlace
  <2>7. RemindersOwed' \subseteq RemindersOwed
    BY <1>0, <1>1, <2>1, <2>3, <2>4 DEF RemindersOwed
  <2>8. /\ Cardinality(ItemsOwed') \in Nat /\ Cardinality(MovedOn') \in Nat
        /\ Cardinality(Ghosts') \in Nat /\ Cardinality(RemindersOwed') \in Nat
        /\ Cardinality(ItemsOwed') <= Cardinality(ItemsOwed) + 1
        /\ Cardinality(MovedOn') <= Cardinality(MovedOn)
        /\ Cardinality(Ghosts') <= Cardinality(Ghosts)
        /\ Cardinality(RemindersOwed') <= Cardinality(RemindersOwed)
    BY <1>5, <2>5, <2>6, <2>7, CountsFinite, Sizes
  <2>9. CASE UNCHANGED db /\ faults' = faults + 1
    <3>1. causes' \in Nat /\ causes' >= causes + 1
      BY <1>1, <2>9 DEF causes
    <3>2. QED
      BY <1>1, <1>4, <2>2, <2>8, <3>1, CountsFinite DEF Counted
  <2>10. CASE h \in Ghosts /\ UNCHANGED <<db, faults>>
    <3>1. causes' = causes
      BY <1>1, <2>10 DEF causes
    <3>2. RemindersOwed' \subseteq RemindersOwed \ {h}
      BY <1>0, <1>1, <2>7, <2>10 DEF RemindersOwed, Ghosts
    <3>3. /\ Cardinality(Ghosts') + 1 <= Cardinality(Ghosts)
          /\ Cardinality(RemindersOwed') + 1 <= Cardinality(RemindersOwed)
      BY <1>0, <1>5, <2>10, <3>2, CountsFinite, Sizes
    <3>4. QED
      BY <1>1, <1>4, <2>2, <2>8, <3>1, <3>3, CountsFinite DEF Counted
  <2>11. CASE /\ db' = [db EXCEPT ![r] = [ha |-> h, list |-> cur]]
              /\ UNCHANGED faults
    <3>1. causes' = causes
      BY <1>1, <2>11 DEF causes
    <3>2. r \in Tracked' /\ db'[r].ha = h /\ db'[r].list = cur /\ rem'[r] = cur
      BY <1>0, <2>1, <2>11
    <3>3. RemindersOwed' \subseteq RemindersOwed \ {h}
      BY <1>0, <1>1, <2>4, <2>7, <3>2 DEF RemindersOwed
    <3>4. ItemsOwed' \subseteq ItemsOwed
      BY <1>0, <1>1, <2>4, <2>6, <3>2 DEF ItemsOwed, InPlace
    <3>5. /\ Cardinality(ItemsOwed') <= Cardinality(ItemsOwed)
          /\ Cardinality(RemindersOwed') + 1 <= Cardinality(RemindersOwed)
      BY <1>0, <3>3, <3>4, CountsFinite, Sizes
    <3>6. QED
      BY <1>1, <1>4, <2>2, <2>8, <3>1, <3>5, CountsFinite DEF Counted
  <2>12. QED
    BY <2>1, <2>9, <2>10, <2>11
<1>8. QED
  BY <1>3, <1>6, <1>7

(* A cause for everything users do. *)
LEMMA UserCounted ==
    ASSUME CountInv, User
    PROVE  NewItemsUnlinked' /\ Counted'
<1> USE Configured DEF RowsOf, CountInv, ListsInv, TypeOK, Visiting
<1>0. UNCHANGED <<db, pass, mapping, remaps, faults>> /\ ItemsDue' = ItemsDue
  BY DEF User, AddReminder, AddItem, MoveReminder, Delete, Hide, Show, ItemsDue
<1>1. NewItemsUnlinked'
  BY DEF User, AddReminder, AddItem, MoveReminder, Delete, Hide, Show,
         NewItemsUnlinked, Issued
<1>2. CASE Hide \/ Show
  BY <1>2, HideCounted
<1>3. CASE AddReminder
  <2>1. PICK r \in RemUIDs \ remIssued, l \in ListNames :
          rem' = [rem EXCEPT ![r] = l] /\ remIssued' = remIssued \cup {r}
    BY <1>3 DEF AddReminder
  <2>2. causes' = causes + 1 /\ UNCHANGED <<ha, haIssued>>
    BY <1>3 DEF AddReminder, causes
  <2>3. r \notin Tracked /\ r \notin ItemsDue
    BY <2>1 DEF Issued, ItemsDue
  <2>4. /\ ItemsOwed' \subseteq ItemsOwed \cup {r} /\ MovedOn' \subseteq MovedOn
        /\ Ghosts' \subseteq Ghosts /\ RemindersOwed' \subseteq RemindersOwed
    BY <1>0, <2>1, <2>2, <2>3 DEF ItemsOwed, InPlace, MovedOn, Ghosts, RemindersOwed
  <2>5. /\ IsFiniteSet(remIssued')
        /\ Cardinality(remIssued') = Cardinality(remIssued) + 1
    BY <2>1, CountsFinite, FS_AddElement
  <2>6. /\ Cardinality(ItemsOwed') \in Nat /\ Cardinality(MovedOn') \in Nat
        /\ Cardinality(Ghosts') \in Nat /\ Cardinality(RemindersOwed') \in Nat
        /\ Cardinality(ItemsOwed') <= Cardinality(ItemsOwed) + 1
        /\ Cardinality(MovedOn') <= Cardinality(MovedOn)
        /\ Cardinality(Ghosts') <= Cardinality(Ghosts)
        /\ Cardinality(RemindersOwed') <= Cardinality(RemindersOwed)
    BY <2>4, CountsFinite, Sizes
  <2>7. QED
    BY <1>1, <2>2, <2>5, <2>6, CountsFinite DEF Counted
<1>4. CASE AddItem
  <2>1. PICK h \in HAUIDs \ haIssued, e \in Entities :
          ha' = [ha EXCEPT ![h] = e] /\ haIssued' = haIssued \cup {h}
    BY <1>4 DEF AddItem
  <2>2. causes' = causes + 1 /\ UNCHANGED <<rem, remIssued>>
    BY <1>4 DEF AddItem, causes
  <2>3. /\ ItemsOwed' \subseteq ItemsOwed /\ MovedOn' \subseteq MovedOn
        /\ Ghosts' \subseteq Ghosts /\ RemindersOwed' \subseteq RemindersOwed \cup {h}
    BY <1>0, <2>1, <2>2
    DEF ItemsOwed, InPlace, MovedOn, Ghosts, RemindersOwed, NewItemsUnlinked
  <2>4. /\ IsFiniteSet(haIssued')
        /\ Cardinality(haIssued') = Cardinality(haIssued) + 1
    BY <2>1, CountsFinite, FS_AddElement
  <2>5. /\ Cardinality(ItemsOwed') \in Nat /\ Cardinality(MovedOn') \in Nat
        /\ Cardinality(Ghosts') \in Nat /\ Cardinality(RemindersOwed') \in Nat
        /\ Cardinality(ItemsOwed') <= Cardinality(ItemsOwed)
        /\ Cardinality(MovedOn') <= Cardinality(MovedOn)
        /\ Cardinality(Ghosts') <= Cardinality(Ghosts)
        /\ Cardinality(RemindersOwed') <= Cardinality(RemindersOwed) + 1
    BY <2>3, CountsFinite, Sizes
  <2>6. QED
    BY <1>1, <2>2, <2>4, <2>5, CountsFinite DEF Counted
<1>5. CASE MoveReminder
  <2>1. PICK r \in Present(rem), l \in ListNames : rem' = [rem EXCEPT ![r] = l]
    BY <1>5 DEF MoveReminder
  <2>2. causes' = causes + 1 /\ UNCHANGED <<ha, remIssued, haIssued>>
    BY <1>5 DEF MoveReminder, causes
  <2>3. Ghosts' \subseteq Ghosts
    BY <1>0, <2>2 DEF Ghosts
  <2>4. CASE r \in ItemsDue
    <3>1. ItemsOwed' \subseteq ItemsOwed /\ MovedOn' \subseteq MovedOn \cup {r}
      BY <1>0, <2>1, <2>4 DEF ItemsOwed, InPlace, MovedOn
    <3>2. RemindersOwed' \subseteq RemindersOwed
      BY <1>0, <2>1, <2>2, <2>4 DEF RemindersOwed
    <3>3. /\ Cardinality(ItemsOwed') \in Nat /\ Cardinality(MovedOn') \in Nat
          /\ Cardinality(Ghosts') \in Nat /\ Cardinality(RemindersOwed') \in Nat
          /\ Cardinality(ItemsOwed') <= Cardinality(ItemsOwed)
          /\ Cardinality(MovedOn') <= Cardinality(MovedOn) + 1
          /\ Cardinality(Ghosts') <= Cardinality(Ghosts)
          /\ Cardinality(RemindersOwed') <= Cardinality(RemindersOwed)
      BY <2>3, <3>1, <3>2, CountsFinite, Sizes
    <3>4. QED
      BY <1>1, <2>2, <3>3, CountsFinite DEF Counted
  <2>5. CASE r \notin ItemsDue
    <3>1. ItemsOwed' \subseteq ItemsOwed \cup {r} /\ MovedOn' \subseteq MovedOn
      BY <1>0, <2>1, <2>5 DEF ItemsOwed, InPlace, MovedOn
    <3>2. \E h : RemindersOwed' \subseteq RemindersOwed \cup {h}
      <4>1. RemindersOwed' \subseteq RemindersOwed \cup {db[r].ha}
        BY <1>0, <2>1, <2>2, <2>5 DEF RemindersOwed
      <4>2. QED
        BY <4>1
    <3>3. /\ Cardinality(ItemsOwed') \in Nat /\ Cardinality(MovedOn') \in Nat
          /\ Cardinality(Ghosts') \in Nat /\ Cardinality(RemindersOwed') \in Nat
          /\ Cardinality(ItemsOwed') <= Cardinality(ItemsOwed) + 1
          /\ Cardinality(MovedOn') <= Cardinality(MovedOn)
          /\ Cardinality(Ghosts') <= Cardinality(Ghosts)
          /\ Cardinality(RemindersOwed') <= Cardinality(RemindersOwed) + 1
      BY <2>3, <3>1, <3>2, CountsFinite, Sizes
    <3>4. QED
      BY <1>1, <2>2, <3>3, CountsFinite DEF Counted
  <2>6. QED
    BY <2>4, <2>5
<1>6. CASE Delete
  <2>1. causes' = causes + 1 /\ UNCHANGED <<remIssued, haIssued>>
    BY <1>6 DEF Delete, causes
  <2>2. \/ \E r \in Present(rem) : rem' = [rem EXCEPT ![r] = None] /\ UNCHANGED ha
        \/ \E h \in Present(ha) : ha' = [ha EXCEPT ![h] = None] /\ UNCHANGED rem
    BY <1>6 DEF Delete
  <2>3. /\ ItemsOwed' \subseteq ItemsOwed /\ MovedOn' \subseteq MovedOn
        /\ RemindersOwed' \subseteq RemindersOwed
    <3>1. CASE \E r \in Present(rem) : rem' = [rem EXCEPT ![r] = None] /\ UNCHANGED ha
      BY <1>0, <3>1 DEF ItemsOwed, InPlace, MovedOn, RemindersOwed
    <3>2. CASE \E h \in Present(ha) : ha' = [ha EXCEPT ![h] = None] /\ UNCHANGED rem
      BY <1>0, <3>2 DEF ItemsOwed, InPlace, MovedOn, RemindersOwed
    <3>3. QED
      BY <2>2, <3>1, <3>2
  <2>4. \E h : Ghosts' \subseteq Ghosts \cup {h}
    BY <1>0, <2>2 DEF Ghosts
  <2>5. /\ Cardinality(ItemsOwed') \in Nat /\ Cardinality(MovedOn') \in Nat
        /\ Cardinality(Ghosts') \in Nat /\ Cardinality(RemindersOwed') \in Nat
        /\ Cardinality(ItemsOwed') <= Cardinality(ItemsOwed)
        /\ Cardinality(MovedOn') <= Cardinality(MovedOn)
        /\ Cardinality(Ghosts') <= Cardinality(Ghosts) + 1
        /\ Cardinality(RemindersOwed') <= Cardinality(RemindersOwed)
    BY <2>3, <2>4, CountsFinite, Sizes
  <2>6. QED
    BY <1>1, <2>1, <2>5, CountsFinite DEF Counted
<1>7. QED
  BY <1>2, <1>3, <1>4, <1>5, <1>6 DEF User

(* A daemon starts with every task linked, and one cause for each. *)
LEMMA CountsInitially == Init => CountInv
<1> SUFFICES ASSUME Init PROVE CountInv
  OBVIOUS
<1>1. PICK pairs \in SUBSET RemUIDs :
        /\ IsFiniteSet(pairs)
        /\ tasks = Cardinality(pairs)
        /\ \E link \in [pairs -> HAUIDs], where \in [pairs -> Mapped] :
             /\ remIssued = pairs /\ haIssued = {link[r] : r \in pairs}
             /\ rem = [r \in RemUIDs |->
                         IF r \in pairs THEN where[r] ELSE None]
             /\ Present(ha) = haIssued
             /\ db = [r \in RemUIDs |->
                        IF r \in pairs
                        THEN [ha |-> link[r], list |-> where[r]] ELSE None]
  BY DEF Init
<1>2. PICK link \in [pairs -> HAUIDs], where \in [pairs -> Mapped] :
        /\ remIssued = pairs /\ haIssued = {link[r] : r \in pairs}
        /\ rem = [r \in RemUIDs |-> IF r \in pairs THEN where[r] ELSE None]
        /\ Present(ha) = haIssued
        /\ db = [r \in RemUIDs |->
                   IF r \in pairs
                   THEN [ha |-> link[r], list |-> where[r]] ELSE None]
  BY <1>1
<1>3. /\ left = {} /\ todo = {} /\ newRem = {} /\ newHA = {} /\ cur = None
      /\ moves = 0 /\ edits = 0 /\ faults = 0 /\ remaps = 0
  BY DEF Init, Idle
<1>4. NewItemsUnlinked
  BY <1>3 DEF NewItemsUnlinked
<1>5. ItemsDue = {} /\ Ghosts = {}
  BY <1>3 DEF ItemsDue, Ghosts
<1>6. MovedOn = {}
  BY <1>5 DEF MovedOn
<1>7. Tracked = pairs /\ \A r \in pairs : db[r].list = rem[r] /\ db[r].ha = link[r]
  <2>1. \A r \in pairs : [ha |-> link[r], list |-> where[r]] \in Row
    BY <1>2, Configured DEF Init
  <2>2. \A r \in pairs : [ha |-> link[r], list |-> where[r]] # None
    BY <2>1, Configured
  <2>3. QED
    BY <1>2, <2>2
<1>8. ItemsOwed = {}
  BY <1>2, <1>3, <1>5, <1>7 DEF ItemsOwed, InPlace, RowsOf
<1>9. RemindersOwed = {}
  <2>1. ASSUME NEW h \in Present(ha)
        PROVE  \E r \in Tracked : /\ db[r].ha = h /\ r \notin ItemsDue
                                  /\ rem[r] = db[r].list
    <3>1. PICK r \in pairs : h = link[r]
      BY <1>2
    <3>2. QED
      BY <1>5, <1>7, <3>1
  <2>2. QED
    BY <1>3, <2>1 DEF RemindersOwed
<1>10. /\ IsFiniteSet(haIssued) /\ Cardinality(haIssued) \in Nat
       /\ Cardinality(haIssued) <= Cardinality(pairs)
       /\ Cardinality(pairs) \in Nat
  <2>1. link \in Surjection(pairs, haIssued)
    BY <1>2 DEF Surjection
  <2>2. QED
    BY <1>1, <2>1, FS_Surjection, FS_CardinalityType
<1>11. causes = Cardinality(pairs)
  BY <1>1, <1>3, <1>10 DEF causes
<1>12. Counted
  BY <1>1, <1>2, <1>5, <1>6, <1>8, <1>9, <1>10, <1>11, FS_EmptySet DEF Counted
<1>13. QED
  BY <1>4, <1>12, InitHolds DEF CountInv

LEMMA CountsKept ==
    ASSUME CountInv, Distinct, [Next]_vars
    PROVE  CountInv'
<1>1. ListsInv'
  BY StepHolds DEF CountInv
<1>2. CASE UNCHANGED vars
  BY <1>1, <1>2
  DEF CountInv, NewItemsUnlinked, Counted, causes, ItemsOwed, ItemsDue, InPlace,
      MovedOn, Ghosts, RemindersOwed, RowsOf
<1>3. CASE Next
  BY <1>1, <1>3, FetchAllCounted, OpenListCounted, KeepCounted,
     DeleteFromHACounted, DeleteFromRemCounted, CreateInHACounted,
     CreateInRemindersCounted, PublishSummaryCounted, EndPassCounted, UserCounted
  DEF Next, Relay, CountInv
<1>4. QED
  BY <1>2, <1>3

LEMMA CountsBound == ASSUME CountInv PROVE CopiesBounded
BY CountsFinite DEF CountInv, Counted, CopiesBounded, causes

(* Where no two lists share an entity, every copy has its cause: no pass, and no
   number of them, keeps adding reminders or items. *)
THEOREM CopiesHaveCauses ==
    ASSUME Distinct
    PROVE  Spec => []CopiesBounded
<1>1. CountInv /\ [Next]_vars => CountInv'
  BY CountsKept
<1>2. CountInv => CopiesBounded
  BY CountsBound
<1>3. QED
  BY <1>1, <1>2, CountsInitially, PTL DEF Spec
===============================================================================
