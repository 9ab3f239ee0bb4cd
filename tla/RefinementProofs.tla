--------------------------- MODULE RefinementProofs ---------------------------
(***************************************************************************)
(* Proofs, for every value of the constants, that Reconciler implements    *)
(* Mirror, and that Bootstrap with the passes that follow it does: the     *)
(* initial states map to initial states of Mirror, and every step to one   *)
(* of its steps or to a stutter.                                           *)
(***************************************************************************)
EXTENDS BootstrapProofs

USE DEF Projection, Reminder, HAItem, Row, Work, Adding, Link,
        world, store, pass, users, counts, Present, Tracked, LinkedHA

(* Mirror's steps, on the two sides and the rows of Reconciler. *)
Pairs == {<<r, db[r].ha>> : r \in Tracked}

mirrored == <<rem, ha, db, remIssued, haIssued, tasks, edits>>

Kept == [Promise!Next]_Promise!vars

LEMMA PairsEnds ==
    /\ Promise!LinkedReminders = Tracked
    /\ Promise!LinkedItems = LinkedHA
<1>1. Promise!LinkedReminders = {p[1] : p \in Pairs}
  BY DEF Promise!LinkedReminders, Pairs
<1>2. Promise!LinkedItems = {p[2] : p \in Pairs}
  BY DEF Promise!LinkedItems, Pairs
<1>3. /\ \A p \in Pairs : p[1] \in Tracked /\ p[2] = db[p[1]].ha
      /\ \A r \in Tracked : <<r, db[r].ha>> \in Pairs
  BY DEF Pairs
<1>4. {p[1] : p \in Pairs} = Tracked
  <2>1. \A r \in Tracked : \E p \in Pairs : p[1] = r
    BY <1>3
  <2>2. QED
    BY <1>3, <2>1
<1>5. {p[2] : p \in Pairs} = LinkedHA
  BY <1>3
<1>6. QED
  BY <1>1, <1>2, <1>4, <1>5

(* Mirror counts sets as Reconciler does. *)
LEMMA SameFinite ==
    ASSUME NEW S
    PROVE  /\ Promise!IsFiniteSet(S) = IsFiniteSet(S)
           /\ Promise!Cardinality(S) = Cardinality(S)
<1>1. Promise!IsFiniteSet(S) = IsFiniteSet(S)
  BY Zenon DEF IsFiniteSet, Promise!IsFiniteSet
<1>2. Promise!Cardinality(S) = Cardinality(S)
  BY Zenon DEF Cardinality, Promise!Cardinality, IsFiniteSet, Promise!IsFiniteSet
<1>3. QED
  BY <1>1, <1>2

(* Steps that write no side and no row, users apart, are stutters. *)
LEMMA Stutter ==
    ASSUME UNCHANGED mirrored
    PROVE  Kept
BY DEF mirrored, Kept, Promise!vars

(* What is there stays there, on both sides. *)
LEMMA SameSides ==
    ASSUME IInv, Present(rem)' = Present(rem), Present(ha)' = Present(ha),
           UNCHANGED <<db, remIssued, haIssued, tasks, edits>>
    PROVE  Kept
BY DEF Kept, Promise!vars

(* UpdateItem never makes or removes an item. *)
LEMMA UpdateKeepsItems ==
    ASSUME IInv, NEW h \in HAUIDs, NEW p \in Projection,
           \/ UNCHANGED ha
           \/ ha[h] # None /\ ha' = [ha EXCEPT ![h] = Item(p)]
    PROVE  Present(ha)' = Present(ha)
BY ConstantsAssumption DEF ConstantsAssumption, Item, IInv, TypeOK

(* A row is written for a linked pair, or links two that had none. *)
LEMMA RowKept ==
    ASSUME IInv, NEW r \in remIssued, NEW h \in haIssued, NEW p \in Projection,
           \/ r \in Tracked /\ db[r].ha = h
           \/ r \notin Tracked /\ h \notin LinkedHA,
           db' = [db EXCEPT ![r] = NewRow(r, h, p)],
           UNCHANGED <<rem, ha, remIssued, haIssued, tasks, edits>>
    PROVE  Kept
<1>0. r \in RemUIDs /\ h \in HAUIDs
  BY DEF IInv, TypeOK
<1>1. NewRow(r, h, p) \in Row /\ NewRow(r, h, p).ha = h
  BY <1>0 DEF NewRow
<1>2. NewRow(r, h, p) # None
  BY <1>1, ConstantsAssumption DEF ConstantsAssumption
<1>3. /\ Tracked' = Tracked \cup {r} /\ db'[r].ha = h
      /\ \A s \in Tracked : s # r => db'[s] = db[s]
  BY <1>0, <1>1, <1>2 DEF IInv, TypeOK
<1>4. CASE r \in Tracked /\ db[r].ha = h
  <2>1. Pairs' = Pairs
    BY <1>3, <1>4 DEF Pairs
  <2>2. QED
    BY <2>1 DEF Kept, Promise!vars, Pairs
<1>5. CASE r \notin Tracked /\ h \notin LinkedHA
  <2>1. Pairs' = Pairs \cup {<<r, h>>}
    BY <1>3, <1>5 DEF Pairs
  <2>2. Promise!Link
    BY <2>1, <1>5, PairsEnds DEF Promise!Link, Pairs
  <2>3. QED
    BY <2>2 DEF Kept, Promise!Next
<1>6. QED
  BY <1>4, <1>5

LEMMA SaveRowKept ==
    ASSUME IInv, SaveRow
    PROVE  Kept
<1>1. /\ cur \in Work /\ cur.rem \in remIssued /\ cur.ha \in haIssued
      /\ cur.proj \in Projection
      /\ \/ cur.rem \in Tracked /\ db[cur.rem].ha = cur.ha
         \/ cur.rem \notin Tracked /\ cur.ha \notin LinkedHA
  BY ConstantsAssumption
  DEF SaveRow, IInv, Shape, Issued, CurrentRow, ConstantsAssumption
<1>2. /\ UNCHANGED <<rem, ha, remIssued, haIssued, tasks, edits>>
      /\ \/ UNCHANGED db
         \/ db' = [db EXCEPT ![cur.rem] = NewRow(cur.rem, cur.ha, cur.proj)]
  BY DEF SaveRow, UpsertItem
<1>3. QED
  BY <1>1, <1>2, RowKept, Stutter DEF mirrored

LEMMA SaveAddedKept ==
    ASSUME IInv, SaveAdded
    PROVE  Kept
<1>1. /\ add \in Adding /\ add.rem \in remIssued /\ add.ha \in haIssued
      /\ add.proj \in Projection
      /\ add.rem \notin Tracked /\ add.ha \notin LinkedHA
  BY ConstantsAssumption
  DEF SaveAdded, IInv, Shape, Issued, AddedRow, ConstantsAssumption
<1>2. /\ UNCHANGED <<rem, ha, remIssued, haIssued, tasks, edits>>
      /\ \/ UNCHANGED db
         \/ db' = [db EXCEPT ![add.rem] = NewRow(add.rem, add.ha, add.proj)]
  BY DEF SaveAdded, UpsertItem
<1>3. QED
  BY <1>1, <1>2, RowKept, Stutter DEF mirrored

(* A row goes when both copies are gone. *)
LEMMA ForgetKept ==
    ASSUME IInv, NEW r \in Tracked, rem[r] = None, ha[db[r].ha] = None,
           db' = [db EXCEPT ![r] = None],
           UNCHANGED <<rem, ha, remIssued, haIssued, tasks, edits>>
    PROVE  Kept
<1>1. Tracked' = Tracked \ {r} /\ \A s \in Tracked' : db'[s] = db[s]
  BY DEF IInv, TypeOK
<1>2. Pairs' = Pairs \ {<<r, db[r].ha>>}
  BY <1>1 DEF Pairs
<1>3. <<r, db[r].ha>> \in Pairs
  BY DEF Pairs
<1>4. Promise!Forget
  BY <1>2, <1>3 DEF Promise!Forget, Pairs
<1>5. QED
  BY <1>4 DEF Kept, Promise!Next

LEMMA DropRowKept ==
    ASSUME IInv, DropRow
    PROVE  Kept
<1>1. /\ cur.rem \in Tracked /\ db[cur.rem].ha = cur.ha
      /\ rem[cur.rem] = None /\ ha[cur.ha] = None
  BY DEF DropRow, IInv, GoneIsGone
<1>2. QED
  BY <1>1, ForgetKept, Stutter DEF DropRow, mirrored

(* A copy goes when the linked one is gone. *)
LEMMA DeleteFromHAKept ==
    ASSUME IInv, NEW r \in RemUIDs, DeleteFromHA(r)
    PROVE  Kept
<1> DEFINE h == db[r].ha
<1>1. /\ r \in Tracked /\ rem[r] = None /\ h \in HAUIDs
      /\ haSnap[h] = None => ha[h] = None
  BY DecideFacts
  DEF DeleteFromHA, Visit, HACopy, IInv, TypeOK, GoneIsGone, Shape
<1>2. UNCHANGED <<rem, remIssued, haIssued, tasks, edits>>
  BY DEF DeleteFromHA
<1>3. \/ UNCHANGED <<db, ha>>
      \/ UNCHANGED ha /\ haSnap[h] = None /\ db' = [db EXCEPT ![r] = None]
      \/ UNCHANGED db /\ ha[h] # None /\ ha' = [ha EXCEPT ![h] = None]
  BY DEF DeleteFromHA
<1>4. CASE UNCHANGED db /\ ha[h] # None /\ ha' = [ha EXCEPT ![h] = None]
  <2>1. Present(ha)' = Present(ha) \ {h} /\ <<r, h>> \in Pairs
    BY <1>1, <1>4 DEF IInv, TypeOK, Pairs
  <2>2. r \notin Present(rem) /\ h \in Present(ha) /\ UNCHANGED Pairs
    BY <1>1, <1>4 DEF IInv, TypeOK, Pairs
  <2>3. \E p \in Pairs : /\ p[1] \notin Present(rem) /\ p[2] \in Present(ha)
                         /\ Present(ha)' = Present(ha) \ {p[2]}
    BY <2>1, <2>2
  <2>4. Promise!MirrorDeletion
    BY <1>2, <2>2, <2>3 DEF Promise!MirrorDeletion, Pairs
  <2>5. QED
    BY <2>4 DEF Kept, Promise!Next
<1>5. QED
  BY <1>1, <1>2, <1>3, <1>4, ForgetKept, Stutter DEF mirrored

LEMMA DeleteFromRemKept ==
    ASSUME IInv, NEW r \in RemUIDs, DeleteFromRem(r)
    PROVE  Kept
<1> DEFINE h == db[r].ha
<1>1. r \in Tracked /\ ha[h] = None
  BY DecideFacts DEF DeleteFromRem, Visit, IInv, GoneIsGone, Shape
<1>2. UNCHANGED <<ha, db, remIssued, haIssued, tasks, edits>>
  BY DEF DeleteFromRem
<1>3. \/ UNCHANGED rem
      \/ rem[r] # None /\ rem' = [rem EXCEPT ![r] = None]
  BY DEF DeleteFromRem
<1>4. CASE rem[r] # None /\ rem' = [rem EXCEPT ![r] = None]
  <2>1. Present(rem)' = Present(rem) \ {r} /\ <<r, h>> \in Pairs
    BY <1>1, <1>4 DEF IInv, TypeOK, Pairs
  <2>2. h \notin Present(ha) /\ r \in Present(rem) /\ UNCHANGED Pairs
    BY <1>1, <1>2, <1>4 DEF IInv, TypeOK, Pairs
  <2>3. \E p \in Pairs : /\ p[2] \notin Present(ha) /\ p[1] \in Present(rem)
                         /\ Present(rem)' = Present(rem) \ {p[1]}
    BY <2>1, <2>2
  <2>4. Promise!MirrorDeletion
    BY <1>2, <2>2, <2>3 DEF Promise!MirrorDeletion, Pairs
  <2>5. QED
    BY <2>4 DEF Kept, Promise!Next
<1>5. QED
  BY <1>2, <1>3, <1>4, Stutter DEF mirrored


(* Updating a reminder keeps it; a rollover adds one, which is counted. *)
LEMMA UpdateRemKept ==
    ASSUME IInv, NEW r \in RemUIDs, UpdateRem(r)
    PROVE  Kept
<1>1. UNCHANGED <<ha, db, haIssued, edits>>
  BY DEF UpdateRem
<1>2. ASSUME NEW command \in Reminder, rem[r] # None, RollOver(r, command)
      PROVE  Kept
  <2>1. PICK a \in RemUIDs \ remIssued, next \in Reminder :
          /\ next # None /\ Archived(command) # None
          /\ rem' = [rem EXCEPT ![r] = next, ![a] = Archived(command)]
          /\ remIssued' = remIssued \cup {a}
          /\ tasks' = tasks + 1
    BY <1>2, RollOverFacts
  <2>2. Present(rem)' = Present(rem) \cup {a}
    BY <1>2, <2>1 DEF IInv, TypeOK
  <2>3. Promise!NewReminder
    BY <1>1, <2>1, <2>2 DEF Promise!NewReminder
  <2>4. QED
    BY <2>3 DEF Kept, Promise!Next
<1>3. ASSUME NEW command \in Reminder, rem[r] # None,
             WriteReminder(r, command) \/ WriteFields(r, command)
      PROVE  Kept
  <2>1. PICK c \in Reminder : c # None /\ rem' = [rem EXCEPT ![r] = c]
    BY <1>3, WriteReminderFacts
  <2>2. UNCHANGED <<remIssued, tasks>>
    BY <1>3 DEF WriteReminder, WriteFields
  <2>3. Present(rem)' = Present(rem)
    BY <1>3, <2>1 DEF IInv, TypeOK
  <2>4. QED
    BY <1>1, <2>2, <2>3, SameSides
<1>4. CASE UNCHANGED <<rem, remIssued, tasks>>
  BY <1>1, <1>4, Stutter DEF mirrored
<1>5. QED
  BY <1>2, <1>3, <1>4, UpdateRemCases

(* Bringing an item up to date, for a row or for a new one. *)
LEMMA UpdateItemKept ==
    ASSUME IInv,
           \/ \E r \in RemUIDs : UpdateHA(r)
           \/ EchoToHA \/ ApplyToAdded
    PROVE  Kept
<1> USE ConstantsAssumption DEF ConstantsAssumption
<1>1. CASE \E r \in RemUIDs : UpdateHA(r)
  <2>1. PICK r \in RemUIDs : UpdateHA(r)
    BY <1>1
  <2>2. db[r].ha \in HAUIDs /\ remSnap[r].proj \in Projection
    BY <2>1, DecideFacts DEF UpdateHA, Visit, IInv, TypeOK, Shape
  <2>3. Present(ha)' = Present(ha)
    BY <2>1, <2>2, UpdateKeepsItems DEF UpdateHA, UpdateItem
  <2>4. QED
    BY <2>1, <2>3, SameSides DEF UpdateHA
<1>2. CASE EchoToHA
  <2>1. cur.ha \in HAUIDs /\ cur.proj \in Projection
    BY <1>2 DEF EchoToHA, IInv, Shape
  <2>2. Present(ha)' = Present(ha)
    BY <1>2, <2>1, UpdateKeepsItems DEF EchoToHA, UpdateItem
  <2>3. QED
    BY <1>2, <2>2, SameSides DEF EchoToHA
<1>3. CASE ApplyToAdded
  <2>1. add.ha \in HAUIDs /\ add.proj \in Projection
    BY <1>3 DEF ApplyToAdded, IInv, Shape
  <2>2. Present(ha)' = Present(ha)
    BY <1>3, <2>1, UpdateKeepsItems DEF ApplyToAdded, UpdateItem
  <2>3. QED
    BY <1>3, <2>2, SameSides DEF ApplyToAdded
<1>4. QED
  BY <1>1, <1>2, <1>3

(* Adding an item copies a reminder that has no row. *)
LEMMA AddItemKept ==
    ASSUME IInv, AddItem
    PROVE  Kept
<1>1. /\ UNCHANGED <<rem, db, remIssued, tasks, edits>>
      /\ add \in Adding /\ add.rem \in remIssued \ Tracked
  BY ConstantsAssumption
  DEF AddItem, IInv, Shape, Issued, AddedRow, ConstantsAssumption
<1>2. PICK n \in 0 .. MaxAttempts, copies \in SUBSET (HAUIDs \ haIssued) :
        /\ IsFiniteSet(copies) /\ Cardinality(copies) = n
        /\ ha' = [h \in HAUIDs |-> IF h \in copies THEN Opened(add.proj)
                                   ELSE ha[h]]
        /\ haIssued' = haIssued \cup copies
  BY DEF AddItem
<1>3. Opened(add.proj) \in HAItem
  BY <1>1 DEF Opened, Item
<1>4. Opened(add.proj) # None
  BY <1>3, ConstantsAssumption DEF ConstantsAssumption
<1>5. Present(ha)' = Present(ha) \cup copies
  BY <1>2, <1>4 DEF IInv, TypeOK
<1>6. IsFiniteSet(copies) /\ Cardinality(copies) <= MaxAttempts
  BY <1>2
<1>7. Promise!CopyReminder
  <2>1. remIssued \ Promise!LinkedReminders # {}
    BY <1>1, PairsEnds
  <2>2. /\ copies \in SUBSET (HAUIDs \ haIssued)
        /\ haIssued' = haIssued \cup copies
        /\ UNCHANGED <<Present(rem), Pairs>>
    BY <1>1, <1>2 DEF Pairs
  <2>3. /\ remIssued \ Promise!LinkedReminders # {}
        /\ \E C \in SUBSET (HAUIDs \ haIssued) :
             /\ IsFiniteSet(C) /\ Cardinality(C) <= MaxAttempts
             /\ Present(ha)' = Present(ha) \cup C
             /\ haIssued' = haIssued \cup C
    BY <1>5, <1>6, <2>1, <2>2
  <2>4. UNCHANGED <<Present(rem), Pairs, remIssued, tasks, edits>>
    BY <1>1, <2>2
  <2>5. QED
    BY <2>3, <2>4, SameFinite DEF Promise!CopyReminder, Pairs
<1>8. QED
  BY <1>7 DEF Kept, Promise!Next

(* Creating a reminder copies an item that has no row; a completed one that
   recurs has one more copy. *)
LEMMA CreateInRemindersKept ==
    ASSUME IInv, NEW h \in HAUIDs, CreateInReminders(h)
    PROVE  Kept
<1> DEFINE c == Asked(haSnap[h])
<1>1. /\ haIssued \ Promise!LinkedItems # {}
      /\ UNCHANGED <<ha, db, haIssued, edits>>
  BY PairsEnds, CreatedFacts DEF IInv, TypeOK, Shape, Issued, StillNew
<1>2. /\ c \in Reminder /\ [c EXCEPT !.proj.done = FALSE] \in Reminder
      /\ Advanced(c) \subseteq Reminder /\ Archived(c) \in Reminder
  BY CreatedFacts, AskedFact, CompletionFacts
<1>3. None \notin Reminder
  BY ConstantsAssumption DEF ConstantsAssumption
<1>4. UNCHANGED <<Present(ha), Pairs>>
  BY <1>1 DEF Pairs
<1> HIDE DEF c, Reminder
<1>5. ASSUME NEW r \in RemUIDs \ remIssued, NEW d \in Reminder,
             rem' = [rem EXCEPT ![r] = d], remIssued' = remIssued \cup {r},
             UNCHANGED tasks
      PROVE  Kept
  <2>1. Present(rem)' = Present(rem) \cup {r}
    BY <1>3, <1>5 DEF IInv, TypeOK
  <2>2. Promise!CopyItem
    BY <1>1, <1>4, <1>5, <2>1 DEF Promise!CopyItem, Pairs
  <2>3. QED
    BY <2>2 DEF Kept, Promise!Next
<1>6. ASSUME NEW r \in RemUIDs \ remIssued, CreateReminder(r, h, c)
      PROVE  Kept
  BY <1>2, <1>5, <1>6 DEF CreateReminder
<1>7. ASSUME NEW r \in RemUIDs \ remIssued, CreateUncompleted(r, c)
      PROVE  Kept
  BY <1>2, <1>5, <1>7 DEF CreateUncompleted
<1>8. ASSUME NEW r \in RemUIDs \ remIssued, CreateRecurring(r, h, c)
      PROVE  Kept
  <2>1. PICK a \in RemUIDs \ (remIssued \cup {r}), next \in Reminder :
          /\ rem' \in {[rem EXCEPT ![r] = next, ![a] = Archived(c)],
                       [rem EXCEPT ![a] = Archived(c)]}
          /\ remIssued' = remIssued \cup {r, a}
          /\ tasks' = tasks + 1
    BY <1>2, <1>8 DEF CreateRecurring
  <2>2. rem[r] = None /\ rem[a] = None
    BY DEF IInv, TypeOK, Issued
  <2>3. Present(rem)' \in {Present(rem) \cup {r, a}, Present(rem) \cup {a}}
    BY <1>2, <1>3, <2>1, <2>2 DEF IInv, TypeOK
  <2>4. Promise!CopyRecurring
    BY <1>1, <1>4, <2>1, <2>3 DEF Promise!CopyRecurring, Pairs
  <2>5. QED
    BY <2>4 DEF Kept, Promise!Next
<1>9. CASE UNCHANGED <<rem, remIssued, tasks>>
  BY <1>1, <1>9, Stutter DEF mirrored
<1>10. QED
  BY <1>6, <1>7, <1>8, <1>9 DEF CreateInReminders, c

-------------------------------------------------------------------------------
(* What the relay does, and a crash, are steps of Mirror. *)
LEMMA RelayKept ==
    ASSUME IInv, Relay \/ Crash
    PROVE  Kept
<1>1. CASE \/ FetchAll \/ GetItems \/ FetchArchived \/ SaveCompletionLink
           \/ CreateArchivedInHA \/ ResolveUID \/ EndPass \/ Crash
           \/ \E r \in RemUIDs : DoNothing(r) \/ CreateInHA(r)
  <2>1. UNCHANGED mirrored
    BY <1>1
    DEF FetchAll, GetItems, FetchArchived, SaveCompletionLink,
        CreateArchivedInHA, ResolveUID, EndPass, Crash, DoNothing, CreateInHA,
        mirrored
  <2>2. QED
    BY <2>1, Stutter
<1>2. CASE \/ DropRow \/ SaveRow \/ SaveAdded \/ AddItem
  BY <1>2, DropRowKept, SaveRowKept, SaveAddedKept, AddItemKept
<1>3. CASE \/ EchoToHA \/ ApplyToAdded \/ \E r \in RemUIDs : UpdateHA(r)
  BY <1>3, UpdateItemKept
<1>4. CASE \E r \in RemUIDs : DeleteFromHA(r) \/ DeleteFromRem(r) \/ UpdateRem(r)
  BY <1>4, DeleteFromHAKept, DeleteFromRemKept, UpdateRemKept
<1>5. CASE \E h \in HAUIDs : CreateInReminders(h)
  BY <1>5, CreateInRemindersKept
<1>6. QED
  BY <1>1, <1>2, <1>3, <1>4, <1>5 DEF Relay

(* What users do is counted. *)
LEMMA UserKept ==
    ASSUME IInv, User
    PROVE  Kept
<1> USE ConstantsAssumption
    DEF ConstantsAssumption, relay, NewTask, Edit, Kept, Promise!Next
<1>1. CASE UserAddsReminder
  <2>1. PICK r \in RemUIDs \ remIssued, c \in Reminder :
          rem' = [rem EXCEPT ![r] = c] /\ remIssued' = remIssued \cup {r}
    BY <1>1 DEF UserAddsReminder
  <2>2. Present(rem)' = Present(rem) \cup {r}
    BY <2>1 DEF IInv, TypeOK
  <2>3. Promise!NewReminder
    BY <1>1, <2>1, <2>2 DEF UserAddsReminder, Promise!NewReminder
  <2>4. QED
    BY <2>3
<1>2. CASE UserAddsItem
  <2>1. PICK h \in HAUIDs \ haIssued, i \in HAItem :
          ha' = [ha EXCEPT ![h] = i] /\ haIssued' = haIssued \cup {h}
    BY <1>2 DEF UserAddsItem
  <2>2. Present(ha)' = Present(ha) \cup {h}
    BY <2>1 DEF IInv, TypeOK
  <2>3. Promise!NewItem
    BY <1>2, <2>1, <2>2 DEF UserAddsItem, Promise!NewItem
  <2>4. QED
    BY <2>3
<1>3. ASSUME edits' = edits + 1, UNCHANGED <<db, remIssued, haIssued, tasks>>,
             \/ /\ UNCHANGED Present(rem)
                /\ \/ UNCHANGED Present(ha)
                   \/ \E h \in Present(ha) : Present(ha)' = Present(ha) \ {h}
             \/ /\ UNCHANGED Present(ha)
                /\ \E r \in Present(rem) : Present(rem)' = Present(rem) \ {r}
      PROVE  Kept
  <2>1. Promise!Edit
    BY <1>3 DEF Promise!Edit
  <2>2. QED
    BY <2>1
<1>4. CASE UserEditsReminder \/ UserDeletesReminder
  <2>1. PICK r \in Present(rem), c \in Reminder \cup {None} :
          rem' = [rem EXCEPT ![r] = c]
    BY <1>4 DEF UserEditsReminder, UserDeletesReminder
  <2>2. Present(rem)' = Present(rem) \/ Present(rem)' = Present(rem) \ {r}
    BY <2>1 DEF IInv, TypeOK
  <2>3. /\ edits' = edits + 1
        /\ UNCHANGED <<ha, db, remIssued, haIssued, tasks>>
    BY <1>4 DEF UserEditsReminder, UserDeletesReminder
  <2>4. QED
    BY <1>3, <2>2, <2>3
<1>5. CASE UserEditsItem \/ UserDeletesItem
  <2>1. PICK h \in Present(ha) : \E i \in HAItem \cup {None} :
          ha' = [ha EXCEPT ![h] = i]
    <3>1. \A h \in Present(ha), p \in Projection :
            [ha[h] EXCEPT !.proj = p] \in HAItem
      BY DEF IInv, TypeOK
    <3>2. QED
      BY <1>5, <3>1 DEF UserEditsItem, UserDeletesItem
  <2>2. Present(ha)' = Present(ha) \/ Present(ha)' = Present(ha) \ {h}
    BY <2>1 DEF IInv, TypeOK
  <2>3. /\ edits' = edits + 1
        /\ UNCHANGED <<rem, db, remIssued, haIssued, tasks>>
    BY <1>5 DEF UserEditsItem, UserDeletesItem
  <2>4. QED
    BY <1>3, <2>2, <2>3
<1>6. QED
  BY <1>1, <1>2, <1>4, <1>5 DEF User

(* Two sides in step are an initial state of Mirror. *)
LEMMA InitKept ==
    ASSUME Init
    PROVE  Promise!Init
<1>1. PICK P \in SUBSET RemUIDs : \E link \in [P -> HAUIDs],
             content \in [P -> Reminder], old \in SUBSET (P \cap Legacy) :
        Linked(P, link, content, old)
  BY DEF Init
<1>2. PICK link \in [P -> HAUIDs], content \in [P -> Reminder],
           old \in SUBSET (P \cap Legacy) : Linked(P, link, content, old)
  BY <1>1
<1>3. Tracked = P /\ Present(rem) = P /\ \A r \in P : db[r].ha = link[r]
  BY <1>2, ConstantsAssumption DEF Linked, ConstantsAssumption
<1>4. \A r \in P : ha[link[r]] # None
  <2>1. TAKE r \in P
  <2>2. \E s \in P : link[s] = link[r]
    OBVIOUS
  <2>3. (CHOOSE s \in P : link[s] = link[r]) \in P
    BY <2>2
  <2>4. ha[link[r]] \in HAItem
    BY <1>2, <2>2, <2>3 DEF Linked
  <2>5. QED
    BY <2>4, ConstantsAssumption DEF ConstantsAssumption
<1>5. Pairs \subseteq Present(rem) \X Present(ha)
  <2>1. \A r \in P : link[r] \in HAUIDs /\ DOMAIN ha = HAUIDs
    BY <1>2 DEF Linked
  <2>2. \A r \in Tracked : r \in Present(rem) /\ db[r].ha \in Present(ha)
    BY <1>3, <1>4, <2>1
  <2>3. QED
    BY <2>2 DEF Pairs
<1>6. IInv
  BY InitInvariant
<1>7. Promise!TypeOK /\ Promise!Known
  BY <1>3, <1>5, <1>6
  DEF IInv, TypeOK, Issued, Promise!TypeOK, Promise!Known, Pairs
<1>8. Promise!OneToOne
  BY <1>6 DEF IInv, Injective, Promise!OneToOne
<1>9. QED
  BY <1>5, <1>7, <1>8 DEF Promise!Init, Pairs

(* The reconcile loop keeps the promise of Mirror, whatever users do meanwhile,
   whichever calls fail or are repeated, wherever it crashes. *)
THEOREM RelayKeepsPromise == Spec => Mirrors
<1>1. Init => Promise!Init
  BY InitKept
<1>2. IInv /\ [Next]_vars => [Promise!Next]_Promise!vars
  <2>1. ASSUME UNCHANGED vars PROVE UNCHANGED mirrored
    BY <2>1 DEF vars, mirrored
  <2>2. QED
    BY <2>1, RelayKept, UserKept, Stutter DEF Next, Kept
<1>3. QED
  BY <1>1, <1>2, Invariant, PTL DEF Spec, Mirrors, Promise!Spec

(* A process whose every start looks at the database keeps it as well. *)
LEMMA BootKept ==
    ASSUME BootInv, [BootNext]_allvars
    PROVE  Kept
<1> USE DEF BootInv
<1>1. CASE Relay
  BY <1>1, RelayKept
<1>2. CASE User
  BY <1>2, UserKept
<1>3. CASE UNCHANGED mirrored
  BY <1>3, Stutter
<1>4. CASE \E r \in RemUIDs, h \in HAUIDs : LinkMatched(r, h)
  <2>1. PICK r \in RemUIDs, h \in HAUIDs : LinkMatched(r, h)
    BY <1>4
  <2>2. /\ UNCHANGED <<rem, db, remIssued, haIssued, tasks, edits>>
        /\ \/ UNCHANGED ha
           \/ ha[h] # None /\ ha' = [ha EXCEPT ![h] = Item(Pushed(r, h))]
    BY <2>1, UpdateItemOutcomes DEF LinkMatched
  <2>3. Pushed(r, h) \in Projection
    BY <2>1 DEF LinkMatched, Matched, Pushed, IInv, TypeOK
  <2>4. Present(ha)' = Present(ha)
    BY <2>2, <2>3, UpdateKeepsItems
  <2>5. QED
    BY <2>2, <2>4, SameSides
<1>5. QED
  BY <1>1, <1>2, <1>3, <1>4, CreateIsRelay
  DEF BootNext, Unanswered, Skip, FetchReminders, FetchItems, GetItems,
      FetchAll, Decline, Cancelled, MatchReminder, Execute, Abort, Complete,
      EndPass, Passes, Agree, Restart, Users, Exit, allvars, vars, mirrored

LEMMA BootInitKept ==
    ASSUME BootInit
    PROVE  Promise!Init
<1>1. IInv /\ Tracked = {}
  BY BootInitInvariant DEF BootInit, BootInv
<1>2. Pairs = {}
  BY <1>1 DEF Pairs
<1>3. Promise!TypeOK /\ Promise!Known
  BY <1>1, <1>2
  DEF IInv, TypeOK, Issued, Promise!TypeOK, Promise!Known, Pairs
<1>4. QED
  BY <1>2, <1>3 DEF Promise!Init, Promise!OneToOne, Pairs

(* The bootstrap, its failures and restarts, and the passes after it keep the
   promise of Mirror: no match by title ever links anything a second time, and
   no start destroys a task. *)
THEOREM BootKeepsPromise == BootSpec => Mirrors
<1>1. BootInit => Promise!Init
  BY BootInitKept
<1>2. BootInv /\ [BootNext]_allvars => [Promise!Next]_Promise!vars
  BY BootKept DEF Kept
<1>3. QED
  BY <1>1, <1>2, BootInvariant, PTL DEF BootSpec, Mirrors, Promise!Spec

(* So does a daemon that set-up left in step, whose database users may empty. *)
THEOREM DaemonKeepsPromise == DaemonSpec => Mirrors
<1>1. DaemonInit => Promise!Init
  BY InitKept DEF DaemonInit
<1>2. BootInv /\ [BootNext]_allvars => [Promise!Next]_Promise!vars
  BY BootKept DEF Kept
<1>3. QED
  BY <1>1, <1>2, DaemonInvariant, PTL DEF DaemonSpec, Mirrors, Promise!Spec
===============================================================================
