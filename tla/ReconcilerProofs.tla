--------------------------- MODULE ReconcilerProofs ---------------------------
(***************************************************************************)
(* Proofs, for every value of the constants, that IInv of                  *)
(* ReconcilerInvariant is inductive, and of the safety properties of       *)
(* Reconciler that follow from it.  There is one lemma per action; in each *)
(* there is one step per conjunct of the invariant.                        *)
(***************************************************************************)
EXTENDS ReconcilerHistory, FiniteSetTheorems, TLAPS

USE DEF Projection, Reminder, HAItem, Row, Work, Adding, Link,
        world, store, pass, users, counts, Present, Tracked, LinkedHA

(* What the snapshots hold for each decision. *)
LEMMA DecideFacts ==
    ASSUME NEW r \in RemUIDs
    PROVE  /\ decide(r) = "deleteFromHA" => remSnap[r] = None
           /\ decide(r) = "deleteFromRem" =>
                remSnap[r] # None /\ HACopy(r) = None
           /\ decide(r) \in {"updateHA", "updateRem", "none"} =>
                remSnap[r] # None /\ HACopy(r) # None
<1>1. CASE remSnap[r] = None
  BY <1>1 DEF decide
<1>2. CASE remSnap[r] # None /\ HACopy(r) = None
  BY <1>2 DEF decide
<1>3. CASE remSnap[r] # None /\ HACopy(r) # None
  BY <1>3 DEF decide
<1>4. QED
  BY <1>1, <1>2, <1>3

(* Reading the reminders: GoneIsGone starts to hold for the rows. *)
LEMMA FetchAllStep ==
    ASSUME IInv, FetchAll
    PROVE  IInv'
<1> USE DEF FetchAll, Fetched, Fault
<1>1. TypeOK' BY DEF IInv, TypeOK
<1>2. Shape' BY DEF IInv, Shape
<1>3. Issued' BY DEF IInv, Issued
<1>4. Injective' BY DEF IInv, Injective
<1>5. StillNew' BY DEF IInv, StillNew
<1>6. CurrentRow' BY DEF IInv, CurrentRow
<1>7. AddedRow' BY DEF IInv, AddedRow
<1>8. GoneIsGone' BY DEF IInv, GoneIsGone, HACopy
<1>9. CompletionLinksResolve' BY DEF IInv, CompletionLinksResolve
<1>10. QED
  BY <1>1, <1>2, <1>3, <1>4, <1>5, <1>6, <1>7, <1>8, <1>9 DEF IInv

(* Reading the items and the rows: what has no row is new. *)
LEMMA GetItemsStep ==
    ASSUME IInv, GetItems
    PROVE  IInv'
<1> USE DEF GetItems, NewReminders, NewItems, SkipList, NextItem, Fault
<1>1. TypeOK' BY DEF IInv, TypeOK
<1>2. Shape' BY DEF IInv, Shape
<1>3. Issued' BY DEF IInv, Issued
<1>4. Injective' BY DEF IInv, Injective
<1>5. StillNew' BY DEF IInv, StillNew
<1>6. CurrentRow' BY DEF IInv, CurrentRow
<1>7. AddedRow' BY DEF IInv, AddedRow
<1>8. GoneIsGone' BY DEF IInv, GoneIsGone, HACopy
<1>9. CompletionLinksResolve' BY DEF IInv, CompletionLinksResolve
<1>10. QED
  BY <1>1, <1>2, <1>3, <1>4, <1>5, <1>6, <1>7, <1>8, <1>9 DEF IInv

(* A tracked pair that did not change. *)
LEMMA DoNothingStep ==
    ASSUME IInv, NEW r \in RemUIDs, DoNothing(r)
    PROVE  IInv'
<1> USE DEF DoNothing, Visit
<1>1. TypeOK' BY DEF IInv, TypeOK
<1>2. Shape' BY DEF IInv, Shape
<1>3. Issued' BY DEF IInv, Issued
<1>4. Injective' BY DEF IInv, Injective
<1>5. StillNew' BY DEF IInv, StillNew
<1>6. CurrentRow' BY DEF IInv, CurrentRow
<1>7. AddedRow' BY DEF IInv, AddedRow
<1>8. GoneIsGone' BY DEF IInv, GoneIsGone, HACopy
<1>9. CompletionLinksResolve' BY DEF IInv, CompletionLinksResolve
<1>10. QED
  BY <1>1, <1>2, <1>3, <1>4, <1>5, <1>6, <1>7, <1>8, <1>9 DEF IInv

(* Removing the item of a deleted reminder. *)
LEMMA DeleteFromHAStep ==
    ASSUME IInv, NEW r \in RemUIDs, DeleteFromHA(r)
    PROVE  IInv'
<1> USE DEF DeleteFromHA, Visit, NextItem, Refused, Fault
<1>1. TypeOK' BY DEF IInv, TypeOK, Shape
<1>2. Shape' BY DEF IInv, Shape, TypeOK
<1>3. Issued' BY DEF IInv, Issued, Shape
<1>4. Injective' BY DEF IInv, Injective
<1>5. StillNew' BY DEF IInv, StillNew, Shape
<1>6. CurrentRow' BY DEF IInv, CurrentRow, Shape
<1>7. AddedRow' BY DEF IInv, AddedRow
<1>8. GoneIsGone' BY DEF IInv, GoneIsGone, TypeOK, Shape, HACopy, decide
<1>9. CompletionLinksResolve'
  <2>1. rem[r] = None
    BY DecideFacts DEF IInv, GoneIsGone
  <2>2. QED
    BY <2>1 DEF IInv, CompletionLinksResolve, Shape, TypeOK
<1>10. QED
  BY <1>1, <1>2, <1>3, <1>4, <1>5, <1>6, <1>7, <1>8, <1>9 DEF IInv

(* Deleting the reminder of a removed item. *)
LEMMA DeleteFromRemStep ==
    ASSUME IInv, NEW r \in RemUIDs, DeleteFromRem(r)
    PROVE  IInv'
<1> USE DEF DeleteFromRem, Visit, NextItem, Refused, Fault
<1>1. TypeOK' BY DEF IInv, TypeOK, Shape
<1>2. Shape' BY DEF IInv, Shape, TypeOK
<1>3. Issued' BY DEF IInv, Issued, Shape
<1>4. Injective' BY DEF IInv, Injective
<1>5. StillNew' BY DEF IInv, StillNew, Shape
<1>6. CurrentRow' BY DEF IInv, CurrentRow, Shape
<1>7. AddedRow' BY DEF IInv, AddedRow
<1>8. GoneIsGone' BY DEF IInv, GoneIsGone, TypeOK, Shape, HACopy, decide
<1>9. CompletionLinksResolve' BY DEF IInv, CompletionLinksResolve, TypeOK
<1>10. QED
  BY <1>1, <1>2, <1>3, <1>4, <1>5, <1>6, <1>7, <1>8, <1>9 DEF IInv

(* Forgetting a pair whose copies are both gone. *)
LEMMA DropRowStep ==
    ASSUME IInv, DropRow
    PROVE  IInv'
<1> USE DEF DropRow, NextItem, Fault
<1>1. TypeOK' BY DEF IInv, TypeOK
<1>2. Shape' BY ConstantsAssumption DEF IInv, Shape, ConstantsAssumption
<1>3. Issued' BY DEF IInv, Issued
<1>4. Injective' BY DEF IInv, Injective
<1>5. StillNew' BY DEF IInv, StillNew
<1>6. CurrentRow' BY DEF IInv, CurrentRow
<1>7. AddedRow' BY DEF IInv, AddedRow
<1>8. GoneIsGone' BY DEF IInv, GoneIsGone, Shape, HACopy
<1>9. CompletionLinksResolve'
  BY DEF IInv, CompletionLinksResolve, TypeOK, GoneIsGone
<1>10. QED
  BY <1>1, <1>2, <1>3, <1>4, <1>5, <1>6, <1>7, <1>8, <1>9 DEF IInv

(* Pushing a reminder to its item. *)
LEMMA UpdateHAStep ==
    ASSUME IInv, NEW r \in RemUIDs, UpdateHA(r)
    PROVE  IInv'
<1> USE DEF UpdateHA, Visit, UpdateItem, NextItem, Refused, Fault, Item
<1>1. TypeOK'
  BY ConstantsAssumption DEF IInv, TypeOK, Shape, decide, ConstantsAssumption
<1>2. Shape' BY DEF IInv, Shape, TypeOK, decide
<1>3. Issued' BY DEF IInv, Issued, Shape
<1>4. Injective' BY DEF IInv, Injective
<1>5. StillNew' BY DEF IInv, StillNew, Shape
<1>6. CurrentRow' BY DEF IInv, CurrentRow, Shape
<1>7. AddedRow' BY DEF IInv, AddedRow
<1>8. GoneIsGone' BY DEF IInv, GoneIsGone, TypeOK, Shape, HACopy
<1>9. CompletionLinksResolve' BY DEF IInv, CompletionLinksResolve
<1>10. QED
  BY <1>1, <1>2, <1>3, <1>4, <1>5, <1>6, <1>7, <1>8, <1>9 DEF IInv

(* A projection with any recurrence rules is a reminder. *)
LEMMA WithRulesFact ==
    ASSUME NEW p \in Projection, NEW u \in Rules
    PROVE  /\ WithRules(p, u) \in Reminder
           /\ WithRules(p, u).rules = u
           /\ WithRules(p, u).proj.text = p.text
           /\ WithRules(p, u).proj.done = p.done
BY ConstantsAssumption DEF WithRules, ConstantsAssumption

(* What completing a reminder makes of it are reminders. *)
LEMMA CompletionFacts ==
    ASSUME NEW c \in Reminder
    PROVE  /\ \A d \in BOOLEAN : [c EXCEPT !.proj.done = d] \in Reminder
           /\ Advanced(c) \subseteq Reminder
           /\ \A next \in Advanced(c) : next.rules = c.rules
           /\ Archived(c) \in Reminder
<1>1. \A d \in BOOLEAN : [c EXCEPT !.proj.done = d] \in Reminder
  OBVIOUS
<1>2. ASSUME NEW t \in Texts
      PROVE  LET next == [c EXCEPT !.proj.text = t, !.proj.done = FALSE]
             IN  next \in Reminder /\ next.rules = c.rules
  OBVIOUS
<1>3. Archived(c) \in Reminder
  BY WithRulesFact, ConstantsAssumption DEF Archived, ConstantsAssumption
<1>4. ASSUME NEW next \in Advanced(c)
      PROVE  next \in Reminder /\ next.rules = c.rules
  <2>1. PICK t \in Texts : next = [c EXCEPT !.proj.text = t, !.proj.done = FALSE]
    BY DEF Advanced
  <2>2. QED
    BY <1>2, <2>1
<1>5. QED
  BY <1>1, <1>3, <1>4

(* What the pass writes over a reminder is a reminder. *)
LEMMA CommandFact ==
    ASSUME IInv, NEW r \in RemUIDs, Visit(r, "updateRem"),
           NEW editable \in FrequencyEditable(HACopy(r))
    PROVE  /\ remSnap[r] \in Reminder
           /\ HACopy(r) \in HAItem
           /\ editable \in BOOLEAN
           /\ editable => HACopy(r).proj.freq \in Simple
           /\ mergeHAProjection(remSnap[r], HACopy(r), editable) \in Reminder
<1>1. remSnap[r] # None /\ HACopy(r) # None
  BY DecideFacts DEF Visit
<1>2. remSnap[r] \in Reminder /\ HACopy(r) \in HAItem
  BY <1>1 DEF Visit, HACopy, IInv, TypeOK, Shape
<1>3. /\ editable \in BOOLEAN
      /\ editable => HACopy(r).proj.freq \in Simple
  <2>1. CASE HACopy(r).proj.freq = Once
    BY <2>1, ConstantsAssumption DEF FrequencyEditable, ConstantsAssumption
  <2>2. CASE HACopy(r).proj.freq # Once
    <3>1. editable \in {HACopy(r).proj.freq \in Simple}
      BY <2>2 DEF FrequencyEditable
    <3>2. (HACopy(r).proj.freq \in Simple) \in BOOLEAN
      OBVIOUS
    <3>3. QED
      BY <3>1, <3>2, Zenon
  <2>3. QED
    BY <2>1, <2>2
<1>4. /\ remSnap[r].rules \in Rules
      /\ editable => recurrenceForLabel[HACopy(r).proj.freq] \in Rules
  BY <1>2, <1>3, ConstantsAssumption DEF ConstantsAssumption
<1>5. HACopy(r).proj \in Projection
  BY <1>2
<1>6. mergeHAProjection(remSnap[r], HACopy(r), editable) \in Reminder
  BY <1>4, <1>5, WithRulesFact DEF mergeHAProjection
<1>7. QED
  BY <1>2, <1>3, <1>6

(* What an item asks for is a reminder. *)
LEMMA AskedFact ==
    ASSUME NEW i \in HAItem
    PROVE  Asked(i) \in Reminder
<1>1. /\ NoRules \in Rules
      /\ i.proj.freq \in Simple => recurrenceForLabel[i.proj.freq] \in Rules
  BY ConstantsAssumption DEF ConstantsAssumption
<1>2. QED
  BY <1>1, WithRulesFact DEF Asked

(* The ways UpdateRem can end: it writes what it has merged, or nothing. *)
LEMMA UpdateRemCases ==
    ASSUME IInv, NEW r \in RemUIDs, UpdateRem(r)
    PROVE  /\ Visit(r, "updateRem")
           /\ UNCHANGED <<ha, haIssued, store, edits, crashes>>
           /\ \/ /\ rem[r] # None
                 /\ \E editable \in FrequencyEditable(HACopy(r)),
                       command \in Reminder :
                      /\ command =
                           mergeHAProjection(remSnap[r], HACopy(r), editable)
                      /\ \/ RollOver(r, command) /\ RollsOver(command)
                         \/ WriteReminder(r, command)
                         \/ WriteFields(r, command)
              \/ /\ NextItem /\ (Fault \/ (rem[r] = None /\ UNCHANGED faults))
                 /\ UNCHANGED <<rem, remIssued, tasks>>
<1>1. /\ Visit(r, "updateRem")
      /\ UNCHANGED <<ha, haIssued, store, edits, crashes>>
  BY DEF UpdateRem
<1>2. \A editable \in FrequencyEditable(HACopy(r)) :
         mergeHAProjection(remSnap[r], HACopy(r), editable) \in Reminder
  BY <1>1, CommandFact
<1>3. \/ /\ rem[r] # None
         /\ \E editable \in FrequencyEditable(HACopy(r)) :
              LET command == mergeHAProjection(remSnap[r], HACopy(r), editable)
              IN  \/ RollOver(r, command) /\ RollsOver(command)
                  \/ WriteReminder(r, command)
                  \/ WriteFields(r, command)
      \/ /\ NextItem /\ (Fault \/ (rem[r] = None /\ UNCHANGED faults))
         /\ UNCHANGED <<rem, remIssued, tasks>>
  <2>1. CASE rem[r] = None
    <3>1. Refused(TRUE) /\ UNCHANGED <<rem, remIssued, tasks>>
      BY <2>1, Zenon DEF UpdateRem
    <3>2. /\ NextItem /\ (Fault \/ (rem[r] = None /\ UNCHANGED faults))
          /\ UNCHANGED <<rem, remIssued, tasks>>
      BY <2>1, <3>1 DEF Refused, NextItem, Fault
    <3>3. QED
      BY <3>2, Zenon
  <2>2. CASE rem[r] # None /\ Refused(FALSE) /\ UNCHANGED <<rem, remIssued, tasks>>
    <3>1. /\ NextItem /\ (Fault \/ (rem[r] = None /\ UNCHANGED faults))
          /\ UNCHANGED <<rem, remIssued, tasks>>
      BY <2>2 DEF Refused, NextItem, Fault
    <3>2. QED
      BY <3>1, Zenon
  <2>3. CASE rem[r] # None /\ ~(Refused(FALSE) /\ UNCHANGED <<rem, remIssued, tasks>>)
    <3>1. PICK editable \in FrequencyEditable(HACopy(r)) :
            LET command == mergeHAProjection(remSnap[r], HACopy(r), editable)
            IN  \/ RollOver(r, command) /\ RollsOver(command)
                \/ WriteReminder(r, command)
                \/ WriteFields(r, command)
      BY <2>3, Zenon DEF UpdateRem
    <3>2. QED
      BY <2>3, <3>1, Zenon
  <2>4. QED
    BY <2>1, <2>2, <2>3
<1>4. QED
  BY <1>1, <1>2, <1>3, Zenon

(* Completing a recurring reminder leaves its next occurrence, and an archived
   one under a fresh UID. *)
LEMMA RollOverFacts ==
    ASSUME IInv, NEW r \in RemUIDs, NEW command \in Reminder,
           RollOver(r, command)
    PROVE  \E a \in RemUIDs \ remIssued, next \in Reminder :
             /\ next \in Advanced(command)
             /\ Archived(command) \in Reminder
             /\ next # None /\ Archived(command) # None
             /\ rem' = [rem EXCEPT ![r] = next, ![a] = Archived(command)]
             /\ remIssued' = remIssued \cup {a}
             /\ tasks' = tasks + 1
             /\ \/ /\ pc' = "archive"
                   /\ cur' = [rem |-> r, ha |-> db[r].ha, proj |-> next.proj]
                   /\ add' = [rem |-> a, proj |-> Archived(command).proj,
                              before |-> {}, ha |-> None]
                   /\ UNCHANGED faults
                \/ NextItem /\ Fault
<1>1. Archived(command) \in Reminder /\ Advanced(command) \subseteq Reminder
  BY CompletionFacts
<1>2. None \notin Reminder
  BY ConstantsAssumption DEF ConstantsAssumption
<1> HIDE DEF Reminder
<1>3. QED
  BY <1>1, <1>2 DEF RollOver

(* Any other update leaves a reminder. *)
LEMMA WriteReminderFacts ==
    ASSUME IInv, NEW r \in RemUIDs, NEW command \in Reminder, rem[r] # None,
           WriteReminder(r, command) \/ WriteFields(r, command)
    PROVE  \E c \in Reminder :
             /\ c # None /\ c.rules = command.rules
             /\ rem' = [rem EXCEPT ![r] = c]
<1>1. None \notin Reminder
  BY ConstantsAssumption DEF ConstantsAssumption
<1>2. rem[r].proj.done \in BOOLEAN
  BY DEF IInv, TypeOK
<1>3. LET c == [command EXCEPT !.proj.done = rem[r].proj.done]
      IN  c \in Reminder /\ c.rules = command.rules
  BY <1>2
<1>4. QED
  BY <1>1, <1>3 DEF WriteReminder, WriteFields

(* Updating a reminder that does not recur, wholly or in part. *)
LEMMA WriteReminderStep ==
    ASSUME IInv, NEW r \in RemUIDs, NEW command \in Reminder,
           Visit(r, "updateRem"), rem[r] # None,
           WriteReminder(r, command) \/ WriteFields(r, command),
           UNCHANGED <<ha, haIssued, store, edits, crashes>>
    PROVE  IInv'
<1> USE DEF WriteReminder, WriteFields, Visit, NextItem, Fault
<1>0. remSnap[r] # None /\ haSnap[db[r].ha] # None
  BY DecideFacts DEF HACopy
<1>1. TypeOK'
  <2>1. rem' \in [RemUIDs -> Reminder \cup {None}]
    <3>1. [command EXCEPT !.proj.done = rem[r].proj.done] \in Reminder
      BY DEF IInv, TypeOK
    <3>2. QED
      BY <3>1 DEF IInv, TypeOK
  <2>2. cur' \in Work \cup {None}
    BY DEF IInv, TypeOK, Shape
  <2>3. QED
    BY <2>1, <2>2 DEF IInv, TypeOK, Shape
<1>2. Shape'
  BY <1>0, ConstantsAssumption
  DEF IInv, TypeOK, Shape, ConstantsAssumption
<1>3. Issued'
  BY ConstantsAssumption
  DEF IInv, TypeOK, Shape, Issued, ConstantsAssumption
<1>4. Injective' BY DEF IInv, Injective
<1>5. StillNew'
  BY ConstantsAssumption
  DEF IInv, TypeOK, Shape, StillNew, ConstantsAssumption
<1>6. CurrentRow' BY DEF IInv, TypeOK, Shape, CurrentRow
<1>7. AddedRow' BY DEF IInv, Shape, AddedRow
<1>8. GoneIsGone' BY <1>0 DEF IInv, TypeOK, Shape, GoneIsGone, HACopy
<1>9. CompletionLinksResolve'
  BY ConstantsAssumption
  DEF IInv, TypeOK, CompletionLinksResolve, ConstantsAssumption
<1>10. QED
  BY <1>1, <1>2, <1>3, <1>4, <1>5, <1>6, <1>7, <1>8, <1>9 DEF IInv

(* Completing a recurring reminder: the archived occurrence is a fresh UID. *)
LEMMA RollOverStep ==
    ASSUME IInv, NEW r \in RemUIDs, NEW command \in Reminder,
           Visit(r, "updateRem"), rem[r] # None, RollOver(r, command),
           UNCHANGED <<ha, haIssued, store, edits, crashes>>
    PROVE  IInv'
<1> USE DEF Visit, NextItem, Fault
<1>a. remSnap[r] # None /\ haSnap[db[r].ha] # None
  BY DecideFacts DEF HACopy
<1>b. Archived(command) \in Reminder
  BY CompletionFacts
<1>c. PICK a \in RemUIDs \ remIssued, next \in Reminder :
       /\ rem' = [rem EXCEPT ![r] = next, ![a] = Archived(command)]
       /\ remIssued' = remIssued \cup {a}
       /\ tasks' = tasks + 1
       /\ \/ /\ pc' = "archive"
             /\ cur' = [rem |-> r, ha |-> db[r].ha, proj |-> next.proj]
             /\ add' = [rem |-> a, proj |-> Archived(command).proj,
                        before |-> {}, ha |-> None]
             /\ UNCHANGED faults
          \/ NextItem /\ Fault
  BY RollOverFacts
<1>d. a # r /\ a \notin Tracked /\ a \notin Present(remSnap) /\ a \notin todo
  BY DEF IInv, TypeOK, Issued, Shape
<1>e. db[r].ha \in HAUIDs
  BY DEF IInv, TypeOK, Shape
<1>f. \/ /\ pc' = "archive"
         /\ cur' = [rem |-> r, ha |-> db[r].ha, proj |-> next.proj]
         /\ add' = [rem |-> a, proj |-> Archived(command).proj,
                    before |-> {}, ha |-> None]
         /\ faults' = faults
      \/ pc' = "loop" /\ cur' = None /\ add' = None /\ faults' = faults + 1
  BY <1>c
<1>g. cur' \in Work \cup {None} /\ add' \in Adding \cup {None}
  BY <1>b, <1>e, <1>f
<1>1. TypeOK'
  <2>1. rem' \in [RemUIDs -> Reminder \cup {None}]
    BY <1>b, <1>c DEF IInv, TypeOK
  <2>2. /\ remIssued' \subseteq RemUIDs /\ tasks' \in Nat
        /\ todo' \subseteq RemUIDs
        /\ UNCHANGED <<remSnap, haSnap, newRem, newHA>>
    BY <1>c DEF IInv, TypeOK
  <2>3. pc' \in {"archive", "loop"} /\ faults' \in Nat
    BY <1>f DEF IInv, TypeOK
  <2>4. QED
    BY <1>g, <2>1, <2>2, <2>3 DEF IInv, TypeOK
<1>2. Shape'
  <2>1. cur' # None => cur'.rem = r /\ cur'.ha = db[r].ha
    BY <1>f
  <2>2. pc' = "archive" => cur' \in Work /\ add' \in Adding
    <3>1. (cur' \in Work /\ add' \in Adding) \/ pc' # "archive"
      <4>1. pc' = "archive" =>
               /\ cur' = [rem |-> r, ha |-> db[r].ha, proj |-> next.proj]
               /\ add' = [rem |-> a, proj |-> Archived(command).proj,
                          before |-> {}, ha |-> None]
        BY <1>f
      <4>2. QED
        BY <1>b, <1>e, <4>1
    <3>2. QED
      BY <3>1
  <2> HIDE DEF Reminder, Adding, Work
  <2>3. QED
    BY <1>a, <1>f, <2>1, <2>2 DEF IInv, Shape
<1>3. Issued'
  BY <1>c, <1>d, ConstantsAssumption
  DEF IInv, TypeOK, Shape, Issued, ConstantsAssumption
<1>4. Injective' BY DEF IInv, Injective
<1>5. StillNew'
  BY <1>c, <1>d, ConstantsAssumption
  DEF IInv, TypeOK, Shape, StillNew, ConstantsAssumption
<1>6. CurrentRow' BY <1>c, <1>d DEF IInv, TypeOK, Shape, CurrentRow
<1>7. AddedRow' BY <1>c, <1>d DEF IInv, TypeOK, Shape, AddedRow
<1>8. GoneIsGone'
  BY <1>a, <1>c, <1>d DEF IInv, TypeOK, Shape, GoneIsGone, HACopy
<1>9. CompletionLinksResolve'
  BY <1>c, <1>d, ConstantsAssumption
  DEF IInv, TypeOK, Issued, CompletionLinksResolve, ConstantsAssumption
<1>10. QED
  BY <1>1, <1>2, <1>3, <1>4, <1>5, <1>6, <1>7, <1>8, <1>9 DEF IInv

(* Updating a reminder from its item. *)
LEMMA UpdateRemStep ==
    ASSUME IInv, NEW r \in RemUIDs, UpdateRem(r)
    PROVE  IInv'
<1>1. /\ Visit(r, "updateRem")
      /\ UNCHANGED <<ha, haIssued, store, edits, crashes>>
  BY DEF UpdateRem
<1>2. ASSUME NEW command \in Reminder, rem[r] # None,
             WriteReminder(r, command) \/ WriteFields(r, command)
      PROVE  IInv'
  BY <1>1, <1>2, WriteReminderStep
<1>3. ASSUME NEW command \in Reminder, rem[r] # None, RollOver(r, command)
      PROVE  IInv'
  BY <1>1, <1>3, RollOverStep
<1>4. CASE /\ NextItem /\ (Fault \/ UNCHANGED faults)
           /\ UNCHANGED <<rem, remIssued, tasks>>
  <2> USE <1>1, <1>4 DEF Visit, NextItem, Fault
  <2>1. TypeOK' BY DEF IInv, TypeOK
  <2>2. Shape' BY DEF IInv, Shape
  <2>3. Issued' BY DEF IInv, Issued
  <2>4. Injective' BY DEF IInv, Injective
  <2>5. StillNew' BY DEF IInv, StillNew
  <2>6. CurrentRow' BY DEF IInv, CurrentRow
  <2>7. AddedRow' BY DEF IInv, AddedRow
  <2>8. GoneIsGone' BY DEF IInv, GoneIsGone, HACopy, Shape
  <2>9. CompletionLinksResolve' BY DEF IInv, CompletionLinksResolve
  <2>10. QED
    BY <2>1, <2>2, <2>3, <2>4, <2>5, <2>6, <2>7, <2>8, <2>9 DEF IInv
<1>5. QED
  BY <1>2, <1>3, <1>4, UpdateRemCases

(* After a rollover: reading the archived occurrence. *)
LEMMA FetchArchivedStep ==
    ASSUME IInv, FetchArchived
    PROVE  IInv'
<1> USE DEF FetchArchived, NextItem, Refused, Fault
<1>1. TypeOK' BY DEF IInv, TypeOK, Shape
<1>2. Shape'
  BY ConstantsAssumption DEF IInv, Shape, TypeOK, AddedRow,
                             ConstantsAssumption
<1>3. Issued' BY DEF IInv, Issued, TypeOK, Shape
<1>4. Injective' BY DEF IInv, Injective
<1>5. StillNew'
  BY ConstantsAssumption DEF IInv, StillNew, Shape, ConstantsAssumption
<1>6. CurrentRow' BY DEF IInv, CurrentRow
<1>7. AddedRow' BY DEF IInv, AddedRow, TypeOK, Shape
<1>8. GoneIsGone' BY DEF IInv, GoneIsGone, HACopy
<1>9. CompletionLinksResolve' BY DEF IInv, CompletionLinksResolve
<1>10. QED
  BY <1>1, <1>2, <1>3, <1>4, <1>5, <1>6, <1>7, <1>8, <1>9 DEF IInv

(* Linking the archived occurrence, which has its row. *)
LEMMA SaveCompletionLinkStep ==
    ASSUME IInv, SaveCompletionLink
    PROVE  IInv'
<1> USE DEF SaveCompletionLink, NewLink, NextItem, Refused, Fault
<1>1. TypeOK' BY DEF IInv, TypeOK, Shape
<1>2. Shape' BY DEF IInv, Shape
<1>3. Issued'
  BY ConstantsAssumption DEF IInv, Issued, Shape, ConstantsAssumption
<1>4. Injective' BY DEF IInv, Injective
<1>5. StillNew' BY DEF IInv, StillNew
<1>6. CurrentRow' BY DEF IInv, CurrentRow
<1>7. AddedRow' BY DEF IInv, AddedRow
<1>8. GoneIsGone' BY DEF IInv, GoneIsGone, HACopy
<1>9. CompletionLinksResolve' BY DEF IInv, CompletionLinksResolve, AddedRow
<1>10. QED
  BY <1>1, <1>2, <1>3, <1>4, <1>5, <1>6, <1>7, <1>8, <1>9 DEF IInv

(* Echoing the committed reminder to its item. *)
LEMMA EchoToHAStep ==
    ASSUME IInv, EchoToHA
    PROVE  IInv'
<1> USE DEF EchoToHA, UpdateItem, Item, NextItem, Refused, Fault
<1>1. TypeOK' BY DEF IInv, TypeOK, Shape
<1>2. Shape' BY DEF IInv, Shape
<1>3. Issued' BY DEF IInv, Issued
<1>4. Injective' BY DEF IInv, Injective
<1>5. StillNew' BY DEF IInv, StillNew
<1>6. CurrentRow' BY DEF IInv, CurrentRow
<1>7. AddedRow' BY DEF IInv, AddedRow
<1>8. GoneIsGone' BY DEF IInv, GoneIsGone, TypeOK, Shape, HACopy
<1>9. CompletionLinksResolve' BY DEF IInv, CompletionLinksResolve
<1>10. QED
  BY <1>1, <1>2, <1>3, <1>4, <1>5, <1>6, <1>7, <1>8, <1>9 DEF IInv

(* Writing the row of the item in work. *)
LEMMA SaveRowStep ==
    ASSUME IInv, SaveRow
    PROVE  IInv'
<1> USE DEF SaveRow, UpsertItem, NewRow, Clashes, NextItem, Refused, Fault
<1>1. TypeOK' BY DEF IInv, TypeOK, Shape
<1>2. Shape' BY ConstantsAssumption DEF IInv, Shape, ConstantsAssumption
<1>3. Issued'
  BY ConstantsAssumption DEF IInv, Issued, Shape, ConstantsAssumption
<1>4. Injective' BY DEF IInv, Injective
<1>5. StillNew'
  BY ConstantsAssumption DEF IInv, StillNew, Shape, ConstantsAssumption
<1>6. CurrentRow' BY DEF IInv, CurrentRow
<1>7. AddedRow' BY DEF IInv, AddedRow
<1>8. GoneIsGone'
  BY ConstantsAssumption DEF IInv, GoneIsGone, Shape, HACopy,
                             ConstantsAssumption
<1>9. CompletionLinksResolve'
  BY ConstantsAssumption DEF IInv, CompletionLinksResolve, TypeOK, Shape,
                             CurrentRow, ConstantsAssumption
<1>10. QED
  BY <1>1, <1>2, <1>3, <1>4, <1>5, <1>6, <1>7, <1>8, <1>9 DEF IInv

(* Starting to add an item for a new reminder. *)
LEMMA CreateInHAStep ==
    ASSUME IInv, NEW r \in RemUIDs, CreateInHA(r)
    PROVE  IInv'
<1> USE DEF CreateInHA, ListBefore, NextItem, Refused, Fault
<1>1. TypeOK' BY DEF IInv, TypeOK, Shape
<1>2. Shape' BY DEF IInv, Shape, TypeOK
<1>3. Issued' BY DEF IInv, Issued, Shape
<1>4. Injective' BY DEF IInv, Injective
<1>5. StillNew' BY DEF IInv, StillNew
<1>6. CurrentRow' BY DEF IInv, CurrentRow
<1>7. AddedRow' BY DEF IInv, AddedRow, StillNew, Candidates
<1>8. GoneIsGone' BY DEF IInv, GoneIsGone
<1>9. CompletionLinksResolve' BY DEF IInv, CompletionLinksResolve
<1>10. QED
  BY <1>1, <1>2, <1>3, <1>4, <1>5, <1>6, <1>7, <1>8, <1>9 DEF IInv

(* Starting to add an item for an archived occurrence. *)
LEMMA CreateArchivedInHAStep ==
    ASSUME IInv, CreateArchivedInHA
    PROVE  IInv'
<1> USE DEF CreateArchivedInHA, ListBefore, NextItem, Refused, Fault
<1>1. TypeOK' BY DEF IInv, TypeOK, Shape
<1>2. Shape'
  BY ConstantsAssumption DEF IInv, Shape, TypeOK, ConstantsAssumption
<1>3. Issued'
  BY ConstantsAssumption DEF IInv, Issued, Shape, ConstantsAssumption
<1>4. Injective' BY DEF IInv, Injective
<1>5. StillNew'
  BY ConstantsAssumption DEF IInv, StillNew, Shape, ConstantsAssumption
<1>6. CurrentRow' BY DEF IInv, CurrentRow
<1>7. AddedRow' BY DEF IInv, AddedRow, Candidates
<1>8. GoneIsGone' BY DEF IInv, GoneIsGone, HACopy
<1>9. CompletionLinksResolve' BY DEF IInv, CompletionLinksResolve
<1>10. QED
  BY <1>1, <1>2, <1>3, <1>4, <1>5, <1>6, <1>7, <1>8, <1>9 DEF IInv

(* Adding the item, perhaps several times. *)
LEMMA AddItemStep ==
    ASSUME IInv, AddItem
    PROVE  IInv'
<1> USE DEF AddItem, Opened, Item, NextItem, Fault
<1>1. TypeOK'
  <2>1. add.proj \in Projection
    BY DEF IInv, Shape
  <2>2. Opened(add.proj) \in HAItem
    BY <2>1 DEF Opened, Item
  <2>3. ha' \in [HAUIDs -> HAItem \cup {None}] /\ haIssued' \subseteq HAUIDs
    BY <2>2 DEF IInv, TypeOK
  <2>4. faults' \in Nat
    BY ConstantsAssumption DEF IInv, TypeOK, ConstantsAssumption
  <2>5. /\ pc' \in {"after", "loop"}
        /\ UNCHANGED cur \/ cur' = None
        /\ UNCHANGED add \/ add' = None
        /\ UNCHANGED <<rem, remIssued, store, pass, users, crashes>>
    OBVIOUS
  <2>6. QED
    BY <2>3, <2>4, <2>5 DEF IInv, TypeOK
<1>2. Shape' BY DEF IInv, Shape
<1>3. Issued' BY DEF IInv, Issued, TypeOK
<1>4. Injective' BY DEF IInv, Injective
<1>5. StillNew' BY DEF IInv, StillNew
<1>6. CurrentRow' BY DEF IInv, CurrentRow
<1>7. AddedRow' BY DEF IInv, AddedRow, TypeOK, Shape, Issued, Candidates
<1>8. GoneIsGone' BY DEF IInv, GoneIsGone, TypeOK, Shape, Issued, HACopy
<1>9. CompletionLinksResolve' BY DEF IInv, CompletionLinksResolve
<1>10. QED
  BY <1>1, <1>2, <1>3, <1>4, <1>5, <1>6, <1>7, <1>8, <1>9 DEF IInv

(* Taking a new item for the one added: no candidate is linked. *)
LEMMA ResolveUIDStep ==
    ASSUME IInv, ResolveUID
    PROVE  IInv'
<1> USE DEF ResolveUID, Identified, Candidates, NextItem, Refused, Fault
<1>1. TypeOK' BY DEF IInv, TypeOK, Shape
<1>2. Shape' BY ConstantsAssumption DEF IInv, Shape, ConstantsAssumption
<1>3. Issued'
  BY ConstantsAssumption DEF IInv, Issued, Shape, ConstantsAssumption
<1>4. Injective' BY DEF IInv, Injective
<1>5. StillNew'
  BY ConstantsAssumption DEF IInv, StillNew, Shape, ConstantsAssumption
<1>6. CurrentRow' BY DEF IInv, CurrentRow
<1>7. AddedRow' BY DEF IInv, AddedRow, Shape, Issued
<1>8. GoneIsGone' BY DEF IInv, GoneIsGone, HACopy
<1>9. CompletionLinksResolve' BY DEF IInv, CompletionLinksResolve
<1>10. QED
  BY <1>1, <1>2, <1>3, <1>4, <1>5, <1>6, <1>7, <1>8, <1>9 DEF IInv

(* Writing the content of the added item. *)
LEMMA ApplyToAddedStep ==
    ASSUME IInv, ApplyToAdded
    PROVE  IInv'
<1> USE DEF ApplyToAdded, UpdateItem, Item, NextItem, Refused, Fault
<1>1. TypeOK' BY DEF IInv, TypeOK, Shape
<1>2. Shape' BY DEF IInv, Shape
<1>3. Issued' BY DEF IInv, Issued
<1>4. Injective' BY DEF IInv, Injective
<1>5. StillNew' BY DEF IInv, StillNew
<1>6. CurrentRow' BY DEF IInv, CurrentRow
<1>7. AddedRow' BY DEF IInv, AddedRow
<1>8. GoneIsGone' BY DEF IInv, GoneIsGone, TypeOK, Shape, HACopy
<1>9. CompletionLinksResolve' BY DEF IInv, CompletionLinksResolve
<1>10. QED
  BY <1>1, <1>2, <1>3, <1>4, <1>5, <1>6, <1>7, <1>8, <1>9 DEF IInv

(* Writing the row of the added item. *)
LEMMA SaveAddedStep ==
    ASSUME IInv, SaveAdded
    PROVE  IInv'
<1> USE DEF SaveAdded, UpsertItem, NewRow, Clashes, NextItem, Refused, Fault
<1>1. TypeOK' BY DEF IInv, TypeOK, Shape
<1>2. Shape'
  BY ConstantsAssumption DEF IInv, Shape, TypeOK, ConstantsAssumption
<1>3. Issued'
  BY ConstantsAssumption DEF IInv, Issued, Shape, AddedRow,
                             ConstantsAssumption
<1>4. Injective' BY DEF IInv, Injective
<1>5. StillNew'
  BY ConstantsAssumption DEF IInv, StillNew, Shape, AddedRow,
                             ConstantsAssumption
<1>6. CurrentRow' BY DEF IInv, CurrentRow, AddedRow
<1>7. AddedRow'
  BY ConstantsAssumption DEF IInv, AddedRow, TypeOK, Shape,
                             ConstantsAssumption
<1>8. GoneIsGone' BY DEF IInv, GoneIsGone, Shape, AddedRow, HACopy
<1>9. CompletionLinksResolve'
  BY DEF IInv, CompletionLinksResolve, TypeOK, AddedRow
<1>10. QED
  BY <1>1, <1>2, <1>3, <1>4, <1>5, <1>6, <1>7, <1>8, <1>9 DEF IInv

(* Creating a reminder for an item touches fresh UIDs only: one, or one more
   when it recurs and is completed. *)
LEMMA CreatedFacts ==
    ASSUME IInv, NEW h \in HAUIDs, CreateInReminders(h)
    PROVE  /\ h \in newHA /\ newHA' = newHA \ {h}
           /\ haSnap[h] \in HAItem
           /\ pc = "loop" /\ todo = {} /\ newRem = {} /\ cur = None /\ add = None
           /\ UNCHANGED <<ha, haIssued, store, remSnap, haSnap, todo, newRem,
                          edits, crashes>>
           /\ rem' \in [RemUIDs -> Reminder \cup {None}]
           /\ remIssued \subseteq remIssued' /\ remIssued' \subseteq RemUIDs
           /\ \A s \in RemUIDs : rem'[s] = rem[s] \/ s \in remIssued' \ remIssued
           /\ tasks' \in Nat /\ faults' \in Nat
           /\ add' = None
           /\ \E r, a : remIssued' \subseteq remIssued \cup {r, a}
           /\ \/ pc' = "loop" /\ cur' = None /\ faults' = faults + 1
              \/ /\ pc' = "echo" /\ UNCHANGED faults
                 /\ \E r \in RemUIDs \ remIssued :
                      /\ rem'[r] # None
                      /\ cur' = [rem |-> r, ha |-> h, proj |-> rem'[r].proj]
                      /\ \/ remIssued' = remIssued \cup {r} /\ tasks' = tasks
                         \/ \E a \in RemUIDs \ (remIssued \cup {r}) :
                              /\ remIssued' = remIssued \cup {r, a}
                              /\ tasks' = tasks + 1
<1> DEFINE c == Asked(haSnap[h])
<1>1. /\ h \in newHA /\ newHA' = newHA \ {h}
      /\ pc = "loop" /\ todo = {} /\ newRem = {} /\ cur = None /\ add = None
      /\ UNCHANGED <<ha, haIssued, store, remSnap, haSnap, todo, newRem,
                     edits, crashes>>
  BY DEF CreateInReminders, IInv, Shape
<1>2. haSnap[h] \in HAItem
  BY <1>1 DEF IInv, Shape, TypeOK
<1>3. /\ c \in Reminder /\ [c EXCEPT !.proj.done = FALSE] \in Reminder
      /\ Advanced(c) \subseteq Reminder /\ Archived(c) \in Reminder
  BY <1>2, AskedFact, CompletionFacts
<1>4. None \notin Reminder
  BY ConstantsAssumption DEF ConstantsAssumption
<1>5. /\ rem \in [RemUIDs -> Reminder \cup {None}] /\ remIssued \subseteq RemUIDs
      /\ tasks \in Nat /\ faults \in Nat
  BY DEF IInv, TypeOK
<1> DEFINE Facts ==
      /\ rem' \in [RemUIDs -> Reminder \cup {None}]
      /\ remIssued \subseteq remIssued' /\ remIssued' \subseteq RemUIDs
      /\ \A s \in RemUIDs : rem'[s] = rem[s] \/ s \in remIssued' \ remIssued
      /\ tasks' \in Nat /\ faults' \in Nat
      /\ add' = None
      /\ \E r, a : remIssued' \subseteq remIssued \cup {r, a}
      /\ \/ pc' = "loop" /\ cur' = None /\ faults' = faults + 1
         \/ /\ pc' = "echo" /\ UNCHANGED faults
            /\ \E r \in RemUIDs \ remIssued :
                 /\ rem'[r] # None
                 /\ cur' = [rem |-> r, ha |-> h, proj |-> rem'[r].proj]
                 /\ \/ remIssued' = remIssued \cup {r} /\ tasks' = tasks
                    \/ \E a \in RemUIDs \ (remIssued \cup {r}) :
                         /\ remIssued' = remIssued \cup {r, a}
                         /\ tasks' = tasks + 1
<1>6. ASSUME NEW r \in RemUIDs \ remIssued, CreateReminder(r, h, c)
      PROVE  Facts
  <2> HIDE DEF c
  <2> QED
    BY <1>1, <1>3, <1>4, <1>5, <1>6 DEF CreateReminder
<1>7. ASSUME NEW r \in RemUIDs \ remIssued, CreateRecurring(r, h, c)
      PROVE  Facts
  <2> HIDE DEF c
  <2>1. PICK a \in RemUIDs \ (remIssued \cup {r}), next \in Advanced(c) :
          /\ \/ /\ rem' = [rem EXCEPT ![r] = next, ![a] = Archived(c)]
                /\ pc' = "echo"
                /\ cur' = [rem |-> r, ha |-> h, proj |-> next.proj]
                /\ UNCHANGED <<add, faults>>
             \/ /\ rem' \in {[rem EXCEPT ![r] = next, ![a] = Archived(c)],
                             [rem EXCEPT ![a] = Archived(c)]}
                /\ NextItem /\ Fault
          /\ remIssued' = remIssued \cup {r, a}
          /\ tasks' = tasks + 1
    BY <1>7 DEF CreateRecurring
  <2>2. next \in Reminder /\ Archived(c) \in Reminder
    BY <1>3
  <2> HIDE DEF Reminder
  <2>3. CASE /\ rem' = [rem EXCEPT ![r] = next, ![a] = Archived(c)]
             /\ pc' = "echo"
             /\ cur' = [rem |-> r, ha |-> h, proj |-> next.proj]
             /\ UNCHANGED <<add, faults>>
    <3>1. rem' \in [RemUIDs -> Reminder \cup {None}] /\ rem'[r] = next /\ next # None
      BY <1>4, <1>5, <2>2, <2>3
    <3>2. /\ cur' = [rem |-> r, ha |-> h, proj |-> rem'[r].proj]
          /\ pc' = "echo" /\ add' = None /\ faults' = faults
      BY <1>1, <2>3, <3>1
    <3>3. \A s \in RemUIDs : rem'[s] = rem[s] \/ s \in {r, a}
      BY <1>5, <2>3
    <3>4. QED
      BY <1>5, <2>1, <3>1, <3>2, <3>3
  <2>4. CASE /\ rem' \in {[rem EXCEPT ![r] = next, ![a] = Archived(c)],
                          [rem EXCEPT ![a] = Archived(c)]}
             /\ NextItem /\ Fault
    BY <1>5, <2>1, <2>2, <2>4 DEF NextItem, Fault
  <2>5. QED
    BY <2>1, <2>3, <2>4
<1>8. ASSUME NEW r \in RemUIDs \ remIssued, CreateUncompleted(r, c)
      PROVE  Facts
  <2> HIDE DEF c
  <2> QED
    BY <1>3, <1>5, <1>8 DEF CreateUncompleted, NextItem, Fault
<1>9. ASSUME UNCHANGED <<rem, remIssued, tasks>> /\ Refused(FALSE)
      PROVE  Facts
  <2>1. /\ rem' = rem /\ remIssued' = remIssued /\ tasks' = tasks
        /\ pc' = "loop" /\ cur' = None /\ add' = None /\ faults' = faults + 1
    BY <1>9 DEF Refused, NextItem, Fault
  <2> HIDE DEF Reminder
  <2>2. QED
    BY <1>1, <1>5, <2>1
<1>10. Facts
  BY <1>6, <1>7, <1>8, <1>9 DEF CreateInReminders
<1>11. QED
  BY <1>1, <1>2, <1>10

(* Importing an item: the reminder gets a fresh UID. *)
LEMMA CreateInRemindersStep ==
    ASSUME IInv, NEW h \in HAUIDs, CreateInReminders(h)
    PROVE  IInv'
<1> USE CreatedFacts
<1>1. TypeOK'
  <2>1. cur' \in Work \cup {None}
    BY ConstantsAssumption DEF IInv, TypeOK, ConstantsAssumption
  <2>2. QED
    BY <2>1 DEF IInv, TypeOK
<1>2. Shape' BY DEF IInv, Shape, TypeOK
<1>3. Issued'
  <2>1. Present(rem)' \subseteq remIssued'
    BY DEF IInv, TypeOK, Issued
  <2>2. h \in haIssued
    BY DEF IInv, Shape, Issued
  <2>3. cur' # None => cur'.rem \in remIssued' /\ cur'.ha \in haIssued'
    BY <2>2
  <2>4. QED
    BY <2>1, <2>3 DEF IInv, Issued
<1>4. Injective' BY DEF IInv, Injective
<1>5. StillNew' BY DEF IInv, StillNew
<1>6. CurrentRow' BY DEF IInv, CurrentRow, Issued, StillNew
<1>7. AddedRow' BY DEF IInv, AddedRow
<1>8. GoneIsGone' BY DEF IInv, GoneIsGone
<1>9. CompletionLinksResolve'
  BY DEF IInv, CompletionLinksResolve, TypeOK, Issued
<1>10. QED
  BY <1>1, <1>2, <1>3, <1>4, <1>5, <1>6, <1>7, <1>8, <1>9 DEF IInv

(* Ending the pass. *)
LEMMA EndPassStep ==
    ASSUME IInv, EndPass
    PROVE  IInv'
<1> USE DEF EndPass, Forget, NoReminders, NoItems
<1>1. TypeOK' BY DEF IInv, TypeOK
<1>2. Shape' BY DEF IInv, Shape
<1>3. Issued' BY DEF IInv, Issued
<1>4. Injective' BY DEF IInv, Injective
<1>5. StillNew' BY DEF IInv, StillNew
<1>6. CurrentRow' BY DEF IInv, CurrentRow
<1>7. AddedRow' BY DEF IInv, AddedRow
<1>8. GoneIsGone' BY DEF IInv, GoneIsGone
<1>9. CompletionLinksResolve' BY DEF IInv, CompletionLinksResolve
<1>10. QED
  BY <1>1, <1>2, <1>3, <1>4, <1>5, <1>6, <1>7, <1>8, <1>9 DEF IInv

(* Restarting after a crash: only the database survives. *)
LEMMA CrashStep ==
    ASSUME IInv, Crash
    PROVE  IInv'
<1> USE DEF Crash, Forget, NoReminders, NoItems
<1>1. TypeOK' BY DEF IInv, TypeOK
<1>2. Shape' BY DEF IInv, Shape
<1>3. Issued' BY DEF IInv, Issued
<1>4. Injective' BY DEF IInv, Injective
<1>5. StillNew' BY DEF IInv, StillNew
<1>6. CurrentRow' BY DEF IInv, CurrentRow
<1>7. AddedRow' BY DEF IInv, AddedRow
<1>8. GoneIsGone' BY DEF IInv, GoneIsGone
<1>9. CompletionLinksResolve' BY DEF IInv, CompletionLinksResolve
<1>10. QED
  BY <1>1, <1>2, <1>3, <1>4, <1>5, <1>6, <1>7, <1>8, <1>9 DEF IInv

(* A reminder made by a user has a fresh UID. *)
LEMMA UserAddsReminderStep ==
    ASSUME IInv, UserAddsReminder
    PROVE  IInv'
<1> USE DEF UserAddsReminder, NewTask, UserMayAct, relay
<1>1. TypeOK' BY DEF IInv, TypeOK
<1>2. Shape' BY DEF IInv, Shape
<1>3. Issued' BY DEF IInv, Issued
<1>4. Injective' BY DEF IInv, Injective
<1>5. StillNew' BY DEF IInv, StillNew
<1>6. CurrentRow' BY DEF IInv, CurrentRow
<1>7. AddedRow' BY DEF IInv, AddedRow, Candidates
<1>8. GoneIsGone' BY DEF IInv, GoneIsGone, Shape, Issued, HACopy
<1>9. CompletionLinksResolve' BY DEF IInv, CompletionLinksResolve, Issued
<1>10. QED
  BY <1>1, <1>2, <1>3, <1>4, <1>5, <1>6, <1>7, <1>8, <1>9 DEF IInv

(* A user edits a reminder. *)
LEMMA UserEditsReminderStep ==
    ASSUME IInv, UserEditsReminder
    PROVE  IInv'
<1> USE DEF UserEditsReminder, Edit, UserMayAct, relay
<1>1. TypeOK' BY DEF IInv, TypeOK
<1>2. Shape' BY DEF IInv, Shape
<1>3. Issued' BY DEF IInv, Issued
<1>4. Injective' BY DEF IInv, Injective
<1>5. StillNew' BY DEF IInv, StillNew
<1>6. CurrentRow' BY DEF IInv, CurrentRow
<1>7. AddedRow' BY DEF IInv, AddedRow, Candidates
<1>8. GoneIsGone' BY DEF IInv, GoneIsGone, HACopy
<1>9. CompletionLinksResolve' BY DEF IInv, CompletionLinksResolve
<1>10. QED
  BY <1>1, <1>2, <1>3, <1>4, <1>5, <1>6, <1>7, <1>8, <1>9 DEF IInv

(* A user deletes a reminder. *)
LEMMA UserDeletesReminderStep ==
    ASSUME IInv, UserDeletesReminder
    PROVE  IInv'
<1> USE DEF UserDeletesReminder, Edit, UserMayAct, relay
<1>1. TypeOK' BY DEF IInv, TypeOK
<1>2. Shape' BY DEF IInv, Shape
<1>3. Issued' BY DEF IInv, Issued
<1>4. Injective' BY DEF IInv, Injective
<1>5. StillNew' BY DEF IInv, StillNew
<1>6. CurrentRow' BY DEF IInv, CurrentRow
<1>7. AddedRow' BY DEF IInv, AddedRow, Candidates
<1>8. GoneIsGone' BY DEF IInv, GoneIsGone, HACopy
<1>9. CompletionLinksResolve' BY DEF IInv, CompletionLinksResolve
<1>10. QED
  BY <1>1, <1>2, <1>3, <1>4, <1>5, <1>6, <1>7, <1>8, <1>9 DEF IInv

(* An item made by a user has a fresh UID. *)
LEMMA UserAddsItemStep ==
    ASSUME IInv, UserAddsItem
    PROVE  IInv'
<1> USE DEF UserAddsItem, NewTask, UserMayAct, relay
<1>1. TypeOK' BY DEF IInv, TypeOK
<1>2. Shape' BY DEF IInv, Shape
<1>3. Issued' BY DEF IInv, Issued
<1>4. Injective' BY DEF IInv, Injective
<1>5. StillNew' BY DEF IInv, StillNew
<1>6. CurrentRow' BY DEF IInv, CurrentRow
<1>7. AddedRow' BY DEF IInv, AddedRow, Shape, Issued, Candidates
<1>8. GoneIsGone' BY DEF IInv, GoneIsGone, Shape, Issued, HACopy
<1>9. CompletionLinksResolve' BY DEF IInv, CompletionLinksResolve
<1>10. QED
  BY <1>1, <1>2, <1>3, <1>4, <1>5, <1>6, <1>7, <1>8, <1>9 DEF IInv

(* A user edits an item. *)
LEMMA UserEditsItemStep ==
    ASSUME IInv, UserEditsItem
    PROVE  IInv'
<1> USE DEF UserEditsItem, Edit, UserMayAct, relay
<1>1. TypeOK' BY DEF IInv, TypeOK
<1>2. Shape' BY DEF IInv, Shape
<1>3. Issued' BY DEF IInv, Issued
<1>4. Injective' BY DEF IInv, Injective
<1>5. StillNew' BY DEF IInv, StillNew
<1>6. CurrentRow' BY DEF IInv, CurrentRow
<1>7. AddedRow' BY DEF IInv, AddedRow, Candidates
<1>8. GoneIsGone' BY DEF IInv, GoneIsGone, HACopy
<1>9. CompletionLinksResolve' BY DEF IInv, CompletionLinksResolve
<1>10. QED
  BY <1>1, <1>2, <1>3, <1>4, <1>5, <1>6, <1>7, <1>8, <1>9 DEF IInv

(* A user removes an item. *)
LEMMA UserDeletesItemStep ==
    ASSUME IInv, UserDeletesItem
    PROVE  IInv'
<1> USE DEF UserDeletesItem, Edit, UserMayAct, relay
<1>1. TypeOK' BY DEF IInv, TypeOK
<1>2. Shape' BY DEF IInv, Shape
<1>3. Issued' BY DEF IInv, Issued
<1>4. Injective' BY DEF IInv, Injective
<1>5. StillNew' BY DEF IInv, StillNew
<1>6. CurrentRow' BY DEF IInv, CurrentRow
<1>7. AddedRow' BY DEF IInv, AddedRow, Candidates
<1>8. GoneIsGone' BY DEF IInv, GoneIsGone, HACopy
<1>9. CompletionLinksResolve' BY DEF IInv, CompletionLinksResolve
<1>10. QED
  BY <1>1, <1>2, <1>3, <1>4, <1>5, <1>6, <1>7, <1>8, <1>9 DEF IInv

-------------------------------------------------------------------------------
(* A daemon starting on two sides in step satisfies the invariant. *)
LEMMA InitInvariant ==
    ASSUME Init
    PROVE  IInv
<1>1. PICK pairs \in SUBSET RemUIDs :
        /\ IsFiniteSet(pairs)
        /\ \E link \in [pairs -> HAUIDs], content \in [pairs -> Reminder],
              old \in SUBSET (pairs \cap Legacy) :
             Linked(pairs, link, content, old)
  BY DEF Init
<1>2. PICK link \in [pairs -> HAUIDs], content \in [pairs -> Reminder],
           old \in SUBSET (pairs \cap Legacy) :
        Linked(pairs, link, content, old)
  BY <1>1
<1>3. /\ links = {} /\ pc = "idle"
      /\ remSnap = NoReminders /\ haSnap = NoItems
      /\ todo = {} /\ newRem = {} /\ newHA = {}
      /\ cur = None /\ add = None
      /\ edits = 0 /\ faults = 0 /\ crashes = 0
  BY DEF Init
<1>4. Tracked = pairs /\ \A r \in pairs : db[r].ha = link[r]
  BY <1>2, ConstantsAssumption DEF Linked, ConstantsAssumption, Tracked
<1>5. TypeOK
  <2>1. rem \in [RemUIDs -> Reminder \cup {None}] BY <1>2 DEF Linked
  <2>2. ha \in [HAUIDs -> HAItem \cup {None}]
    <3>1. ASSUME NEW h \in HAUIDs, \E r \in pairs : link[r] = h
          PROVE  ha[h] \in HAItem
      <4>1. (CHOOSE r \in pairs : link[r] = h) \in pairs BY <3>1
      <4>2. QED BY <1>2, <4>1, <3>1 DEF Linked
    <3>2. QED BY <1>2, <3>1 DEF Linked
  <2>3. db \in [RemUIDs -> Row \cup {None}] BY <1>2 DEF Linked
  <2>4. tasks \in Nat
    BY <1>1, <1>2, FS_CardinalityType DEF Linked
  <2>5. QED
    BY <1>2, <1>3, <2>1, <2>2, <2>3, <2>4
    DEF Linked, TypeOK, NoReminders, NoItems
<1>6. Shape BY <1>3, <1>5 DEF Shape
<1>7. Issued
  <2>1. Present(ha) \subseteq haIssued
    <3>1. \A h \in HAUIDs : ha[h] # None => \E r \in pairs : link[r] = h
      BY <1>2 DEF Linked
    <3>2. QED
      BY <1>2, <1>5, <3>1 DEF Linked, TypeOK
  <2>2. LinkedHA = haIssued
    <3>1. LinkedHA = {link[r] : r \in pairs} BY <1>4
    <3>2. QED BY <1>2, <3>1 DEF Linked
  <2>3. QED
    BY <1>2, <1>3, <1>4, <2>1, <2>2 DEF Linked, Issued, NoReminders, NoItems
<1>8. Injective BY <1>2, <1>4 DEF Linked, Injective
<1>9. StillNew BY <1>3 DEF StillNew
<1>10. CurrentRow BY <1>3 DEF CurrentRow
<1>11. AddedRow BY <1>3 DEF AddedRow
<1>12. GoneIsGone BY <1>3 DEF GoneIsGone
<1>13. CompletionLinksResolve BY <1>3 DEF CompletionLinksResolve
<1>14. QED
  BY <1>5, <1>6, <1>7, <1>8, <1>9, <1>10, <1>11, <1>12, <1>13 DEF IInv


(* The invariant speaks of the state only. *)
LEMMA StutterStep ==
    ASSUME IInv, UNCHANGED vars
    PROVE  IInv'
<1> USE DEF vars
<1>1. TypeOK' BY DEF IInv, TypeOK
<1>2. Shape' BY DEF IInv, Shape
<1>3. Issued' BY DEF IInv, Issued
<1>4. Injective' BY DEF IInv, Injective
<1>5. StillNew' BY DEF IInv, StillNew
<1>6. CurrentRow' BY DEF IInv, CurrentRow
<1>7. AddedRow' BY DEF IInv, AddedRow, Candidates
<1>8. GoneIsGone' BY DEF IInv, GoneIsGone, HACopy
<1>9. CompletionLinksResolve' BY DEF IInv, CompletionLinksResolve
<1>10. QED
  BY <1>1, <1>2, <1>3, <1>4, <1>5, <1>6, <1>7, <1>8, <1>9 DEF IInv


(* IInv is inductive. *)
LEMMA InvariantStep ==
    ASSUME IInv, [Next]_vars
    PROVE  IInv'
<1>1. CASE \/ FetchAll \/ GetItems \/ DropRow \/ FetchArchived
           \/ SaveCompletionLink \/ EchoToHA \/ SaveRow
           \/ CreateArchivedInHA \/ AddItem \/ ResolveUID \/ ApplyToAdded
           \/ SaveAdded \/ EndPass
  BY <1>1, FetchAllStep, GetItemsStep, DropRowStep, FetchArchivedStep,
     SaveCompletionLinkStep, EchoToHAStep, SaveRowStep,
     CreateArchivedInHAStep, AddItemStep, ResolveUIDStep, ApplyToAddedStep,
     SaveAddedStep, EndPassStep
<1>2. CASE \E r \in RemUIDs : \/ DoNothing(r) \/ DeleteFromHA(r)
                              \/ DeleteFromRem(r) \/ UpdateHA(r)
                              \/ UpdateRem(r) \/ CreateInHA(r)
  BY <1>2, DoNothingStep, DeleteFromHAStep, DeleteFromRemStep, UpdateHAStep,
     UpdateRemStep, CreateInHAStep
<1>3. CASE \E h \in HAUIDs : CreateInReminders(h)
  BY <1>3, CreateInRemindersStep
<1>4. CASE Crash
  BY <1>4, CrashStep
<1>5. CASE User
  BY <1>5, UserAddsReminderStep, UserEditsReminderStep,
     UserDeletesReminderStep, UserAddsItemStep, UserEditsItemStep,
     UserDeletesItemStep DEF User
<1>6. CASE UNCHANGED vars
  BY <1>6, StutterStep
<1>7. QED
  BY <1>1, <1>2, <1>3, <1>4, <1>5, <1>6 DEF Next, Relay

(* IInv holds of every reachable state. *)
THEOREM Invariant == Spec => []IInv
<1>1. Init => IInv
  BY InitInvariant
<1>2. IInv /\ [Next]_vars => IInv'
  BY InvariantStep
<1>3. QED
  BY <1>1, <1>2, PTL DEF Spec

-------------------------------------------------------------------------------
(* Every variable keeps its type, whatever users and failures do. *)
THEOREM TypeCorrect == Spec => []TypeOK
<1>1. IInv => TypeOK
  BY DEF IInv
<1>2. QED
  BY <1>1, Invariant, PTL

(* What IInv says of the unique index on ha_uid. *)
LEMMA InvariantInjective ==
    ASSUME IInv
    PROVE  LinksInjective
<1>1. \A r, s \in Tracked : db[r].ha = db[s].ha => r = s
  BY DEF IInv, Injective
<1>2. pc \in {"echo", "save"} => ~Clashes(cur.rem, cur.ha)
  <2>1. pc \in {"echo", "save"} =>
           \/ cur.rem \in Tracked /\ db[cur.rem].ha = cur.ha
           \/ cur.ha \notin LinkedHA
    BY ConstantsAssumption DEF IInv, Shape, CurrentRow
  <2>2. QED
    BY <1>1, <2>1 DEF Clashes
<1>3. pc \in {"apply", "saveNew"} => ~Clashes(add.rem, add.ha)
  BY DEF IInv, AddedRow, Clashes
<1>4. QED
  BY <1>1, <1>2, <1>3 DEF LinksInjective

(* The unique index on ha_uid never rejects a row: two rows never name one HA
   item, nor would the row about to be written. *)
THEOREM LinksStayInjective == Spec => []LinksInjective
<1>1. IInv => LinksInjective
  BY InvariantInjective
<1>2. QED
  BY <1>1, Invariant, PTL

(* A task that has a row is never created again on the other side. *)
THEOREM NothingEchoed == Spec => []NoEcho
<1>1. IInv => NoEcho
  <2> SUFFICES ASSUME IInv PROVE NoEcho
    OBVIOUS
  <2>1. pc \in {"before", "add", "after", "apply"} => db[add.rem] = None
    BY DEF IInv, TypeOK, Shape, AddedRow
  <2>2. pc = "echo" /\ db[cur.rem] = None => cur.ha \notin LinkedHA
    BY ConstantsAssumption DEF IInv, Shape, CurrentRow
  <2>3. QED
    BY <2>1, <2>2 DEF NoEcho
<1>2. QED
  BY <1>1, Invariant, PTL

(* A completion link leads to a tracked pair while its reminder exists. *)
THEOREM LinksResolve == Spec => []CompletionLinksResolve
<1>1. IInv => CompletionLinksResolve
  BY DEF IInv
<1>2. QED
  BY <1>1, Invariant, PTL

-------------------------------------------------------------------------------
(* Steps of the relay that write neither list. *)
Silent ==
    \/ FetchAll \/ GetItems \/ DropRow \/ FetchArchived \/ SaveCompletionLink
    \/ SaveRow \/ CreateArchivedInHA \/ ResolveUID \/ SaveAdded \/ EndPass
    \/ Crash
    \/ \E r \in RemUIDs : DoNothing(r) \/ CreateInHA(r)

LEMMA SilentStep ==
    ASSUME Silent
    PROVE  UNCHANGED <<rem, ha>>
BY DEF Silent, FetchAll, GetItems, DropRow, FetchArchived, SaveCompletionLink,
       SaveRow, CreateArchivedInHA, ResolveUID, SaveAdded, EndPass, Crash,
       DoNothing, CreateInHA

(* The relay deletes a copy only if the linked copy is gone already. *)
LEMMA MirrorStep ==
    ASSUME IInv, Relay \/ Crash
    PROVE  DeletionMirrored
<1> USE ConstantsAssumption DEF ConstantsAssumption
<1>1. CASE Silent
  BY <1>1, SilentStep DEF DeletionMirrored
<1>2. ASSUME UNCHANGED rem, NEW h \in HAUIDs, NEW p \in Projection,
             ha' = [ha EXCEPT ![h] = Item(p)] \/ UNCHANGED ha
      PROVE  DeletionMirrored
  BY <1>2 DEF DeletionMirrored, Item, IInv, TypeOK
<1>3. CASE EchoToHA
  <2>1. cur.ha \in HAUIDs /\ cur.proj \in Projection
    BY <1>3 DEF EchoToHA, IInv, Shape
  <2>2. QED
    BY <1>2, <1>3, <2>1 DEF EchoToHA, UpdateItem
<1>4. CASE ApplyToAdded
  <2>1. add.ha \in HAUIDs /\ add.proj \in Projection
    BY <1>4 DEF ApplyToAdded, IInv, Shape
  <2>2. QED
    BY <1>2, <1>4, <2>1 DEF ApplyToAdded, UpdateItem
<1>5. CASE \E r \in RemUIDs : UpdateHA(r)
  <2>1. PICK r \in RemUIDs : UpdateHA(r)
    BY <1>5
  <2>2. db[r].ha \in HAUIDs /\ remSnap[r].proj \in Projection
    BY <2>1, DecideFacts DEF UpdateHA, Visit, IInv, TypeOK, Shape
  <2>3. QED
    BY <1>2, <2>1, <2>2 DEF UpdateHA, UpdateItem
<1>6. CASE AddItem
  <2>1. /\ UNCHANGED rem
        /\ \A h \in HAUIDs : ha'[h] = ha[h] \/ ha'[h] = Opened(add.proj)
    BY <1>6 DEF AddItem, IInv, TypeOK
  <2>2. Opened(add.proj) \in HAItem
    BY <1>6 DEF AddItem, Opened, Item, IInv, Shape
  <2>3. QED
    BY <2>1, <2>2 DEF DeletionMirrored, IInv, TypeOK
<1>7. ASSUME UNCHANGED ha, \A s \in Present(rem) : rem'[s] # None
      PROVE  DeletionMirrored
  BY <1>7 DEF DeletionMirrored, IInv, TypeOK
<1>8. CASE \E h \in HAUIDs : CreateInReminders(h)
  <2>1. PICK h \in HAUIDs : CreateInReminders(h)
    BY <1>8
  <2>2. /\ UNCHANGED ha
        /\ \A s \in RemUIDs : rem'[s] = rem[s] \/ s \in remIssued' \ remIssued
    BY <2>1, CreatedFacts
  <2>3. QED
    BY <1>7, <2>2 DEF IInv, Issued, TypeOK
<1>9. CASE \E r \in RemUIDs : UpdateRem(r)
  <2>1. PICK r \in RemUIDs : UpdateRem(r)
    BY <1>9
  <2>2. UNCHANGED ha /\ \A s \in RemUIDs : rem[s] # None => rem'[s] # None
    BY <2>1, UpdateRemCases, RollOverFacts, WriteReminderFacts
    DEF IInv, TypeOK
  <2>3. QED
    BY <1>7, <2>2 DEF IInv, TypeOK
<1>10. CASE \E r \in RemUIDs : DeleteFromHA(r)
  <2>1. PICK r \in RemUIDs : DeleteFromHA(r)
    BY <1>10
  <2>2. rem[r] = None /\ r \in Tracked
    BY <2>1, DecideFacts DEF DeleteFromHA, Visit, IInv, GoneIsGone, Shape
  <2>3. UNCHANGED rem /\ \A h \in HAUIDs : h # db[r].ha => ha'[h] = ha[h]
    BY <2>1 DEF DeleteFromHA, IInv, TypeOK
  <2>4. QED
    BY <2>2, <2>3 DEF DeletionMirrored, IInv, TypeOK
<1>11. CASE \E r \in RemUIDs : DeleteFromRem(r)
  <2>1. PICK r \in RemUIDs : DeleteFromRem(r)
    BY <1>11
  <2>2. ha[db[r].ha] = None /\ r \in Tracked
    BY <2>1, DecideFacts DEF DeleteFromRem, Visit, IInv, GoneIsGone, Shape
  <2>3. UNCHANGED ha /\ \A s \in RemUIDs : s # r => rem'[s] = rem[s]
    BY <2>1 DEF DeleteFromRem, IInv, TypeOK
  <2>4. QED
    BY <2>2, <2>3 DEF DeletionMirrored, IInv, TypeOK
<1>12. QED
  BY <1>1, <1>3, <1>4, <1>5, <1>6, <1>8, <1>9, <1>10, <1>11 DEF Relay, Silent

(* The relay deletes only as the echo of a deletion by a user, whatever the
   fetches miss, wherever it crashes. *)
THEOREM OnlyUsersDelete == Spec => DeletionsMirrorUsers
<1>1. IInv /\ [Next]_vars => [User \/ DeletionMirrored]_vars
  BY MirrorStep DEF Next
<1>2. QED
  BY <1>1, Invariant, PTL DEF Spec, DeletionsMirrorUsers

(* The relay drops a row only when both copies are gone. *)
LEMMA ForgottenStep ==
    ASSUME IInv, Next
    PROVE  ForgottenLast
<1> USE ConstantsAssumption DEF ConstantsAssumption
<1>1. CASE UNCHANGED db
  BY <1>1 DEF ForgottenLast, IInv, TypeOK
<1>2. CASE DropRow
  BY <1>2 DEF DropRow, ForgottenLast, IInv, TypeOK, GoneIsGone
<1>3. CASE SaveRow \/ SaveAdded
  <2>1. \A r \in RemUIDs, h \in HAUIDs, p \in Projection :
          NewRow(r, h, p) \in Row
    BY DEF NewRow
  <2>2. /\ pc = "save" => cur \in Work
        /\ pc = "saveNew" => add \in Adding /\ add.ha \in HAUIDs
    BY DEF IInv, Shape
  <2>3. UNCHANGED db \/ \E r \in RemUIDs, w \in Row : db' = [db EXCEPT ![r] = w]
    BY <1>3, <2>1, <2>2 DEF SaveRow, SaveAdded, UpsertItem
  <2>4. QED
    BY <2>3 DEF ForgottenLast, IInv, TypeOK
<1>4. CASE \E r \in RemUIDs : DeleteFromHA(r)
  <2>1. PICK r \in RemUIDs : DeleteFromHA(r)
    BY <1>4
  <2>2. /\ rem[r] = None /\ r \in Tracked
        /\ haSnap[db[r].ha] = None => ha[db[r].ha] = None
    BY <2>1, DecideFacts
       DEF DeleteFromHA, Visit, HACopy, IInv, GoneIsGone, Shape
  <2>3. \/ UNCHANGED db
        \/ haSnap[db[r].ha] = None /\ db' = [db EXCEPT ![r] = None]
    BY <2>1 DEF DeleteFromHA
  <2>4. QED
    BY <2>2, <2>3 DEF ForgottenLast, IInv, TypeOK
<1>5. QED
  <2>1. \/ UNCHANGED db
        \/ DropRow \/ SaveRow \/ SaveAdded \/ \E r \in RemUIDs : DeleteFromHA(r)
    BY DEF Next, Relay, User, relay, Crash, FetchAll, GetItems, DoNothing,
           DeleteFromRem, UpdateHA, UpdateRem, CreateInHA, CreateInReminders,
           FetchArchived, SaveCompletionLink, EchoToHA, CreateArchivedInHA,
           AddItem, ResolveUID, ApplyToAdded, EndPass, UserAddsReminder,
           UserEditsReminder, UserDeletesReminder, UserAddsItem, UserEditsItem,
           UserDeletesItem
  <2>2. QED
    BY <1>1, <1>2, <1>3, <1>4, <2>1

(* The relay forgets a pair only when both of its copies are gone. *)
THEOREM ForgottenOnlyWhenGone == Spec => LinksForgottenLast
<1>1. IInv /\ [Next]_vars => [ForgottenLast]_vars
  BY ForgottenStep
<1>2. QED
  BY <1>1, Invariant, PTL DEF Spec, LinksForgottenLast

-------------------------------------------------------------------------------
(***************************************************************************)
(* Users act between passes only.  QuietInv of ReconcilerInvariant is then *)
(* inductive as well; there is one lemma per action again.                 *)
(***************************************************************************)

(* Counting: nothing is copied, and nothing more waits to be copied. *)
LEMMA QuietKept ==
    ASSUME IInv, QuietInv, ReadIsCurrent', WorkIsCurrent',
           UNCHANGED <<remIssued, haIssued, tasks>>,
           faults' = 0 /\ crashes' = 0 =>
              /\ faults = 0 /\ crashes = 0
              /\ WaitingReminders' \subseteq WaitingReminders
              /\ WaitingItems' \subseteq WaitingItems
    PROVE  QuietInv'
<1>1. IsFiniteSet(WaitingReminders) /\ IsFiniteSet(WaitingItems)
  <2>1. WaitingReminders \subseteq remIssued /\ WaitingItems \subseteq haIssued
    BY DEF WaitingReminders, WaitingItems, IInv, Issued
  <2>2. QED
    BY <2>1, FS_Subset DEF QuietInv
<1>2. CopiesCounted'
  <2> SUFFICES ASSUME faults' = 0, crashes' = 0
               PROVE  CopiesCounted'
    BY DEF CopiesCounted
  <2>1. /\ Cardinality(WaitingReminders') <= Cardinality(WaitingReminders)
        /\ Cardinality(WaitingItems') <= Cardinality(WaitingItems)
        /\ IsFiniteSet(WaitingReminders') /\ IsFiniteSet(WaitingItems')
    BY <1>1, FS_Subset
  <2>2. /\ Cardinality(WaitingReminders) \in Nat
        /\ Cardinality(WaitingItems) \in Nat
        /\ Cardinality(WaitingReminders') \in Nat
        /\ Cardinality(WaitingItems') \in Nat
        /\ Cardinality(remIssued) \in Nat /\ Cardinality(haIssued) \in Nat
    BY <1>1, <2>1, FS_CardinalityType DEF QuietInv
  <2>3. /\ Cardinality(haIssued) + Cardinality(WaitingReminders) <= tasks
        /\ Cardinality(remIssued) + Cardinality(WaitingItems) <= tasks
        /\ tasks \in Nat
    BY DEF QuietInv, CopiesCounted, IInv, TypeOK
  <2>4. QED
    BY <2>1, <2>2, <2>3 DEF CopiesCounted
<1>3. QED
  BY <1>2 DEF QuietInv

(* Counting: S waits, and nothing more than S and x does afterwards. *)
LEMMA OneMore ==
    ASSUME NEW S, NEW T, NEW x, IsFiniteSet(S), T \subseteq S \cup {x}
    PROVE  /\ IsFiniteSet(T)
           /\ Cardinality(T) \in Nat /\ Cardinality(S) \in Nat
           /\ Cardinality(T) <= Cardinality(S) + 1
<1>1. /\ IsFiniteSet(S \cup {x})
      /\ Cardinality(S \cup {x}) <= Cardinality(S) + 1
      /\ Cardinality(S) \in Nat
  BY FS_AddElement, FS_CardinalityType
<1>2. IsFiniteSet(T) /\ Cardinality(T) <= Cardinality(S \cup {x})
  BY <1>1, FS_Subset
<1>3. QED
  BY <1>1, <1>2, FS_CardinalityType

(* Counting: x waits, and does not afterwards. *)
LEMMA OneLess ==
    ASSUME NEW S, NEW T, NEW x \in S, IsFiniteSet(S), T \subseteq S \ {x}
    PROVE  /\ IsFiniteSet(T)
           /\ Cardinality(T) \in Nat /\ Cardinality(S) \in Nat
           /\ Cardinality(T) + 1 <= Cardinality(S)
<1>1. /\ IsFiniteSet(S \ {x}) /\ Cardinality(S \ {x}) = Cardinality(S) - 1
      /\ Cardinality(S) \in Nat
  BY FS_RemoveElement, FS_CardinalityType
<1>2. IsFiniteSet(T) /\ Cardinality(T) <= Cardinality(S \ {x})
  BY <1>1, FS_Subset
<1>3. QED
  BY <1>1, <1>2, FS_CardinalityType

(* What waits is finite, and the counts are numbers. *)
LEMMA WaitingFinite ==
    ASSUME IInv, QuietInv
    PROVE  /\ IsFiniteSet(WaitingReminders) /\ IsFiniteSet(WaitingItems)
           /\ Cardinality(WaitingReminders) \in Nat
           /\ Cardinality(WaitingItems) \in Nat
           /\ Cardinality(remIssued) \in Nat /\ Cardinality(haIssued) \in Nat
           /\ tasks \in Nat
<1>1. WaitingReminders \subseteq remIssued /\ WaitingItems \subseteq haIssued
  BY DEF WaitingReminders, WaitingItems, IInv, Issued
<1>2. QED
  BY <1>1, FS_Subset, FS_CardinalityType DEF QuietInv, IInv, TypeOK

(* A reminder that waited has its copy, and nothing else waits. *)
LEMMA AddItemQuiet ==
    ASSUME IInv, QuietInv, AddItem
    PROVE  QuietInv'
<1> USE DEF NextItem, Fault
<1>0. /\ pc = "add"
      /\ UNCHANGED <<rem, remIssued, store, pass, users, crashes>>
  BY DEF AddItem
<1>1. PICK n \in 0 .. MaxAttempts, copies \in SUBSET (HAUIDs \ haIssued) :
         /\ IsFiniteSet(copies) /\ Cardinality(copies) = n
         /\ ha' = [h \in HAUIDs |-> IF h \in copies THEN Opened(add.proj)
                                    ELSE ha[h]]
         /\ haIssued' = haIssued \cup copies
         /\ \/ /\ n > 0
               /\ faults' = faults + n - 1
               /\ pc' = "after" /\ UNCHANGED <<cur, add>>
            \/ NextItem /\ Fault
  BY DEF AddItem
<1>2. /\ add \in Adding
      /\ Opened(add.proj) \in HAItem /\ Opened(add.proj) # None
  <2>1. add \in Adding
    BY <1>0 DEF IInv, Shape
  <2>2. Opened(add.proj) \in HAItem
    BY <2>1 DEF Opened, Item
  <2>3. QED
    BY <2>1, <2>2, ConstantsAssumption DEF ConstantsAssumption
<1>3. faults \in Nat /\ ha \in [HAUIDs -> HAItem \cup {None}]
  BY DEF IInv, TypeOK
<1>4. Present(ha') = Present(ha) \cup copies
  BY <1>1, <1>2, <1>3
<1>5. faults' = 0 => /\ faults = 0 /\ pc' = "after" /\ UNCHANGED <<cur, add>>
                     /\ \E c \in HAUIDs \ haIssued : copies = {c}
  <2>1. faults' = 0 => /\ n = 1 /\ faults = 0
                       /\ pc' = "after" /\ UNCHANGED <<cur, add>>
    BY <1>1, <1>3
  <2>2. n = 1 => \E c : copies = {c}
    BY <1>1, FS_Singleton
  <2>3. QED
    BY <2>1, <2>2
<1>6. \A h \in haIssued : ha'[h] = ha[h]
  BY <1>1 DEF IInv, TypeOK
<1>7. ReadIsCurrent'
  BY <1>0, <1>1, <1>6
  DEF IInv, TypeOK, Shape, Issued, QuietInv, ReadIsCurrent, HACopy
<1>8. pc' = "after" /\ faults' = 0 => \E h \in HAUIDs : Candidates' = {h}
  <2> SUFFICES ASSUME faults' = 0 PROVE \E h \in HAUIDs : Candidates' = {h}
    OBVIOUS
  <2>1. PICK c \in HAUIDs \ haIssued : copies = {c}
    BY <1>5
  <2>2. add' = add /\ add.before = Present(ha) /\ Present(ha) \subseteq haIssued
    BY <1>0, <1>5 DEF IInv, Issued, QuietInv, WorkIsCurrent
  <2>3. Candidates' = {c}
    BY <1>4, <2>1, <2>2 DEF Candidates
  <2>4. QED
    BY <2>3
<1>9. WorkIsCurrent'
  BY <1>0, <1>1, <1>6, <1>8
  DEF IInv, TypeOK, Shape, Issued, QuietInv, WorkIsCurrent
<1>10. IsFiniteSet(haIssued')
  BY <1>1, FS_Union DEF QuietInv
<1>11. CopiesCounted'
  <2> SUFFICES ASSUME faults' = 0, crashes' = 0
               PROVE  CopiesCounted'
    BY DEF CopiesCounted
  <2>1. PICK c \in HAUIDs \ haIssued : copies = {c}
    BY <1>5
  <2>2. Cardinality(haIssued') = Cardinality(haIssued) + 1
    BY <1>1, <2>1, FS_AddElement DEF QuietInv
  <2>3. add.rem \in WaitingReminders
    BY <1>0, <1>2 DEF WaitingReminders, IInv, TypeOK, AddedRow, QuietInv,
       WorkIsCurrent
  <2>4. WaitingReminders' \subseteq WaitingReminders \ {add.rem}
    BY <1>0, <1>5 DEF WaitingReminders
  <2>5. WaitingItems' \subseteq WaitingItems
    <3>1. Candidates' = copies
      BY <1>0, <1>4, <1>5 DEF Candidates, QuietInv, WorkIsCurrent, IInv, Issued
    <3>2. QED
      BY <1>0, <1>4, <1>5, <3>1 DEF WaitingItems
  <2>6. /\ Cardinality(WaitingReminders') + 1 <= Cardinality(WaitingReminders)
        /\ Cardinality(WaitingReminders') \in Nat
    BY <2>3, <2>4, WaitingFinite, OneLess
  <2>7. /\ Cardinality(WaitingItems') <= Cardinality(WaitingItems)
        /\ Cardinality(WaitingItems') \in Nat
    BY <2>5, WaitingFinite, FS_Subset, FS_CardinalityType
  <2>8. /\ Cardinality(haIssued) + Cardinality(WaitingReminders) <= tasks
        /\ Cardinality(remIssued) + Cardinality(WaitingItems) <= tasks
    BY <1>0, <1>5 DEF QuietInv, CopiesCounted
  <2>9. QED
    BY <1>0, <2>2, <2>6, <2>7, <2>8, WaitingFinite DEF CopiesCounted
<1>12. QED
  BY <1>0, <1>7, <1>9, <1>10, <1>11 DEF QuietInv

(* Its row is written: the pair waits no more. *)
LEMMA SaveAddedQuiet ==
    ASSUME IInv, QuietInv, SaveAdded
    PROVE  QuietInv'
<1> DEFINE row == NewRow(add.rem, add.ha, add.proj)
<1>1. /\ pc = "saveNew" /\ add \in Adding
      /\ add.rem \in RemUIDs \ Tracked /\ add.ha \in HAUIDs \ LinkedHA
      /\ cur = None \/ cur.rem \in Tracked
      /\ UNCHANGED <<world, links, pass, users, crashes>>
  BY DEF SaveAdded, IInv, Shape, AddedRow, CurrentRow
<1>2. \/ /\ db' = [db EXCEPT ![add.rem] = row]
         /\ UNCHANGED faults
         /\ \/ pc' = "loop" /\ cur' = None /\ add' = None
            \/ pc' = "link" /\ cur' = cur /\ add' = add
      \/ /\ UNCHANGED db
         /\ pc' = "loop" /\ cur' = None /\ add' = None
         /\ faults' = faults + 1
  BY <1>1 DEF SaveAdded, UpsertItem, Refused, NextItem, Fault, Clashes
<1>3. row \in Row /\ row # None /\ row.ha = add.ha
  <2>1. row \in Row /\ row.ha = add.ha
    BY <1>1 DEF NewRow
  <2>2. QED
    BY <2>1, ConstantsAssumption DEF ConstantsAssumption
<1> HIDE DEF row
<1>4. \A r \in RemUIDs \ {add.rem} : db'[r] = db[r]
  BY <1>2 DEF IInv, TypeOK
<1>5. ReadIsCurrent'
  BY <1>1, <1>2, <1>4
  DEF IInv, TypeOK, Shape, QuietInv, ReadIsCurrent, HACopy
<1>6. WorkIsCurrent'
  BY <1>1, <1>2, <1>4, ConstantsAssumption
  DEF IInv, TypeOK, Shape, QuietInv, WorkIsCurrent, ConstantsAssumption
<1>7. ASSUME faults' = 0, crashes' = 0
      PROVE  /\ faults = 0 /\ crashes = 0
             /\ WaitingReminders' \subseteq WaitingReminders
             /\ WaitingItems' \subseteq WaitingItems
  <2>1. faults = 0 /\ crashes = 0 /\ db' = [db EXCEPT ![add.rem] = row]
    BY <1>1, <1>2, <1>7 DEF IInv, TypeOK
  <2>2. Tracked' = Tracked \cup {add.rem}
    BY <1>1, <1>3, <2>1 DEF IInv, TypeOK
  <2>3. LinkedHA' = LinkedHA \cup {add.ha}
    BY <1>1, <1>3, <1>4, <2>1, <2>2 DEF IInv, TypeOK
  <2>4. QED
    BY <1>1, <1>2, <2>1, <2>2, <2>3 DEF WaitingReminders, WaitingItems
<1>8. QED
  BY <1>1, <1>5, <1>6, <1>7, QuietKept

(* An item that waited has its copy in the list. *)
LEMMA CreateInRemindersQuiet ==
    ASSUME IInv, QuietInv, NEW h \in HAUIDs, CreateInReminders(h)
    PROVE  QuietInv'
<1>0. /\ pc = "loop" /\ h \in newHA /\ cur = None /\ add = None
      /\ newHA' = newHA \ {h} /\ todo = {} /\ newRem = {}
      /\ UNCHANGED <<ha, haIssued, db, links, remSnap, haSnap, todo, newRem, crashes>>
  BY CreatedFacts
<1>1. haSnap[h] = ha[h] /\ ha[h] # None /\ h \notin LinkedHA
  BY <1>0 DEF IInv, Shape, StillNew, QuietInv, ReadIsCurrent
<1>2. /\ rem \in [RemUIDs -> Reminder \cup {None}]
      /\ rem' \in [RemUIDs -> Reminder \cup {None}]
      /\ faults \in Nat
  BY CreatedFacts DEF IInv, TypeOK
<1>3. ReadIsCurrent'
  BY <1>0, CreatedFacts DEF QuietInv, ReadIsCurrent
<1>4. IsFiniteSet(remIssued')
  <2>1. PICK r, a : remIssued' \subseteq remIssued \cup {r, a}
    BY CreatedFacts
  <2>2. IsFiniteSet(remIssued \cup {r} \cup {a})
    BY FS_AddElement DEF QuietInv
  <2>3. QED
    BY <2>1, <2>2, FS_Subset
<1>5. CASE pc' = "loop" /\ cur' = None /\ faults' = faults + 1
  <2>1. WorkIsCurrent'
    BY <1>5, CreatedFacts DEF WorkIsCurrent
  <2>2. faults' # 0
    BY <1>2, <1>5
  <2>3. QED
    BY <1>0, <1>3, <1>4, <2>1, <2>2 DEF QuietInv, CopiesCounted
<1>6. CASE pc' = "echo"
  <2>1. faults' = faults /\ add' = None
    BY <1>2, <1>6, CreatedFacts
  <2>2. PICK r \in RemUIDs \ remIssued :
          /\ rem'[r] # None
          /\ cur' = [rem |-> r, ha |-> h, proj |-> rem'[r].proj]
          /\ \/ remIssued' = remIssued \cup {r} /\ tasks' = tasks
             \/ \E a \in RemUIDs \ (remIssued \cup {r}) :
                  /\ remIssued' = remIssued \cup {r, a}
                  /\ tasks' = tasks + 1
    BY <1>6, CreatedFacts
  <2>3. r \notin Tracked
    BY DEF IInv, Issued
  <2>4. WorkIsCurrent'
    BY <1>0, <1>1, <1>6, <2>1, <2>2, <2>3 DEF WorkIsCurrent
  <2>5. CopiesCounted'
    <3> SUFFICES ASSUME faults = 0, crashes = 0 PROVE CopiesCounted'
      BY <1>0, <2>1 DEF CopiesCounted
    <3>1. h \in WaitingItems /\ WaitingItems' \subseteq WaitingItems \ {h}
      BY <1>0, <1>1, <1>6, <2>2 DEF WaitingItems, IInv, TypeOK
    <3>2. /\ Cardinality(WaitingItems') + 1 <= Cardinality(WaitingItems)
          /\ Cardinality(WaitingItems') \in Nat
      BY <3>1, WaitingFinite, OneLess
    <3>3. /\ Cardinality(haIssued) + Cardinality(WaitingReminders) <= tasks
          /\ Cardinality(remIssued) + Cardinality(WaitingItems) <= tasks
      BY DEF QuietInv, CopiesCounted
    <3>4. CASE remIssued' = remIssued \cup {r} /\ tasks' = tasks
      <4>1. Cardinality(remIssued') = Cardinality(remIssued) + 1
        BY <3>4, FS_AddElement DEF QuietInv
      <4>2. WaitingReminders' \subseteq WaitingReminders
        BY <1>0, <1>2, <1>6, <2>2, <3>4, CreatedFacts DEF WaitingReminders
      <4>3. /\ Cardinality(WaitingReminders') <= Cardinality(WaitingReminders)
            /\ Cardinality(WaitingReminders') \in Nat
        BY <4>2, WaitingFinite, FS_Subset, FS_CardinalityType
      <4>4. QED
        BY <1>0, <3>2, <3>3, <3>4, <4>1, <4>3, WaitingFinite DEF CopiesCounted
    <3>5. ASSUME NEW a \in RemUIDs \ (remIssued \cup {r}),
                 remIssued' = remIssued \cup {r, a}, tasks' = tasks + 1
          PROVE  CopiesCounted'
      <4>1. Cardinality(remIssued') = Cardinality(remIssued) + 2
        <5>1. /\ IsFiniteSet(remIssued \cup {r})
              /\ Cardinality(remIssued \cup {r}) = Cardinality(remIssued) + 1
          BY FS_AddElement DEF QuietInv
        <5>2. remIssued' = (remIssued \cup {r}) \cup {a}
          BY <3>5
        <5>3. Cardinality(remIssued') = Cardinality(remIssued \cup {r}) + 1
          BY <5>1, <5>2, FS_AddElement
        <5>4. QED
          BY <5>1, <5>3, WaitingFinite
      <4>2. WaitingReminders' \subseteq WaitingReminders \cup {a}
        BY <1>0, <1>2, <1>6, <2>2, <3>5, CreatedFacts DEF WaitingReminders
      <4>3. /\ Cardinality(WaitingReminders') <= Cardinality(WaitingReminders) + 1
            /\ Cardinality(WaitingReminders') \in Nat
        BY <4>2, WaitingFinite, OneMore
      <4>4. QED
        BY <1>0, <3>2, <3>3, <3>5, <4>1, <4>3, WaitingFinite DEF CopiesCounted
    <3>6. QED
      BY <2>2, <3>4, <3>5
  <2>6. QED
    BY <1>0, <1>3, <1>4, <2>4, <2>5 DEF QuietInv
<1>7. QED
  BY <1>5, <1>6, CreatedFacts

(* What is updated from its item is as it was read, and only the item differs
   from what both sides last agreed on. *)
LEMMA UpdateRemFacts ==
    ASSUME IInv, ReadIsCurrent, NEW r \in RemUIDs, Visit(r, "updateRem")
    PROVE  /\ pc = "loop" /\ r \in todo /\ r \in Tracked
           /\ db[r].ha \in HAUIDs
           /\ rem[r] # None /\ remSnap[r] = rem[r] /\ rem[r].proj = db[r].hash
           /\ ha[db[r].ha] # None /\ haSnap[db[r].ha] = ha[db[r].ha]
           /\ ha[db[r].ha].proj # db[r].hash
<1>1. r \in todo /\ r \in Tracked /\ pc = "loop"
  BY DEF Visit, IInv, Shape
<1>2. remSnap[r] # None /\ HACopy(r) # None
  BY DecideFacts DEF Visit
<1>3. ~RemChanged(r) /\ HAChanged(r)
  BY <1>2 DEF Visit, decide
<1>4. remSnap[r] = rem[r] /\ HACopy(r) = ha[db[r].ha]
  BY <1>1 DEF ReadIsCurrent
<1>5. db[r].ha \in HAUIDs
  BY <1>1 DEF IInv, TypeOK
<1>6. QED
  BY <1>1, <1>2, <1>3, <1>4, <1>5 DEF RemChanged, HAChanged, HACopy

(* The reminder takes over the edit of its item; no copy is made. *)
LEMMA WriteReminderQuiet ==
    ASSUME IInv, QuietInv, NEW r \in RemUIDs, NEW command \in Reminder,
           Visit(r, "updateRem"),
           WriteReminder(r, command) \/ WriteFields(r, command),
           UNCHANGED <<ha, haIssued, store, edits, crashes>>
    PROVE  QuietInv'
<1>1. /\ r \in todo /\ r \in Tracked /\ rem[r] # None /\ db[r].ha \in HAUIDs
      /\ ha[db[r].ha] # None /\ haSnap[db[r].ha] = ha[db[r].ha]
      /\ ha[db[r].ha].proj # db[r].hash
      /\ pc = "loop" /\ cur = None /\ add = None
  BY UpdateRemFacts DEF QuietInv, IInv, Shape
<1>2. PICK c \in Reminder :
         /\ rem' = [rem EXCEPT ![r] = c]
         /\ \/ /\ pc' = "echo" /\ c = command
               /\ cur' = [rem |-> r, ha |-> db[r].ha, proj |-> c.proj]
               /\ UNCHANGED <<add, faults>>
            \/ /\ pc' = "loop" /\ cur' = None /\ add' = None
               /\ faults' = faults + 1
  <2>1. [command EXCEPT !.proj.done = rem[r].proj.done] \in Reminder
    BY <1>1 DEF IInv, TypeOK
  <2>2. QED
    BY <2>1 DEF WriteReminder, WriteFields, NextItem, Fault
<1>3. /\ c # None /\ todo' = todo \ {r}
      /\ UNCHANGED <<remIssued, tasks, remSnap, haSnap, newRem, newHA>>
  BY ConstantsAssumption
  DEF ConstantsAssumption, Visit, WriteReminder, WriteFields
<1>4. \A s \in RemUIDs \ {r} : rem'[s] = rem[s]
  BY <1>2 DEF IInv, TypeOK
<1>5. ReadIsCurrent'
  BY <1>1, <1>2, <1>3, <1>4
  DEF IInv, TypeOK, Shape, StillNew, QuietInv, ReadIsCurrent, HACopy
<1>6. WorkIsCurrent'
  BY <1>1, <1>2, <1>3 DEF IInv, TypeOK, WorkIsCurrent
<1>7. ASSUME faults' = 0, crashes' = 0
      PROVE  /\ faults = 0 /\ crashes = 0
             /\ WaitingReminders' \subseteq WaitingReminders
             /\ WaitingItems' \subseteq WaitingItems
  <2>1. Present(rem') \ Tracked' \subseteq Present(rem) \ Tracked
    BY <1>1, <1>2, <1>4 DEF IInv, TypeOK
  <2>2. QED
    BY <1>1, <1>2, <1>7, <2>1
    DEF WaitingReminders, WaitingItems, IInv, TypeOK
<1>8. QED
  BY <1>3, <1>5, <1>6, <1>7, QuietKept

(* The archived occurrence is one more task, and waits to be copied. *)
LEMMA RollOverQuiet ==
    ASSUME IInv, QuietInv, NEW r \in RemUIDs, NEW command \in Reminder,
           Visit(r, "updateRem"), RollOver(r, command),
           UNCHANGED <<ha, haIssued, store, edits, crashes>>
    PROVE  QuietInv'
<1>1. /\ r \in todo /\ r \in Tracked /\ rem[r] # None /\ db[r].ha \in HAUIDs
      /\ ha[db[r].ha] # None /\ haSnap[db[r].ha] = ha[db[r].ha]
      /\ ha[db[r].ha].proj # db[r].hash
      /\ pc = "loop" /\ cur = None /\ add = None
  BY UpdateRemFacts DEF QuietInv, IInv, Shape
<1>2. PICK a \in RemUIDs \ remIssued, c \in Reminder, d \in Reminder :
         /\ rem' = [rem EXCEPT ![r] = c, ![a] = d]
         /\ remIssued' = remIssued \cup {a}
         /\ tasks' = tasks + 1
         /\ \/ /\ pc' = "archive"
               /\ cur' = [rem |-> r, ha |-> db[r].ha, proj |-> c.proj]
               /\ add' = [rem |-> a, proj |-> d.proj,
                          before |-> {}, ha |-> None]
               /\ UNCHANGED faults
            \/ /\ pc' = "loop" /\ cur' = None /\ add' = None
               /\ faults' = faults + 1
  BY RollOverFacts DEF NextItem, Fault
<1>3. /\ c # None /\ d # None /\ todo' = todo \ {r}
      /\ UNCHANGED <<remSnap, haSnap, newRem, newHA>>
  BY ConstantsAssumption DEF ConstantsAssumption, Visit
<1>4. /\ a # r /\ a \notin Tracked /\ a \notin todo /\ a \notin newRem
      /\ \A s \in RemUIDs \ {r, a} : rem'[s] = rem[s]
      /\ rem'[r] = c /\ rem'[a] = d
  BY <1>1, <1>2 DEF IInv, TypeOK, Shape, Issued
<1>5. ReadIsCurrent'
  BY <1>1, <1>2, <1>3, <1>4
  DEF IInv, TypeOK, Shape, StillNew, QuietInv, ReadIsCurrent, HACopy
<1>6. WorkIsCurrent'
  <2>1. CASE pc' = "loop"
    BY <1>2, <2>1 DEF WorkIsCurrent
  <2>2. CASE pc' = "archive"
    <3>1. /\ cur' = [rem |-> r, ha |-> db[r].ha, proj |-> c.proj]
          /\ add' = [rem |-> a, proj |-> d.proj,
                     before |-> {}, ha |-> None]
      BY <1>2, <2>2
    <3>2. /\ rem'[cur'.rem] # None /\ rem'[cur'.rem].proj = cur'.proj
          /\ rem'[add'.rem] # None /\ rem'[add'.rem].proj = add'.proj
          /\ haSnap'[cur'.ha] = ha'[cur'.ha] /\ ha'[cur'.ha] # None
          /\ ha'[cur'.ha].proj # db'[cur'.rem].hash
      BY <1>1, <1>3, <1>4, <3>1
    <3>3. QED
      BY <2>2, <3>2 DEF WorkIsCurrent
  <2>3. QED
    BY <1>2, <2>1, <2>2
<1>7. CopiesCounted'
  <2> SUFFICES ASSUME faults = 0, crashes = 0, pc' = "archive"
               PROVE  CopiesCounted'
    BY <1>2 DEF CopiesCounted, IInv, TypeOK
  <2>1. Cardinality(remIssued') = Cardinality(remIssued) + 1
    BY <1>2, FS_AddElement DEF QuietInv
  <2>2. WaitingReminders' \subseteq WaitingReminders \cup {a}
    BY <1>1, <1>2, <1>4 DEF WaitingReminders, IInv, TypeOK
  <2>3. WaitingItems' \subseteq WaitingItems
    BY <1>1 DEF WaitingItems
  <2>4. /\ Cardinality(WaitingReminders') <= Cardinality(WaitingReminders) + 1
        /\ Cardinality(WaitingReminders') \in Nat
    BY <2>2, WaitingFinite, OneMore
  <2>5. /\ Cardinality(WaitingItems') <= Cardinality(WaitingItems)
        /\ Cardinality(WaitingItems') \in Nat
    BY <2>3, WaitingFinite, FS_Subset, FS_CardinalityType
  <2>6. /\ Cardinality(haIssued) + Cardinality(WaitingReminders) <= tasks
        /\ Cardinality(remIssued) + Cardinality(WaitingItems) <= tasks
    BY DEF QuietInv, CopiesCounted
  <2>7. QED
    BY <1>2, <2>1, <2>4, <2>5, <2>6, WaitingFinite DEF CopiesCounted
<1>8. QED
  BY <1>2, <1>5, <1>6, <1>7, FS_AddElement DEF QuietInv

(* Whatever becomes of the update of a reminder. *)
LEMMA UpdateRemQuiet ==
    ASSUME IInv, QuietInv, NEW r \in RemUIDs, UpdateRem(r)
    PROVE  QuietInv'
<1>1. /\ Visit(r, "updateRem")
      /\ UNCHANGED <<ha, haIssued, store, edits, crashes>>
  BY DEF UpdateRem
<1>2. ASSUME NEW command \in Reminder,
             WriteReminder(r, command) \/ WriteFields(r, command)
      PROVE  QuietInv'
  BY <1>1, <1>2, WriteReminderQuiet
<1>3. ASSUME NEW command \in Reminder, RollOver(r, command)
      PROVE  QuietInv'
  BY <1>1, <1>3, RollOverQuiet
<1>4. CASE /\ NextItem /\ (Fault \/ UNCHANGED faults)
           /\ UNCHANGED <<rem, remIssued, tasks>>
  <2> USE <1>1, <1>4 DEF Visit, NextItem, Fault
  <2>1. ReadIsCurrent' BY DEF QuietInv, ReadIsCurrent, HACopy
  <2>2. WorkIsCurrent' BY DEF WorkIsCurrent
  <2>3. faults' = 0 => faults = 0
    BY DEF IInv, TypeOK
  <2>4. /\ WaitingReminders' \subseteq WaitingReminders
        /\ WaitingItems' \subseteq WaitingItems
    BY DEF WaitingReminders, WaitingItems
  <2>5. QED
    BY <2>1, <2>2, <2>3, <2>4, QuietKept
<1>5. QED
  BY <1>2, <1>3, <1>4, UpdateRemCases

(* Users act between passes: what they do changes no reading, and every task
   they make is counted. *)
LEMMA UserQuiet ==
    ASSUME IInv, QuietInv, Concurrent = FALSE, User
    PROVE  QuietInv'
<1>1. /\ pc = "idle" /\ cur = None /\ add = None
      /\ todo = {} /\ newRem = {} /\ newHA = {}
      /\ UNCHANGED <<store, pc, pass, cur, add, faults, crashes>>
  BY DEF User, UserAddsReminder, UserEditsReminder, UserDeletesReminder,
         UserAddsItem, UserEditsItem, UserDeletesItem, NewTask, Edit,
         UserMayAct, relay, IInv, Shape
<1>2. ReadIsCurrent' /\ WorkIsCurrent'
  BY <1>1 DEF ReadIsCurrent, WorkIsCurrent
<1>3. CASE UserEditsReminder \/ UserDeletesReminder
  <2>1. /\ UNCHANGED <<ha, remIssued, haIssued, tasks>>
        /\ Present(rem') \subseteq Present(rem)
    BY <1>3 DEF UserEditsReminder, UserDeletesReminder, IInv, TypeOK
  <2>2. /\ WaitingReminders' \subseteq WaitingReminders
        /\ WaitingItems' \subseteq WaitingItems
    BY <1>1, <2>1 DEF WaitingReminders, WaitingItems
  <2>3. QED
    BY <1>1, <1>2, <2>1, <2>2, QuietKept
<1>4. CASE UserEditsItem \/ UserDeletesItem
  <2>1. /\ UNCHANGED <<rem, remIssued, haIssued, tasks>>
        /\ Present(ha') \subseteq Present(ha)
    BY <1>4 DEF UserEditsItem, UserDeletesItem, IInv, TypeOK
  <2>2. /\ WaitingReminders' \subseteq WaitingReminders
        /\ WaitingItems' \subseteq WaitingItems
    BY <1>1, <2>1 DEF WaitingReminders, WaitingItems
  <2>3. QED
    BY <1>1, <1>2, <2>1, <2>2, QuietKept
<1>5. CASE UserAddsReminder
  <2>1. PICK r \in RemUIDs \ remIssued, c \in Reminder :
           rem' = [rem EXCEPT ![r] = c] /\ remIssued' = remIssued \cup {r}
    BY <1>5 DEF UserAddsReminder
  <2>2. tasks' = tasks + 1 /\ UNCHANGED <<ha, haIssued>>
    BY <1>5 DEF UserAddsReminder, NewTask
  <2>3. /\ WaitingReminders' \subseteq WaitingReminders \cup {r}
        /\ WaitingItems' \subseteq WaitingItems
    BY <1>1, <2>1, <2>2 DEF WaitingReminders, WaitingItems, IInv, TypeOK
  <2>4. /\ IsFiniteSet(remIssued')
        /\ Cardinality(remIssued') = Cardinality(remIssued) + 1
    BY <2>1, FS_AddElement DEF QuietInv
  <2>5. /\ Cardinality(WaitingReminders') <= Cardinality(WaitingReminders) + 1
        /\ Cardinality(WaitingReminders') \in Nat
    BY <2>3, WaitingFinite, OneMore
  <2>6. /\ Cardinality(WaitingItems') <= Cardinality(WaitingItems)
        /\ Cardinality(WaitingItems') \in Nat
    BY <2>3, WaitingFinite, FS_Subset, FS_CardinalityType
  <2>7. CopiesCounted'
    BY <1>1, <2>2, <2>4, <2>5, <2>6, WaitingFinite DEF QuietInv, CopiesCounted
  <2>8. QED
    BY <1>2, <2>2, <2>4, <2>7 DEF QuietInv
<1>6. CASE UserAddsItem
  <2>1. PICK h \in HAUIDs \ haIssued, i \in HAItem :
           ha' = [ha EXCEPT ![h] = i] /\ haIssued' = haIssued \cup {h}
    BY <1>6 DEF UserAddsItem
  <2>2. tasks' = tasks + 1 /\ UNCHANGED <<rem, remIssued>>
    BY <1>6 DEF UserAddsItem, NewTask
  <2>3. /\ WaitingReminders' \subseteq WaitingReminders
        /\ WaitingItems' \subseteq WaitingItems \cup {h}
    BY <1>1, <2>1, <2>2 DEF WaitingReminders, WaitingItems, IInv, TypeOK
  <2>4. /\ IsFiniteSet(haIssued')
        /\ Cardinality(haIssued') = Cardinality(haIssued) + 1
    BY <2>1, FS_AddElement DEF QuietInv
  <2>5. /\ Cardinality(WaitingItems') <= Cardinality(WaitingItems) + 1
        /\ Cardinality(WaitingItems') \in Nat
    BY <2>3, WaitingFinite, OneMore
  <2>6. /\ Cardinality(WaitingReminders') <= Cardinality(WaitingReminders)
        /\ Cardinality(WaitingReminders') \in Nat
    BY <2>3, WaitingFinite, FS_Subset, FS_CardinalityType
  <2>7. CopiesCounted'
    BY <1>1, <2>2, <2>4, <2>5, <2>6, WaitingFinite DEF QuietInv, CopiesCounted
  <2>8. QED
    BY <1>2, <2>2, <2>4, <2>7 DEF QuietInv
<1>7. QED
  BY <1>3, <1>4, <1>5, <1>6 DEF User

(* A daemon starts with every task linked. *)
LEMMA InitQuiet ==
    ASSUME Init
    PROVE  QuietInv
<1>1. PICK pairs \in SUBSET RemUIDs :
        /\ IsFiniteSet(pairs)
        /\ \E link \in [pairs -> HAUIDs], content \in [pairs -> Reminder],
              old \in SUBSET (pairs \cap Legacy) :
             Linked(pairs, link, content, old)
  BY DEF Init
<1>2. PICK link \in [pairs -> HAUIDs], content \in [pairs -> Reminder],
           old \in SUBSET (pairs \cap Legacy) :
        Linked(pairs, link, content, old)
  BY <1>1
<1>3. /\ pc = "idle" /\ cur = None /\ add = None
      /\ todo = {} /\ newRem = {} /\ newHA = {}
  BY DEF Init
<1>4. Tracked = pairs /\ \A r \in pairs : db[r].ha = link[r]
  BY <1>2, ConstantsAssumption DEF Linked, ConstantsAssumption
<1>5. /\ IsFiniteSet(haIssued)
      /\ Cardinality(haIssued) \in Nat
      /\ Cardinality(haIssued) <= Cardinality(pairs)
  <2>1. haIssued = {link[r] : r \in pairs}
    BY <1>2 DEF Linked
  <2>2. link \in Surjection(pairs, haIssued)
    BY <2>1 DEF Surjection
  <2>3. QED
    BY <1>1, <2>2, FS_Surjection, FS_CardinalityType
<1>6. WaitingReminders = {} /\ WaitingItems = {}
  <2>1. Present(rem) \subseteq Tracked
    BY <1>2, <1>4 DEF Linked
  <2>2. Present(ha) \subseteq LinkedHA
    <3>1. Present(ha) \subseteq haIssued
      BY InitInvariant DEF IInv, Issued
    <3>2. haIssued = LinkedHA
      <4>1. LinkedHA = {link[r] : r \in pairs}
        BY <1>4
      <4>2. QED
        BY <1>2, <4>1 DEF Linked
    <3>3. QED
      BY <3>1, <3>2
  <2>3. QED
    BY <2>1, <2>2 DEF WaitingReminders, WaitingItems
<1>7. CopiesCounted
  <2>1. remIssued = pairs /\ tasks = Cardinality(pairs)
    BY <1>2 DEF Linked
  <2>2. Cardinality(pairs) \in Nat
    BY <1>1, FS_CardinalityType
  <2>3. QED
    BY <1>5, <1>6, <2>1, <2>2, FS_EmptySet DEF CopiesCounted
<1>8. ReadIsCurrent /\ WorkIsCurrent
  BY <1>3 DEF ReadIsCurrent, WorkIsCurrent
<1>9. IsFiniteSet(remIssued)
  BY <1>1, <1>2 DEF Linked
<1>10. QED
  BY <1>5, <1>7, <1>8, <1>9 DEF QuietInv

(* What FetchAll returns is the list as it is. *)
LEMMA FetchAllQuiet ==
    ASSUME IInv, QuietInv, FetchAll
    PROVE  QuietInv'
<1>1. ReadIsCurrent'
  BY DEF FetchAll, Fetched, QuietInv, ReadIsCurrent, HACopy
<1>2. WorkIsCurrent'
  BY DEF FetchAll, QuietInv, WorkIsCurrent
<1>3. faults' = 0 => WaitingReminders' \subseteq WaitingReminders
  BY DEF FetchAll, WaitingReminders
<1>4. faults' = 0 => WaitingItems' \subseteq WaitingItems
  BY DEF FetchAll, WaitingItems
<1>5. /\ UNCHANGED <<remIssued, haIssued, tasks>>
      /\ faults' = 0 /\ crashes' = 0 => faults = 0 /\ crashes = 0
  BY DEF FetchAll, Fault, IInv, TypeOK
<1>6. QED
  BY <1>1, <1>2, <1>3, <1>4, <1>5, QuietKept

(* So is what GetItems returns; the rows are those of the database. *)
LEMMA GetItemsQuiet ==
    ASSUME IInv, QuietInv, GetItems
    PROVE  QuietInv'
<1>1. ReadIsCurrent'
  BY DEF GetItems, SkipList, QuietInv, ReadIsCurrent, HACopy
<1>2. WorkIsCurrent'
  BY DEF GetItems, NextItem, WorkIsCurrent
<1>3. faults' = 0 => WaitingReminders' \subseteq WaitingReminders
  BY DEF GetItems, WaitingReminders
<1>4. faults' = 0 => WaitingItems' \subseteq WaitingItems
  BY DEF GetItems, WaitingItems
<1>5. /\ UNCHANGED <<remIssued, haIssued, tasks>>
      /\ faults' = 0 /\ crashes' = 0 => faults = 0 /\ crashes = 0
  BY DEF GetItems, SkipList, Fault, IInv, TypeOK
<1>6. QED
  BY <1>1, <1>2, <1>3, <1>4, <1>5, QuietKept

(* A row that calls for nothing. *)
LEMMA DoNothingQuiet ==
    ASSUME IInv, QuietInv, NEW r \in RemUIDs, DoNothing(r)
    PROVE  QuietInv'
<1>1. ReadIsCurrent'
  BY DEF DoNothing, Visit, QuietInv, ReadIsCurrent, HACopy
<1>2. WorkIsCurrent'
  BY DEF DoNothing, Visit, QuietInv, WorkIsCurrent
<1>3. faults' = 0 => WaitingReminders' \subseteq WaitingReminders
  BY DEF DoNothing, WaitingReminders
<1>4. faults' = 0 => WaitingItems' \subseteq WaitingItems
  BY DEF DoNothing, Visit, WaitingItems
<1>5. /\ UNCHANGED <<remIssued, haIssued, tasks>>
      /\ faults' = 0 /\ crashes' = 0 => faults = 0 /\ crashes = 0
  BY DEF DoNothing, IInv, TypeOK
<1>6. QED
  BY <1>1, <1>2, <1>3, <1>4, <1>5, QuietKept

(* Only the visited row names the item that goes, so all that is still to be
   visited is as it was read. *)
LEMMA DeleteFromHAQuiet ==
    ASSUME IInv, QuietInv, NEW r \in RemUIDs, DeleteFromHA(r)
    PROVE  QuietInv'
<1>1. ReadIsCurrent'
  BY DEF DeleteFromHA, Visit, NextItem, Refused, IInv, TypeOK, Shape,
         Injective, StillNew, QuietInv, ReadIsCurrent, HACopy
<1>2. WorkIsCurrent'
  BY DEF DeleteFromHA, NextItem, Refused, WorkIsCurrent
<1>3. faults' = 0 => WaitingReminders' \subseteq WaitingReminders
  BY DEF DeleteFromHA, Visit, decide, QuietInv, ReadIsCurrent,
         WaitingReminders
<1>4. faults' = 0 => WaitingItems' \subseteq WaitingItems
  BY DEF DeleteFromHA, Visit, QuietInv, ReadIsCurrent, HACopy, WaitingItems
<1>5. /\ UNCHANGED <<remIssued, haIssued, tasks>>
      /\ faults' = 0 /\ crashes' = 0 => faults = 0 /\ crashes = 0
  BY DEF DeleteFromHA, Refused, Fault, IInv, TypeOK
<1>6. QED
  BY <1>1, <1>2, <1>3, <1>4, <1>5, QuietKept

(* Likewise for the reminder that goes. *)
LEMMA DeleteFromRemQuiet ==
    ASSUME IInv, QuietInv, NEW r \in RemUIDs, DeleteFromRem(r)
    PROVE  QuietInv'
<1>1. ReadIsCurrent'
  BY DEF DeleteFromRem, Visit, NextItem, Refused, IInv, TypeOK, Shape,
         StillNew, QuietInv, ReadIsCurrent, HACopy
<1>2. WorkIsCurrent'
  BY DEF DeleteFromRem, NextItem, Refused, WorkIsCurrent
<1>3. faults' = 0 => WaitingReminders' \subseteq WaitingReminders
  BY DEF DeleteFromRem, Visit, WaitingReminders
<1>4. faults' = 0 => WaitingItems' \subseteq WaitingItems
  BY DEF DeleteFromRem, Visit, WaitingItems
<1>5. /\ UNCHANGED <<remIssued, haIssued, tasks>>
      /\ faults' = 0 /\ crashes' = 0 => faults = 0 /\ crashes = 0
  BY DEF DeleteFromRem, Refused, Fault, IInv, TypeOK
<1>6. QED
  BY <1>1, <1>2, <1>3, <1>4, <1>5, QuietKept

(* Both copies of the row are gone, so neither starts to wait. *)
LEMMA DropRowQuiet ==
    ASSUME IInv, QuietInv, DropRow
    PROVE  QuietInv'
<1>1. ReadIsCurrent'
  BY ConstantsAssumption
  DEF DropRow, NextItem, IInv, Shape, QuietInv, ReadIsCurrent, HACopy,
      ConstantsAssumption
<1>2. WorkIsCurrent'
  BY DEF DropRow, NextItem, WorkIsCurrent
<1>3. faults' = 0 => WaitingReminders' \subseteq WaitingReminders
  BY DEF DropRow, IInv, GoneIsGone, WaitingReminders
<1>4. faults' = 0 => WaitingItems' \subseteq WaitingItems
  BY DEF DropRow, IInv, GoneIsGone, WaitingItems
<1>5. /\ UNCHANGED <<remIssued, haIssued, tasks>>
      /\ faults' = 0 /\ crashes' = 0 => faults = 0 /\ crashes = 0
  BY DEF DropRow, Fault, IInv, TypeOK
<1>6. QED
  BY <1>1, <1>2, <1>3, <1>4, <1>5, QuietKept

(* Only the visited row names the item that is written. *)
LEMMA UpdateHAQuiet ==
    ASSUME IInv, QuietInv, NEW r \in RemUIDs, UpdateHA(r)
    PROVE  QuietInv'
<1>1. ReadIsCurrent'
  BY DEF UpdateHA, Visit, UpdateItem, NextItem, Refused, IInv, TypeOK, Shape,
         Injective, StillNew, QuietInv, ReadIsCurrent, HACopy
<1>2. WorkIsCurrent'
  BY DEF UpdateHA, Visit, UpdateItem, NextItem, Refused, decide, IInv, TypeOK,
         Shape, QuietInv, ReadIsCurrent, WorkIsCurrent
<1>3. faults' = 0 => WaitingReminders' \subseteq WaitingReminders
  BY DEF UpdateHA, Visit, WaitingReminders
<1>4. faults' = 0 => WaitingItems' \subseteq WaitingItems
  BY DEF UpdateHA, Visit, UpdateItem, WaitingItems
<1>5. /\ UNCHANGED <<remIssued, haIssued, tasks>>
      /\ faults' = 0 /\ crashes' = 0 => faults = 0 /\ crashes = 0
  BY DEF UpdateHA, UpdateItem, Refused, Fault, IInv, TypeOK
<1>6. QED
  BY <1>1, <1>2, <1>3, <1>4, <1>5, QuietKept

(* The archived occurrence is read; nothing is written. *)
LEMMA FetchArchivedQuiet ==
    ASSUME IInv, QuietInv, FetchArchived
    PROVE  QuietInv'
<1>1. ReadIsCurrent'
  BY DEF FetchArchived, NextItem, Refused, QuietInv, ReadIsCurrent, HACopy
<1>2. WorkIsCurrent'
  BY DEF FetchArchived, NextItem, Refused, IInv, Shape, QuietInv,
         WorkIsCurrent
<1>3. faults' = 0 => WaitingReminders' \subseteq WaitingReminders
  BY DEF FetchArchived, WaitingReminders
<1>4. faults' = 0 => WaitingItems' \subseteq WaitingItems
  BY DEF FetchArchived, WaitingItems
<1>5. /\ UNCHANGED <<remIssued, haIssued, tasks>>
      /\ faults' = 0 /\ crashes' = 0 => faults = 0 /\ crashes = 0
  BY DEF FetchArchived, Refused, Fault, IInv, TypeOK
<1>6. QED
  BY <1>1, <1>2, <1>3, <1>4, <1>5, QuietKept

(* The completion link is written; no copy is made. *)
LEMMA SaveCompletionLinkQuiet ==
    ASSUME IInv, QuietInv, SaveCompletionLink
    PROVE  QuietInv'
<1>1. ReadIsCurrent'
  BY DEF SaveCompletionLink, NextItem, Refused, QuietInv, ReadIsCurrent,
         HACopy
<1>2. WorkIsCurrent'
  BY DEF SaveCompletionLink, NextItem, Refused, QuietInv, WorkIsCurrent
<1>3. faults' = 0 => WaitingReminders' \subseteq WaitingReminders
  BY DEF SaveCompletionLink, WaitingReminders
<1>4. faults' = 0 => WaitingItems' \subseteq WaitingItems
  BY DEF SaveCompletionLink, WaitingItems
<1>5. /\ UNCHANGED <<remIssued, haIssued, tasks>>
      /\ faults' = 0 /\ crashes' = 0 => faults = 0 /\ crashes = 0
  BY DEF SaveCompletionLink, Refused, Fault, IInv, TypeOK
<1>6. QED
  BY <1>1, <1>2, <1>3, <1>4, <1>5, QuietKept

(* The item shows what its reminder does. *)
LEMMA EchoToHAQuiet ==
    ASSUME IInv, QuietInv, EchoToHA
    PROVE  QuietInv'
<1>1. ReadIsCurrent'
  BY ConstantsAssumption
  DEF EchoToHA, UpdateItem, NextItem, Refused, IInv, TypeOK, Shape, Injective,
      StillNew, CurrentRow, QuietInv, ReadIsCurrent, HACopy,
      ConstantsAssumption
<1>2. WorkIsCurrent'
  BY DEF EchoToHA, UpdateItem, NextItem, Refused, IInv, TypeOK, Shape,
         QuietInv, WorkIsCurrent
<1>3. faults' = 0 => WaitingReminders' \subseteq WaitingReminders
  BY ConstantsAssumption
  DEF EchoToHA, UpdateItem, Refused, Fault, IInv, TypeOK, Shape, QuietInv,
      WorkIsCurrent, ConstantsAssumption, WaitingReminders
<1>4. faults' = 0 => WaitingItems' \subseteq WaitingItems
  BY DEF EchoToHA, UpdateItem, Refused, Fault, IInv, TypeOK, WaitingItems
<1>5. /\ UNCHANGED <<remIssued, haIssued, tasks>>
      /\ faults' = 0 /\ crashes' = 0 => faults = 0 /\ crashes = 0
  BY DEF EchoToHA, UpdateItem, Refused, Fault, IInv, TypeOK
<1>6. QED
  BY <1>1, <1>2, <1>3, <1>4, <1>5, QuietKept

(* The pair in work has its row. *)
LEMMA SaveRowQuiet ==
    ASSUME IInv, QuietInv, SaveRow
    PROVE  QuietInv'
<1>1. ReadIsCurrent'
  BY ConstantsAssumption
  DEF SaveRow, UpsertItem, NextItem, Refused, IInv, Shape, QuietInv,
      ReadIsCurrent, HACopy, ConstantsAssumption
<1>2. WorkIsCurrent'
  BY DEF SaveRow, UpsertItem, NextItem, Refused, WorkIsCurrent
<1>3. faults' = 0 => WaitingReminders' \subseteq WaitingReminders
  BY ConstantsAssumption
  DEF SaveRow, UpsertItem, NewRow, Clashes, Refused, Fault, IInv, TypeOK,
      Shape, CurrentRow, ConstantsAssumption, WaitingReminders
<1>4. faults' = 0 => WaitingItems' \subseteq WaitingItems
  BY ConstantsAssumption
  DEF SaveRow, UpsertItem, NewRow, Clashes, Refused, Fault, IInv, TypeOK,
      Shape, CurrentRow, ConstantsAssumption, WaitingItems
<1>5. /\ UNCHANGED <<remIssued, haIssued, tasks>>
      /\ faults' = 0 /\ crashes' = 0 => faults = 0 /\ crashes = 0
  BY DEF SaveRow, UpsertItem, Refused, Fault, IInv, TypeOK
<1>6. QED
  BY <1>1, <1>2, <1>3, <1>4, <1>5, QuietKept

(* The items there before the addition are those there now. *)
LEMMA CreateInHAQuiet ==
    ASSUME IInv, QuietInv, NEW r \in RemUIDs, CreateInHA(r)
    PROVE  QuietInv'
<1>1. ReadIsCurrent'
  BY DEF CreateInHA, ListBefore, NextItem, Refused, QuietInv, ReadIsCurrent
<1>2. WorkIsCurrent'
  BY DEF CreateInHA, ListBefore, NextItem, Refused, IInv, Shape, QuietInv,
         ReadIsCurrent, WorkIsCurrent
<1>3. faults' = 0 => WaitingReminders' \subseteq WaitingReminders
  BY DEF CreateInHA, WaitingReminders
<1>4. faults' = 0 => WaitingItems' \subseteq WaitingItems
  BY DEF CreateInHA, WaitingItems
<1>5. /\ UNCHANGED <<remIssued, haIssued, tasks>>
      /\ faults' = 0 /\ crashes' = 0 => faults = 0 /\ crashes = 0
  BY DEF CreateInHA, ListBefore, Refused, Fault, IInv, TypeOK
<1>6. QED
  BY <1>1, <1>2, <1>3, <1>4, <1>5, QuietKept

(* Likewise for the archived occurrence. *)
LEMMA CreateArchivedInHAQuiet ==
    ASSUME IInv, QuietInv, CreateArchivedInHA
    PROVE  QuietInv'
<1>1. ReadIsCurrent'
  BY DEF CreateArchivedInHA, ListBefore, NextItem, Refused, QuietInv,
         ReadIsCurrent, HACopy
<1>2. WorkIsCurrent'
  BY DEF CreateArchivedInHA, ListBefore, NextItem, Refused, QuietInv,
         WorkIsCurrent
<1>3. faults' = 0 => WaitingReminders' \subseteq WaitingReminders
  BY DEF CreateArchivedInHA, WaitingReminders
<1>4. faults' = 0 => WaitingItems' \subseteq WaitingItems
  BY DEF CreateArchivedInHA, WaitingItems
<1>5. /\ UNCHANGED <<remIssued, haIssued, tasks>>
      /\ faults' = 0 /\ crashes' = 0 => faults = 0 /\ crashes = 0
  BY DEF CreateArchivedInHA, ListBefore, Refused, Fault, IInv, TypeOK
<1>6. QED
  BY <1>1, <1>2, <1>3, <1>4, <1>5, QuietKept

(* The one candidate is the item that was added. *)
LEMMA ResolveUIDQuiet ==
    ASSUME IInv, QuietInv, ResolveUID
    PROVE  QuietInv'
<1>1. ReadIsCurrent'
  BY DEF ResolveUID, NextItem, Refused, QuietInv, ReadIsCurrent, HACopy
<1>2. WorkIsCurrent'
  BY DEF ResolveUID, Identified, Candidates, NextItem, Refused, IInv, Shape,
         QuietInv, WorkIsCurrent
<1>3. faults' = 0 => WaitingReminders' \subseteq WaitingReminders
  BY DEF ResolveUID, Identified, Refused, Fault, IInv, TypeOK, Shape,
         QuietInv, WorkIsCurrent, WaitingReminders
<1>4. faults' = 0 => WaitingItems' \subseteq WaitingItems
  BY DEF ResolveUID, Identified, Refused, Fault, IInv, TypeOK, Shape,
         QuietInv, WorkIsCurrent, WaitingItems
<1>5. /\ UNCHANGED <<remIssued, haIssued, tasks>>
      /\ faults' = 0 /\ crashes' = 0 => faults = 0 /\ crashes = 0
  BY DEF ResolveUID, Refused, Fault, IInv, TypeOK
<1>6. QED
  BY <1>1, <1>2, <1>3, <1>4, <1>5, QuietKept

(* The added item takes its completion; it is in work on no other row. *)
LEMMA ApplyToAddedQuiet ==
    ASSUME IInv, QuietInv, ApplyToAdded
    PROVE  QuietInv'
<1>1. ReadIsCurrent'
  BY DEF ApplyToAdded, UpdateItem, NextItem, Refused, IInv, TypeOK, Shape,
         AddedRow, QuietInv, ReadIsCurrent, HACopy
<1>2. WorkIsCurrent'
  BY ConstantsAssumption
  DEF ApplyToAdded, UpdateItem, Item, NextItem, Refused, IInv, TypeOK, Shape,
      CurrentRow, AddedRow, QuietInv, WorkIsCurrent, ConstantsAssumption
<1>3. faults' = 0 => WaitingReminders' \subseteq WaitingReminders
  BY DEF ApplyToAdded, UpdateItem, Refused, Fault, IInv, TypeOK, QuietInv,
         WorkIsCurrent, WaitingReminders
<1>4. faults' = 0 => WaitingItems' \subseteq WaitingItems
  BY DEF ApplyToAdded, UpdateItem, Refused, Fault, IInv, TypeOK, WaitingItems
<1>5. /\ UNCHANGED <<remIssued, haIssued, tasks>>
      /\ faults' = 0 /\ crashes' = 0 => faults = 0 /\ crashes = 0
  BY DEF ApplyToAdded, UpdateItem, Refused, Fault, IInv, TypeOK
<1>6. QED
  BY <1>1, <1>2, <1>3, <1>4, <1>5, QuietKept

(* The pass ends: it has read nothing that it has still to act on. *)
LEMMA EndPassQuiet ==
    ASSUME IInv, QuietInv, EndPass
    PROVE  QuietInv'
<1>1. ReadIsCurrent'
  BY DEF EndPass, Forget, ReadIsCurrent
<1>2. WorkIsCurrent'
  BY DEF EndPass, Forget, WorkIsCurrent
<1>3. faults' = 0 => WaitingReminders' \subseteq WaitingReminders
  BY DEF EndPass, WaitingReminders
<1>4. faults' = 0 => WaitingItems' \subseteq WaitingItems
  BY DEF EndPass, WaitingItems
<1>5. /\ UNCHANGED <<remIssued, haIssued, tasks>>
      /\ faults' = 0 /\ crashes' = 0 => faults = 0 /\ crashes = 0
  BY DEF EndPass, Forget, IInv, TypeOK
<1>6. QED
  BY <1>1, <1>2, <1>3, <1>4, <1>5, QuietKept

(* After a crash nothing is counted, and nothing has been read. *)
LEMMA CrashQuiet ==
    ASSUME IInv, QuietInv, Crash
    PROVE  QuietInv'
<1>1. ReadIsCurrent' /\ WorkIsCurrent'
  BY DEF Crash, Forget, ReadIsCurrent, WorkIsCurrent
<1>2. UNCHANGED <<remIssued, haIssued, tasks>> /\ crashes' # 0
  BY DEF Crash, IInv, TypeOK
<1>3. QED
  BY <1>1, <1>2, QuietKept

(* Nothing moves. *)
LEMMA StutterQuiet ==
    ASSUME IInv, QuietInv, UNCHANGED vars
    PROVE  QuietInv'
<1>1. ReadIsCurrent' /\ WorkIsCurrent'
  BY DEF vars, QuietInv, ReadIsCurrent, WorkIsCurrent, HACopy, Candidates
<1>2. WaitingReminders' = WaitingReminders /\ WaitingItems' = WaitingItems
  BY DEF vars, WaitingReminders, WaitingItems, Candidates
<1>3. QED
  BY <1>1, <1>2, QuietKept DEF vars

(* While users act between passes only, every step keeps what a pass has read
   true of the lists, and the count of the copies. *)
LEMMA QuietStep ==
    ASSUME IInv, QuietInv, Concurrent = FALSE, [Next]_vars
    PROVE  QuietInv'
<1>1. CASE Relay
  BY <1>1, FetchAllQuiet, GetItemsQuiet, DoNothingQuiet, DeleteFromHAQuiet,
     DeleteFromRemQuiet, DropRowQuiet, UpdateHAQuiet, UpdateRemQuiet,
     FetchArchivedQuiet, SaveCompletionLinkQuiet, EchoToHAQuiet, SaveRowQuiet,
     CreateInHAQuiet, CreateArchivedInHAQuiet, AddItemQuiet, ResolveUIDQuiet,
     ApplyToAddedQuiet, SaveAddedQuiet, CreateInRemindersQuiet, EndPassQuiet
     DEF Relay
<1>2. CASE Crash
  BY <1>2, CrashQuiet
<1>3. CASE User
  BY <1>3, UserQuiet
<1>4. CASE UNCHANGED vars
  BY <1>4, StutterQuiet
<1>5. QED
  BY <1>1, <1>2, <1>3, <1>4 DEF Next

-------------------------------------------------------------------------------
(***************************************************************************)
(* What the relay may write, and the promises that follow.                 *)
(***************************************************************************)
(* A reminder is written only while it shows what its row says, and its rules
   only when its item names another simple frequency. *)
LEMMA ReminderWritten ==
    ASSUME IInv, ReadIsCurrent, Relay \/ Crash,
           NEW r \in Present(rem), rem'[r] # None
    PROVE  \/ rem'[r] = rem[r]
           \/ /\ r \in Tracked /\ rem[r].proj = db[r].hash
              /\ \/ rem'[r].rules = rem[r].rules
                 \/ LET named == HACopy(r).proj.freq IN
                    /\ named \in Simple /\ named # rem[r].proj.freq
                    /\ rem'[r].rules = recurrenceForLabel[named]
<1>0. r \in RemUIDs /\ rem \in [RemUIDs -> Reminder \cup {None}]
      /\ Present(rem) \subseteq remIssued
  BY DEF IInv, TypeOK, Issued
<1>1. CASE UNCHANGED rem
  BY <1>1
<1>2. CASE \E s \in RemUIDs : DeleteFromRem(s)
  BY <1>0, <1>2 DEF DeleteFromRem
<1>3. CASE \E h \in HAUIDs : CreateInReminders(h)
  BY <1>0, <1>3, CreatedFacts
<1>4. CASE \E s \in RemUIDs : UpdateRem(s)
  <2>1. PICK s \in RemUIDs : UpdateRem(s)
    BY <1>4
  <2>2. /\ s \in Tracked /\ rem[s] # None /\ rem[s].proj = db[s].hash
        /\ remSnap[s] = rem[s]
    BY <2>1, UpdateRemFacts DEF UpdateRem
  <2>3. CASE UNCHANGED rem
    BY <2>3
  <2>4. ASSUME NEW editable \in FrequencyEditable(HACopy(s)),
               NEW command \in Reminder,
               command = mergeHAProjection(remSnap[s], HACopy(s), editable),
               \/ RollOver(s, command)
               \/ WriteReminder(s, command) \/ WriteFields(s, command)
        PROVE  /\ r # s => rem'[r] = rem[r]
               /\ rem'[s].rules = command.rules
    <3>1. CASE RollOver(s, command)
      <4>1. PICK a \in RemUIDs \ remIssued, next \in Advanced(command) :
              rem' = [rem EXCEPT ![s] = next, ![a] = Archived(command)]
        BY <3>1, RollOverFacts
      <4>2. a # s /\ a # r /\ next.rules = command.rules
        BY <1>0, <2>2, CompletionFacts
      <4>3. QED
        BY <1>0, <4>1, <4>2
    <3>2. CASE WriteReminder(s, command) \/ WriteFields(s, command)
      <4>1. PICK c \in Reminder : /\ c.rules = command.rules
                                 /\ rem' = [rem EXCEPT ![s] = c]
        BY <2>2, <3>2, WriteReminderFacts
      <4>2. QED
        BY <1>0, <4>1
    <3>3. QED
      BY <2>4, <3>1, <3>2
  <2>5. ASSUME NEW editable \in FrequencyEditable(HACopy(s)),
               NEW command \in Reminder,
               command = mergeHAProjection(remSnap[s], HACopy(s), editable)
        PROVE  \/ command.rules = rem[s].rules
               \/ LET named == HACopy(s).proj.freq IN
                  /\ named \in Simple /\ named # rem[s].proj.freq
                  /\ command.rules = recurrenceForLabel[named]
    <3>1. editable \in BOOLEAN /\ (editable => HACopy(s).proj.freq \in Simple)
      BY <2>1, CommandFact DEF UpdateRem
    <3>2. HACopy(s).proj.freq \in Simple =>
             recurrenceForLabel[HACopy(s).proj.freq] \in Rules
      BY ConstantsAssumption DEF ConstantsAssumption
    <3>3. command.rules =
            IF editable /\ HACopy(s).proj.freq # remSnap[s].proj.freq
            THEN recurrenceForLabel[HACopy(s).proj.freq]
            ELSE remSnap[s].rules
      BY <2>5 DEF mergeHAProjection, WithRules
    <3>4. QED
      BY <2>2, <3>1, <3>3
  <2>6. QED
    BY <2>1, <2>2, <2>3, <2>4, <2>5, UpdateRemCases
<1>5. QED
  BY <1>1, <1>2, <1>3, <1>4
  DEF Relay, Crash, FetchAll, GetItems, DoNothing, DeleteFromHA, UpdateHA,
      CreateInHA, DropRow, FetchArchived, SaveCompletionLink, EchoToHA,
      SaveRow, CreateArchivedInHA, AddItem, ResolveUID, ApplyToAdded,
      SaveAdded, EndPass

(* The item of a row is overwritten in three places only. *)
LEMMA ItemWritten ==
    ASSUME IInv, QuietInv, Relay \/ Crash, NEW r \in Tracked,
           ha[db[r].ha] # None, ha[db[r].ha].canon = None,
           ha'[db[r].ha] # None, ha'[db[r].ha].proj # ha[db[r].ha].proj
    PROVE  \/ pc = "echo" /\ cur.rem = r /\ ha[db[r].ha] = haSnap[db[r].ha]
           \/ pc = "loop" /\ rem[r] # None /\ rem[r].proj # db[r].hash
<1> DEFINE h == db[r].ha
<1>0. /\ h \in HAUIDs /\ h \in haIssued /\ r \in RemUIDs
      /\ ha \in [HAUIDs -> HAItem \cup {None}]
      /\ \A s \in Tracked : db[s].ha = h => s = r
  BY DEF IInv, TypeOK, Issued, Injective
<1>1. CASE AddItem
  BY <1>0, <1>1 DEF AddItem
<1>2. CASE ApplyToAdded
  BY <1>0, <1>2 DEF ApplyToAdded, UpdateItem, IInv, AddedRow
<1>3. CASE EchoToHA
  <2>1. h = cur.ha /\ pc = "echo" /\ cur # None
    BY <1>0, <1>3, ConstantsAssumption
    DEF EchoToHA, UpdateItem, IInv, Shape, ConstantsAssumption
  <2>2. cur.rem = r
    BY <1>0, <2>1 DEF IInv, CurrentRow
  <2>3. QED
    BY <2>1, <2>2 DEF QuietInv, WorkIsCurrent
<1>4. CASE \E s \in RemUIDs : UpdateHA(s)
  <2>1. PICK s \in RemUIDs : UpdateHA(s)
    BY <1>4
  <2>2. /\ pc = "loop" /\ s \in todo /\ s \in Tracked
        /\ decide(s) = "updateHA" /\ db[s].ha = h
    BY <1>0, <2>1 DEF UpdateHA, Visit, UpdateItem, IInv, Shape
  <2>3. s = r /\ remSnap[r] # None /\ HACopy(r) # None
    BY <1>0, <2>2, DecideFacts
  <2>4. remSnap[r] = rem[r] /\ HACopy(r) = ha[h]
    BY <2>2, <2>3 DEF QuietInv, ReadIsCurrent
  <2>5. RemChanged(r)
    BY <2>2, <2>3, <2>4 DEF decide
  <2>6. QED
    BY <2>2, <2>3, <2>4, <2>5 DEF RemChanged
<1>5. CASE \E s \in RemUIDs : DeleteFromHA(s)
  BY <1>0, <1>5 DEF DeleteFromHA
<1>6. CASE UNCHANGED ha
  BY <1>6
<1>7. QED
  BY <1>1, <1>2, <1>3, <1>4, <1>5, <1>6
  DEF Relay, Crash, FetchAll, GetItems, DoNothing, DeleteFromRem, UpdateRem,
      CreateInHA, CreateInReminders, DropRow, FetchArchived,
      SaveCompletionLink, SaveRow, CreateArchivedInHA, ResolveUID, SaveAdded,
      EndPass

(* A pass over two sides in step has nothing to do. *)
LEMMA NothingToDo ==
    ASSUME IInv, QuietInv, InSync
    PROVE  /\ \A r \in todo : decide(r) = "none"
           /\ newRem = {} /\ newHA = {}
           /\ pc \in {"idle", "fetched", "loop", "save"}
           /\ pc = "save" => /\ cur \in Work
                             /\ db[cur.rem] = [ha |-> cur.ha, hash |-> cur.proj]
<1>1. ASSUME NEW r \in todo PROVE decide(r) = "none"
  <2>1. r \in RemUIDs /\ r \in Tracked
    BY DEF IInv, TypeOK, Shape
  <2>2. /\ rem[r] # None /\ ha[db[r].ha] = Item(rem[r].proj)
        /\ db[r].hash = rem[r].proj
    BY <2>1 DEF InSync
  <2>3. remSnap[r] = rem[r] /\ HACopy(r) = Item(rem[r].proj)
    BY <2>2 DEF QuietInv, ReadIsCurrent
  <2>4. HACopy(r) # None /\ ~RemChanged(r) /\ ~HAChanged(r)
        /\ HACopy(r).canon = None
    <3>1. Item(rem[r].proj) \in HAItem
      BY <2>1, <2>2 DEF Item, IInv, TypeOK
    <3>2. QED
      BY <2>2, <2>3, <3>1, ConstantsAssumption
      DEF RemChanged, HAChanged, Item, ConstantsAssumption
  <2>5. QED
    BY <2>2, <2>3, <2>4 DEF decide
<1>2. newRem = {}
  BY DEF InSync, IInv, TypeOK, Shape, StillNew, QuietInv, ReadIsCurrent
<1>3. newHA = {}
  BY DEF InSync, IInv, TypeOK, Shape, StillNew, QuietInv, ReadIsCurrent
<1>4. pc # "drop"
  BY DEF InSync, IInv, Shape, GoneIsGone
<1>5. ASSUME cur # None, pc # "drop"
      PROVE  /\ cur.rem \in Tracked /\ pc = "save"
             /\ db[cur.rem] = [ha |-> cur.ha, hash |-> cur.proj]
  <2>1. cur \in Work /\ rem[cur.rem] # None /\ rem[cur.rem].proj = cur.proj
    BY <1>5 DEF IInv, TypeOK, QuietInv, WorkIsCurrent
  <2>2. /\ cur.rem \in Tracked /\ db[cur.rem].hash = cur.proj
        /\ ha[db[cur.rem].ha] = Item(cur.proj)
    BY <2>1 DEF InSync, IInv, TypeOK
  <2>3. db[cur.rem].ha = cur.ha
    BY <1>5, <2>2 DEF IInv, CurrentRow
  <2>4. pc = "save"
    BY <1>4, <1>5, <2>2, <2>3 DEF QuietInv, WorkIsCurrent, Item
  <2>5. QED
    BY <2>1, <2>2, <2>3, <2>4 DEF IInv, TypeOK
<1>6. pc \notin {"before", "add", "after", "apply", "saveNew"}
  BY DEF InSync, IInv, TypeOK, Shape, AddedRow, QuietInv, WorkIsCurrent
<1>7. pc \notin {"archive", "link", "echo"}
  BY <1>5, ConstantsAssumption DEF IInv, Shape, ConstantsAssumption
<1>8. pc = "save" => cur \in Work /\ cur # None
  BY ConstantsAssumption DEF IInv, Shape, ConstantsAssumption
<1>9. QED
  BY <1>1, <1>2, <1>3, <1>4, <1>5, <1>6, <1>7, <1>8 DEF IInv, TypeOK

(* Such a pass writes the rows it finds, and nothing else. *)
LEMMA QuietPass ==
    ASSUME IInv, QuietInv, InSync, Relay
    PROVE  UNCHANGED <<world, store>> /\ pc' \in {"idle", "fetched", "loop"}
<1>1. CASE FetchAll \/ GetItems \/ EndPass \/ \E r \in RemUIDs : DoNothing(r)
  BY <1>1 DEF FetchAll, GetItems, NextItem, EndPass, Forget, DoNothing, Visit
<1>2. CASE SaveRow
  <2>1. NewRow(cur.rem, cur.ha, cur.proj) = db[cur.rem]
    BY <1>2, NothingToDo DEF NewRow, SaveRow
  <2>2. UNCHANGED db
    BY <1>2, <2>1 DEF SaveRow, UpsertItem, IInv, TypeOK
  <2>3. QED
    BY <1>2, <2>2 DEF SaveRow, UpsertItem, Refused, NextItem
<1>3. QED
  BY <1>1, <1>2, NothingToDo
  DEF Relay, DeleteFromHA, DeleteFromRem, UpdateHA, UpdateRem, Visit,
      CreateInHA, CreateInReminders, DropRow, FetchArchived,
      SaveCompletionLink, EchoToHA, CreateArchivedInHA, AddItem, ResolveUID,
      ApplyToAdded, SaveAdded


(* While users act between passes only: what a pass has read of the two lists
   stays true until the pass has acted on it, the item in work is on both sides
   what the pass takes it for, and copies are no more than tasks. *)
THEOREM QuietInvariant ==
    ASSUME Concurrent = FALSE
    PROVE  Spec => []QuietInv
<1>1. Init => QuietInv
  BY InitQuiet
<1>2. IInv /\ QuietInv /\ [Next]_vars => QuietInv'
  BY QuietStep
<1>3. QED
  BY <1>1, <1>2, Invariant, PTL DEF Spec

(* Until a call fails or the process dies, a reconcile pass makes no task of
   its own: on neither side have there ever been more items than users, and
   recurrence, have made tasks. *)
THEOREM NoTaskOfItsOwn ==
    ASSUME Concurrent = FALSE
    PROVE  Spec => []NoDuplicatesUnfailed
<1>1. IInv /\ QuietInv => NoDuplicatesUnfailed
  BY WaitingFinite DEF QuietInv, CopiesCounted, NoDuplicatesUnfailed,
     NoDuplicates
<1>2. QED
  BY <1>1, Invariant, QuietInvariant, PTL

(* Conflicts resolve to iCloud: the relay writes over what a reminder shows
   only when both sides had agreed on it. *)
THEOREM ICloudNeverLoses ==
    ASSUME Concurrent = FALSE
    PROVE  Spec => ICloudWins
<1>1. ASSUME IInv, QuietInv, Relay \/ Crash, NEW r \in Tracked,
             rem[r] # None, rem'[r] # None, rem'[r].proj # rem[r].proj
      PROVE  rem[r].proj = db[r].hash
  <2>1. r \in Present(rem)
    BY <1>1 DEF IInv, TypeOK
  <2>2. QED
    BY <1>1, <2>1, ReminderWritten DEF QuietInv
<1>2. IInv /\ QuietInv /\ [Next]_vars =>
        [ \/ User
          \/ \A r \in Tracked :
               (rem[r] # None /\ rem'[r] # None /\ rem'[r].proj # rem[r].proj)
                  => rem[r].proj = db[r].hash ]_vars
  BY <1>1 DEF Next
<1>3. QED
  BY <1>2, Invariant, QuietInvariant, PTL DEF Spec, ICloudWins

(* The recurrence rules of a reminder, weekdays and ends included, are replaced
   only when its item names another simple frequency, and then by that one. *)
THEOREM RulesSurvive ==
    ASSUME Concurrent = FALSE
    PROVE  Spec => RulesKept
<1>1. IInv /\ QuietInv /\ [Next]_vars =>
        [ \/ User
          \/ \A r \in Present(rem) :
               rem'[r] # None /\ rem'[r].rules # rem[r].rules =>
                  LET named == HACopy(r).proj.freq IN
                  /\ named \in Simple /\ named # rem[r].proj.freq
                  /\ rem'[r].rules = recurrenceForLabel[named] ]_vars
  BY ReminderWritten DEF Next, QuietInv
<1>2. QED
  BY <1>1, Invariant, QuietInvariant, PTL DEF Spec, RulesKept

(* An item that is there is no absence. *)
LEMMA ItemIsThere ==
    ASSUME NEW p \in Projection
    PROVE  Item(p) # None
BY ConstantsAssumption DEF Item, ConstantsAssumption

(* Until a call fails, the item in work is given up only with its row. *)
LEMMA CurrentKept ==
    ASSUME IInv, QuietInv, Relay, cur # None, faults = 0, faults' = 0
    PROVE  \/ cur' = cur
           \/ pc = "drop" /\ db'[cur.rem] = None
           \/ /\ pc = "save"
              /\ db' = [db EXCEPT ![cur.rem] = NewRow(cur.rem, cur.ha, cur.proj)]
<1> USE DEF NextItem, Refused, Fault
<1>0. /\ pc \notin {"idle", "fetched", "loop"}
      /\ cur \in Work
      /\ pc \in {"apply", "saveNew"} => ha[add.ha] # None
      /\ pc = "archive" => rem[add.rem] # None
      /\ pc \in {"echo", "save"} => ha[cur.ha] # None
      /\ db \in [RemUIDs -> Row \cup {None}]
  <2>1. cur \in Work => Item(cur.proj) # None
    BY ItemIsThere
  <2>2. QED
    BY <2>1 DEF IInv, TypeOK, Shape, QuietInv, WorkIsCurrent
<1>1. CASE DropRow
  BY <1>0, <1>1 DEF DropRow
<1>2. CASE SaveRow
  <2>1. ~Clashes(cur.rem, cur.ha)
    BY <1>2, InvariantInjective DEF SaveRow, LinksInjective
  <2>2. QED
    BY <1>2, <2>1 DEF SaveRow, UpsertItem
<1>3. CASE SaveAdded
  <2>1. ~Clashes(add.rem, add.ha)
    BY <1>3, InvariantInjective DEF SaveAdded, LinksInjective
  <2>2. QED
    BY <1>3, <2>1 DEF SaveAdded, UpsertItem
<1>4. CASE EchoToHA \/ ApplyToAdded
  BY <1>0, <1>4 DEF EchoToHA, ApplyToAdded, UpdateItem
<1>5. CASE ResolveUID
  <2>1. PICK h \in HAUIDs : Candidates = {h}
    BY <1>5 DEF ResolveUID, QuietInv, WorkIsCurrent
  <2>2. QED
    BY <1>5, <2>1 DEF ResolveUID, Identified
<1>6. CASE FetchArchived \/ SaveCompletionLink \/ CreateArchivedInHA \/ AddItem
  <2>1. CASE AddItem
    <3>1. PICK n \in 0 .. MaxAttempts :
            \/ UNCHANGED cur
            \/ NextItem /\ Fault
      BY <2>1 DEF AddItem
    <3>2. QED
      BY <3>1
  <2>2. CASE FetchArchived \/ SaveCompletionLink \/ CreateArchivedInHA
    BY <1>0, <2>2
    DEF FetchArchived, SaveCompletionLink, CreateArchivedInHA, ListBefore
  <2>3. QED
    BY <1>6, <2>1, <2>2
<1>7. QED
  BY <1>0, <1>1, <1>2, <1>3, <1>4, <1>5, <1>6
  DEF Relay, FetchAll, GetItems, DoNothing, DeleteFromHA, DeleteFromRem,
      UpdateHA, UpdateRem, Visit, CreateInHA, CreateInReminders, EndPass

(* Until a call fails, a tracked reminder that the pass writes is in work. *)
LEMMA WrittenIsInWork ==
    ASSUME IInv, QuietInv, Relay, faults = 0, faults' = 0, NEW r \in Tracked,
           rem'[r] # rem[r], rem'[r] # None
    PROVE  UNCHANGED db /\ cur' # None /\ cur'.rem = r
<1>0. r \in RemUIDs /\ rem \in [RemUIDs -> Reminder \cup {None}] /\ r \in remIssued
  BY DEF IInv, TypeOK, Issued
<1>1. CASE \E s \in RemUIDs : DeleteFromRem(s)
  BY <1>0, <1>1 DEF DeleteFromRem
<1>2. CASE \E h \in HAUIDs : CreateInReminders(h)
  BY <1>0, <1>2, CreatedFacts
<1>3. CASE \E s \in RemUIDs : UpdateRem(s)
  <2>1. PICK s \in RemUIDs : UpdateRem(s)
    BY <1>3
  <2>2. /\ UNCHANGED db /\ s \in Tracked /\ db[s].ha \in HAUIDs
    BY <2>1, UpdateRemFacts DEF UpdateRem, QuietInv
  <2>3. ASSUME NEW command \in Reminder, RollOver(s, command)
        PROVE  r = s /\ cur' # None /\ cur'.rem = r
    <3>1. PICK a \in RemUIDs \ remIssued, next \in Reminder :
            /\ rem' = [rem EXCEPT ![s] = next, ![a] = Archived(command)]
            /\ \/ cur' = [rem |-> s, ha |-> db[s].ha, proj |-> next.proj]
               \/ Fault
      BY <2>3, RollOverFacts
    <3>2. cur' = [rem |-> s, ha |-> db[s].ha, proj |-> next.proj]
      BY <3>1 DEF Fault
    <3>3. cur' \in Work
      BY <2>2, <3>2
    <3>4. r = s
      BY <1>0, <3>1
    <3>5. QED
      BY <3>2, <3>3, <3>4, ConstantsAssumption DEF ConstantsAssumption
  <2>4. ASSUME NEW command \in Reminder,
               WriteReminder(s, command) \/ WriteFields(s, command)
        PROVE  r = s /\ cur' # None /\ cur'.rem = r
    <3>1. /\ cur' = [rem |-> s, ha |-> db[s].ha, proj |-> command.proj]
          /\ rem' = [rem EXCEPT ![s] = command]
      BY <2>4 DEF WriteReminder, WriteFields, Fault
    <3>2. cur' \in Work
      BY <2>2, <3>1
    <3>3. QED
      BY <1>0, <3>1, <3>2, ConstantsAssumption DEF ConstantsAssumption
  <2>5. QED
    BY <2>1, <2>2, <2>3, <2>4, UpdateRemCases
<1>4. QED
  BY <1>1, <1>2, <1>3
  DEF Relay, FetchAll, GetItems, DoNothing, DeleteFromHA, UpdateHA,
      CreateInHA, DropRow, FetchArchived, SaveCompletionLink, EchoToHA,
      SaveRow, CreateArchivedInHA, AddItem, ResolveUID, ApplyToAdded,
      SaveAdded, EndPass

(* A row that is written says what its reminder shows. *)
LEMMA WrittenRowAgrees ==
    ASSUME IInv, QuietInv, Relay, NEW r \in RemUIDs, db'[r] # db[r], db'[r] # None
    PROVE  rem' = rem /\ rem[r] # None /\ rem[r].proj = db'[r].hash
<1>0. db \in [RemUIDs -> Row \cup {None}]
  BY DEF IInv, TypeOK
<1>1. CASE DropRow \/ \E s \in RemUIDs : DeleteFromHA(s)
  BY <1>0, <1>1 DEF DropRow, DeleteFromHA
<1>2. CASE SaveRow
  <2>1. /\ db' = [db EXCEPT ![cur.rem] = NewRow(cur.rem, cur.ha, cur.proj)]
        /\ rem' = rem /\ pc = "save"
    BY <1>2 DEF SaveRow, UpsertItem
  <2>2. r = cur.rem /\ db'[r].hash = cur.proj
    BY <1>0, <2>1 DEF NewRow
  <2>3. cur # None
    BY <2>1, ConstantsAssumption DEF IInv, Shape, ConstantsAssumption
  <2>4. QED
    BY <2>1, <2>2, <2>3 DEF QuietInv, WorkIsCurrent
<1>3. CASE SaveAdded
  <2>1. /\ db' = [db EXCEPT ![add.rem] = NewRow(add.rem, add.ha, add.proj)]
        /\ rem' = rem /\ pc = "saveNew"
    BY <1>3 DEF SaveAdded, UpsertItem
  <2>2. r = add.rem /\ db'[r].hash = add.proj
    BY <1>0, <2>1 DEF NewRow
  <2>3. QED
    BY <2>1, <2>2 DEF QuietInv, WorkIsCurrent
<1>4. QED
  BY <1>1, <1>2, <1>3
  DEF Relay, FetchAll, GetItems, DoNothing, DeleteFromRem, UpdateHA, UpdateRem,
      CreateInHA, CreateInReminders, FetchArchived, SaveCompletionLink,
      EchoToHA, CreateArchivedInHA, AddItem, ResolveUID, ApplyToAdded, EndPass

(* Failures and crashes are counted, and never forgotten. *)
LEMMA FailuresCounted ==
    ASSUME IInv, Next
    PROVE  faults' >= faults /\ crashes' >= crashes
<1>0. faults \in Nat /\ crashes \in Nat
  BY DEF IInv, TypeOK
<1>1. CASE User
  BY <1>0, <1>1 DEF User, UserAddsReminder, UserEditsReminder,
     UserDeletesReminder, UserAddsItem, UserEditsItem, UserDeletesItem, relay
<1>2. CASE Crash
  BY <1>0, <1>2 DEF Crash
<1>3. CASE AddItem
  <2>1. PICK n \in 0 .. MaxAttempts : \/ n > 0 /\ faults' = faults + n - 1
                                      \/ Fault
    BY <1>3 DEF AddItem
  <2>2. n \in Nat /\ (faults' = faults + 1 \/ (n > 0 /\ faults' = faults + n - 1))
    BY <2>1 DEF Fault
  <2>3. crashes' = crashes
    BY <1>3 DEF AddItem
  <2>4. QED
    BY <1>0, <2>2, <2>3
<1>4. CASE \E h \in HAUIDs : CreateInReminders(h)
  BY <1>0, <1>4, CreatedFacts
<1>5. CASE \E r \in RemUIDs : UpdateRem(r)
  <2>1. /\ UNCHANGED crashes
        /\ faults' = faults \/ Fault
    BY <1>5, UpdateRemCases
    DEF RollOver, WriteReminder, WriteFields
  <2>2. QED
    BY <1>0, <2>1 DEF Fault
<1>6. CASE \/ FetchAll \/ GetItems \/ DropRow \/ FetchArchived
           \/ SaveCompletionLink \/ EchoToHA \/ SaveRow
           \/ CreateArchivedInHA \/ ResolveUID \/ ApplyToAdded
           \/ SaveAdded \/ EndPass
           \/ \E r \in RemUIDs : \/ DoNothing(r) \/ DeleteFromHA(r)
                                  \/ DeleteFromRem(r) \/ UpdateHA(r)
                                  \/ CreateInHA(r)
  <2>1. UNCHANGED crashes /\ (faults' = faults \/ Fault)
    BY <1>6
    DEF FetchAll, GetItems, DoNothing, DeleteFromHA, DeleteFromRem, UpdateHA,
        CreateInHA, DropRow, FetchArchived, SaveCompletionLink, EchoToHA,
        SaveRow, CreateArchivedInHA, ResolveUID, ApplyToAdded, SaveAdded,
        EndPass, UpdateItem, UpsertItem, ListBefore, Refused
  <2>2. QED
    BY <1>0, <2>1 DEF Fault
<1>7. QED
  BY <1>1, <1>2, <1>3, <1>4, <1>5, <1>6 DEF Next, Relay

(* The history knows of every edit that a row does not say. *)
LEMMA EditsKnownStep ==
    ASSUME IInv, QuietInv, EditsKnown, Concurrent = FALSE, Next /\ Record
    PROVE  EditsKnown'
<1>1. edited' \subseteq RemUIDs
  BY DEF Record
<1>2. ASSUME faults' = 0, crashes' = 0, NEW r \in Tracked', rem'[r] # None,
             ~Agrees(r)', ~(cur' # None /\ cur'.rem = r)
      PROVE  r \in edited'
  <2>0. r \in RemUIDs /\ db'[r] # None
    BY InvariantStep DEF IInv, TypeOK
  <2>1. faults = 0 /\ crashes = 0
    <3>1. faults' >= faults /\ crashes' >= crashes
      BY FailuresCounted
    <3>2. QED
      BY <1>2, <3>1 DEF IInv, TypeOK
  <2>2. r \in edited \/ (User /\ rem'[r] # rem[r])
    <3>1. CASE User
      <4>1. UNCHANGED db /\ cur = None
        BY <3>1 DEF User, UserAddsReminder, UserEditsReminder, UserDeletesReminder,
           UserAddsItem, UserEditsItem, UserDeletesItem, NewTask, Edit,
           UserMayAct, relay, IInv, Shape
      <4>2. rem'[r] = rem[r] => ~Agrees(r)
        BY <1>2, <4>1 DEF Agrees
      <4>3. QED
        BY <1>2, <2>0, <2>1, <3>1, <4>1, <4>2 DEF EditsKnown, IInv, TypeOK
    <3>2. CASE Relay
      <4>1. db'[r] = db[r]
        BY <1>2, <2>0, <3>2, WrittenRowAgrees DEF Agrees
      <4>2. r \in Tracked
        BY <2>0, <4>1 DEF IInv, TypeOK
      <4>3. rem'[r] = rem[r]
        BY <1>2, <2>1, <3>2, <4>2, WrittenIsInWork
      <4>4. ~Agrees(r) /\ rem[r] # None
        BY <1>2, <4>1, <4>3 DEF Agrees
      <4>5. r \in edited \/ (cur # None /\ cur.rem = r)
        BY <2>1, <4>2, <4>4 DEF EditsKnown
      <4>6. CASE cur # None /\ cur.rem = r
        <5>1. db'[r] = NewRow(r, cur.ha, cur.proj) /\ pc = "save"
          BY <1>2, <2>0, <2>1, <3>2, <4>6, CurrentKept DEF IInv, TypeOK
        <5>2. db'[r].hash = cur.proj
          BY <5>1 DEF NewRow
        <5>3. rem[r].proj = cur.proj
          BY <4>6, <5>1 DEF QuietInv, WorkIsCurrent
        <5>4. QED
          BY <1>2, <2>0, <4>3, <5>2, <5>3 DEF Agrees
      <4>7. QED
        BY <4>5, <4>6
    <3>3. CASE Crash
      BY <1>2, <2>1, <3>3 DEF Crash
    <3>4. QED
      BY <3>1, <3>2, <3>3 DEF Next
  <2>3. QED
    BY <1>2, <2>0, <2>2 DEF Record
<1>3. QED
  BY <1>1, <1>2 DEF EditsKnown

(* A behaviour with its history is one of Spec. *)
LEMMA HistoryIsSpec == HistorySpec => Spec
<1>1. [Next /\ Record]_historyvars => [Next]_vars
  BY DEF historyvars
<1>2. QED
  BY <1>1, PTL DEF HistorySpec, Spec

(* Until a call fails or the process dies, a reminder and its row differ only
   where a user has edited the reminder, or where the pass is at work. *)
THEOREM EditsAreKnown ==
    ASSUME Concurrent = FALSE
    PROVE  HistorySpec => []EditsKnown
<1>1. Init /\ edited = {} => EditsKnown
  <2> SUFFICES ASSUME Init, edited = {} PROVE EditsKnown
    OBVIOUS
  <2>1. \A r \in Tracked : Agrees(r)
    <3>1. PICK pairs \in SUBSET RemUIDs :
            \E link \in [pairs -> HAUIDs], content \in [pairs -> Reminder],
               old \in SUBSET (pairs \cap Legacy) :
              Linked(pairs, link, content, old)
      BY DEF Init
    <3>2. PICK link \in [pairs -> HAUIDs], content \in [pairs -> Reminder],
               old \in SUBSET (pairs \cap Legacy) :
            Linked(pairs, link, content, old)
      BY <3>1
    <3>3. \A r \in pairs : content[r] # None
      BY ConstantsAssumption DEF ConstantsAssumption
    <3>4. QED
      BY <3>2, <3>3 DEF Linked, Agrees
  <2>2. QED
    BY <2>1 DEF EditsKnown
<1>2. /\ IInv /\ QuietInv /\ EditsKnown
      /\ [Next /\ Record]_historyvars
      => EditsKnown'
  <2> SUFFICES ASSUME IInv, QuietInv, EditsKnown, [Next /\ Record]_historyvars
               PROVE  EditsKnown'
    OBVIOUS
  <2>1. CASE UNCHANGED historyvars
    BY <2>1 DEF historyvars, vars, EditsKnown, Agrees
  <2>2. QED
    BY <2>1, EditsKnownStep
<1>3. QED
  BY <1>1, <1>2, HistoryIsSpec, Invariant, QuietInvariant, PTL
  DEF HistorySpec

(* Until a call fails or the process dies, an edit made in HA is overwritten
   only by what the pass has made of that edit, or where a user has edited the
   reminder as well. *)
THEOREM HAEditsSurvive ==
    ASSUME Concurrent = FALSE
    PROVE  HistorySpec => HAEditsPropagate
<1>1. ASSUME IInv, QuietInv, EditsKnown, Relay \/ Crash,
             faults = 0, crashes = 0, NEW r \in Tracked
      PROVE  HAEditKept(r)
  <2> SUFFICES ASSUME Overwritten(r)
               PROVE  \/ /\ pc = "echo" /\ cur.rem = r
                         /\ ha[db[r].ha] = haSnap[db[r].ha]
                      \/ r \in edited
    BY DEF HAEditKept
  <2>1. \/ pc = "echo" /\ cur.rem = r /\ ha[db[r].ha] = haSnap[db[r].ha]
        \/ pc = "loop" /\ rem[r] # None /\ rem[r].proj # db[r].hash
    BY <1>1, ItemWritten DEF Overwritten
  <2>2. pc = "loop" => cur = None
    BY <1>1 DEF IInv, Shape
  <2>3. QED
    BY <1>1, <2>1, <2>2 DEF EditsKnown, Agrees
<1>2. /\ IInv /\ QuietInv /\ EditsKnown
      /\ [Next /\ Record]_historyvars
      => [ \/ User
           \/ faults = 0 /\ crashes = 0 => \A r \in Tracked : HAEditKept(r)
         ]_historyvars
  BY <1>1 DEF Next
<1>3. QED
  BY <1>2, HistoryIsSpec, Invariant, QuietInvariant, EditsAreKnown, PTL
  DEF HistorySpec, HAEditsPropagate

(* A pass over two sides in step writes to neither side nor to the database, so
   that the relay's own writes are not answered by further ones. *)
THEOREM PassInStepIsSilent ==
    ASSUME Concurrent = FALSE
    PROVE  Spec => NoChurn
<1>1. IInv /\ QuietInv /\ [Next]_vars =>
        [ User \/ Crash
          \/ (InSync => /\ UNCHANGED <<world, store>>
                        /\ pc' \in {"idle", "fetched", "loop"}) ]_vars
  BY QuietPass DEF Next
<1>2. QED
  BY <1>1, Invariant, QuietInvariant, PTL DEF Spec, NoChurn

===============================================================================
