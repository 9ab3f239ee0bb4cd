--------------------------- MODULE ProjectionProofs ----------------------------
(***************************************************************************)
(* Proofs about Projection, for any notes, tags, people, recurrences, due  *)
(* times, documents and time zone.                                         *)
(***************************************************************************)
EXTENDS Projection, TLAPS

Hash == [notes : Notes, due : Int \cup {None}, prio : Priorities,
         tags : SUBSET Tags, frequency : Labels,
         assignee : Participants \cup Strangers \cup {None}]

Due == [form : {"none", "date", "time"}, at : Int]

(* As long as no user of HA edits it, the item is what a reminder with the
   hash of the row was written as, or reads as that hash. *)
Echo == \E r \in Reminder : /\ desc = EncodeHADescription(r)
                            /\ haDue = formatDue(r.due)
                            /\ hash = ProjectionHash(r)

PInv == TypeOK /\ (~touched => Echo \/ ~haChanged)

-------------------------------------------------------------------------------
LEMMA KeysAre == Keys = {"Assignee", "Tags", "Priority", "Notes", "Frequency"}
BY DEF Keys, Nothing

LEMMA TrimTwice ==
    Trim(NoNotes) = NoNotes /\ \A n \in Notes : Trim(Trim(n)) = Trim(n)
<1>1. Trim(NoNotes) = NoNotes
  <2>1. ASSUME NEW n \in Notes, n.padded = FALSE PROVE Trim(n) = n
    BY <2>1 DEF Trim, Notes
  <2>2. NoNotes \in Notes /\ NoNotes.padded = FALSE
    BY DEF NoNotes, Notes
  <2> QED
    BY <2>1, <2>2
<1>2. ASSUME NEW n \in Notes PROVE Trim(Trim(n)) = Trim(n)
  BY DEF Trim, Notes
<1> QED
  BY <1>1, <1>2

LEMMA TrimTyped == ASSUME NEW n \in Notes PROVE Trim(n) \in Notes
BY DEF Trim, Notes

LEMMA LabelTyped == ASSUME NEW i \in Item PROVE FrequencyLabel(i) \in Labels \ {""}
BY DEF FrequencyLabel, Item, Labels

LEMMA HashTyped == ASSUME NEW i \in Item PROVE ProjectionHash(i) \in Hash
<1>1. FrequencyLabel(i) \in Labels
  BY LabelTyped
<1> QED
  BY <1>1 DEF ProjectionHash, Hash, Item

LEMMA DueTyped == ASSUME NEW t \in Int \cup {None} PROVE formatDue(t) \in Due
BY ConstantsAssumption DEF formatDue, Due

LEMMA ParseTyped == ASSUME NEW d \in Due PROVE parseDue(d) \in Int \cup {None}
BY DEF parseDue, Due

(* The values a description has when no key says otherwise. *)
LEMMA NothingTyped ==
    /\ Nothing \in [Assignee : Participants \cup Strangers \cup {None},
                    Tags : SUBSET Tags, Priority : Priorities, Notes : Notes,
                    Frequency : Labels]
    /\ NoNotes \in Notes /\ RawText \in Notes
BY DEF Nothing, Priorities, Notes, NoNotes, RawText, Labels

(* What EncodeHADescription writes: all that HA shows of a reminder, and the
   keys of what is not empty. *)
LEMMA Encoded ==
    ASSUME NEW i \in Item
    PROVE  LET d == EncodeHADescription(i)
           IN  /\ d \in Description
               /\ d.valid
               /\ d.values = [Assignee |-> i.assignee, Tags |-> i.tags,
                              Priority |-> i.prio, Notes |-> Trim(i.notes),
                              Frequency |-> FrequencyLabel(i)]
               /\ d.keys = {} => d.text = NoNotes /\ d.prefix = "None"
               /\ \A k \in Keys \ d.keys : d.values[k] = Nothing[k]
<1> DEFINE shown == [Assignee |-> i.assignee, Tags |-> i.tags,
                     Priority |-> i.prio, Notes |-> Trim(i.notes),
                     Frequency |-> FrequencyLabel(i)]
           written == {k \in Keys : shown[k] # Nothing[k]}
           d == EncodeHADescription(i)
           values == [k \in Keys |-> IF k \in written THEN shown[k]
                                                      ELSE Nothing[k]]
<1>1. shown \in [Assignee : Participants \cup Strangers \cup {None},
                 Tags : SUBSET Tags, Priority : Priorities, Notes : Notes,
                 Frequency : Labels]
  BY LabelTyped, TrimTyped DEF Item
<1>2. \A k \in Keys : values[k] = shown[k]
  OBVIOUS
<1>3. values = shown
  BY <1>2, KeysAre
<1>4. CASE written = {}
  <2>1. d = PlainText(NoNotes, "None")
    BY <1>4 DEF EncodeHADescription
  <2>2. \A k \in Keys : Nothing[k] = shown[k]
    BY <1>4
  <2>3. Nothing = shown
    BY <2>2 DEF Keys, Nothing
  <2> QED
    BY <2>1, <2>3, NothingTyped DEF PlainText, Description, Priorities
<1>5. CASE written # {}
  <2>1. d = Typed(written, shown, TRUE)
    BY <1>5 DEF EncodeHADescription
  <2>2. d = [keys |-> written, values |-> values, valid |-> TRUE,
             text |-> RawText, prefix |-> "None"]
    BY <2>1 DEF Typed
  <2>3. d \in Description
    BY <2>2, <1>1, <1>3, NothingTyped DEF Description, Priorities
  <2>4. \A k \in Keys \ d.keys : d.values[k] = Nothing[k]
    BY <2>2
  <2> QED
    BY <2>2, <2>3, <2>4, <1>3, <1>5
<1> QED
  BY <1>4, <1>5

(* What is read from HA is an item. *)
LEMMA ReadTyped ==
    ASSUME NEW d \in Description, NEW due \in Due
    PROVE  haItem(d, due) \in Item
<1>1. Field(d, "Notes") \in Notes /\ Field(d, "Priority") \in Priorities
  BY NothingTyped DEF Field, Description
<1>2. /\ Field(d, "Tags") \in SUBSET Tags
      /\ Field(d, "Assignee") \in Participants \cup Strangers \cup {None}
  BY NothingTyped DEF Field, Description
<1>3. HAProjectionFrequency(d) \in Labels
  BY DEF HAProjectionFrequency, Description, Labels
<1>4. \A f : recurrenceForLabel(f) \in SUBSET Rule
  BY ConstantsAssumption DEF recurrenceForLabel, Simple, Rule
<1>5. Trim(IF Understood(d) THEN Field(d, "Notes") ELSE d.text) \in Notes
  BY <1>1, TrimTyped DEF Description
<1>6. (IF Understood(d) THEN Field(d, "Priority") ELSE d.prefix) \in Priorities
  BY <1>1 DEF Description
<1> QED
  BY <1>2, <1>3, <1>4, <1>5, <1>6, ParseTyped DEF haItem, Item

(* A merge yields a reminder, but for its assignee. *)
LEMMA MergeTyped ==
    ASSUME NEW c \in Reminder, NEW p \in Item, NEW E \in SUBSET Keys
    PROVE  LET m == mergeHAProjection(c, p, E)
           IN  m \in Item /\ m.projected = ""
<1>1. MergedTags(c, p, E) \in SUBSET Tags
  BY DEF MergedTags, Reminder, Item
<1>2. MergedRules(c, p, E) \in SUBSET Rule
  BY DEF MergedRules, Reminder, Item
<1> QED
  BY <1>1, <1>2 DEF mergeHAProjection, Reminder, Item

LEMMA EditableTyped ==
    ASSUME NEW d \in Description PROVE Editable(d) \in SUBSET Keys
BY DEF Editable, Description

(* What the merge of a pass is made of, in terms of the state. *)
LEMMA Merging ==
    ASSUME TypeOK
    PROVE  /\ item \in Item
           /\ merged \in Item /\ merged.projected = ""
           /\ CanAssign(merged) => merged \in Reminder
           /\ [merged EXCEPT !.assignee = rem.assignee] \in Reminder
<1>1. item \in Item
  BY ReadTyped DEF TypeOK, item, Due
<1>2. merged \in Item /\ merged.projected = ""
  BY <1>1, MergeTyped, EditableTyped DEF TypeOK, merged
<1>3. CanAssign(merged) => merged \in Reminder
  BY <1>2 DEF CanAssign, Reminder
<1>4. [merged EXCEPT !.assignee = rem.assignee] \in Reminder
  BY <1>2 DEF TypeOK, Reminder, Item
<1> QED
  BY <1>1, <1>2, <1>3, <1>4

LEMMA PublishTyped ==
    ASSUME NEW i \in Reminder, Publish(i)
    PROVE  desc' \in Description /\ haDue' \in Due /\ hash' \in Hash
<1>1. i \in Item /\ i.due \in Int \cup {None}
  BY DEF Reminder, Item
<1> QED
  BY <1>1, Encoded, DueTyped, HashTyped DEF Publish

-------------------------------------------------------------------------------
(***************************************************************************)
(* Types                                                                   *)
(***************************************************************************)
LEMMA WantedTyped == Wanted \subseteq Reminder
<1> SUFFICES ASSUME NEW i \in Wanted PROVE i \in Reminder
  OBVIOUS
<1>1. i \in Item
  BY ConstantsAssumption DEF Wanted, Item, Labels
<1> QED
  BY <1>1 DEF Wanted, Reminder

LEMMA InitTyped == ASSUME Init PROVE TypeOK
<1>1. rem \in Reminder
  BY WantedTyped DEF Init
<1>2. rem \in Item /\ rem.due \in Int \cup {None}
  BY <1>1 DEF Reminder, Item
<1>3. desc \in Description /\ haDue \in Due /\ hash \in Hash
  BY <1>2, Encoded, DueTyped, HashTyped DEF Init
<1>4. edits \in 0 .. MaxEdits /\ touched \in BOOLEAN /\ quiet \in 0 .. Enough
  <2>1. MaxEdits \in Nat
    BY ConstantsAssumption
  <2>2. edits = 0 /\ touched = FALSE /\ quiet = 0
    BY DEF Init
  <2>3. touched \in BOOLEAN
    BY <2>2, Zenon
  <2>4. edits \in 0 .. MaxEdits /\ quiet \in 0 .. Enough
    BY <2>1, <2>2 DEF Enough
  <2> QED
    BY <2>3, <2>4
<1> QED
  BY <1>1, <1>3, <1>4 DEF TypeOK, Due, Hash

LEMMA EditReminderTyped == ASSUME TypeOK, EditReminder PROVE TypeOK'
<1>1. rem \in Item /\ rem.assignee \in Participants \cup {None}
      /\ rem.projected = ""
  BY DEF TypeOK, Reminder
<1>2. rem' \in Item /\ rem'.assignee \in Participants \cup {None}
      /\ rem'.projected = ""
  <2>1. CASE \E n \in Notes : rem' = [rem EXCEPT !.notes = n]
    BY <2>1, <1>1 DEF Item
  <2>2. CASE \E t \in Instants \cup {None} : rem' = [rem EXCEPT !.due = t]
    BY <2>2, <1>1, ConstantsAssumption DEF Item
  <2>3. CASE \E p \in Priorities : rem' = [rem EXCEPT !.prio = p]
    BY <2>3, <1>1 DEF Item
  <2>4. CASE \E T \in SUBSET Tags : rem' = [rem EXCEPT !.tags = T]
    BY <2>4, <1>1 DEF Item
  <2>5. CASE \E a \in Participants \cup {None} : rem' = [rem EXCEPT !.assignee = a]
    BY <2>5, <1>1 DEF Item
  <2>6. CASE \E R \in RuleSets : rem' = [rem EXCEPT !.rules = R]
    <3>1. RuleSets \subseteq SUBSET Rule
      BY ConstantsAssumption
    <3>2. PICK R \in RuleSets : rem' = [rem EXCEPT !.rules = R]
      BY <2>6
    <3>3. R \in SUBSET Rule
      BY <3>1, <3>2
    <3> QED
      BY <3>2, <3>3, <1>1 DEF Item
  <2> QED
    BY <2>1, <2>2, <2>3, <2>4, <2>5, <2>6 DEF EditReminder
<1>3. rem' \in Reminder
  BY <1>2 DEF Reminder
<1> QED
  BY <1>3, ConstantsAssumption DEF EditReminder, Edit, TypeOK, Enough

LEMMA EditItemTyped ==
    ASSUME TypeOK, EditDescription \/ EditDue PROVE TypeOK'
<1>1. CASE EditDescription
  BY <1>1, ConstantsAssumption DEF EditDescription, Edit, TypeOK, Enough
<1>2. CASE EditDue
  <2>1. \A t \in Instants : t \in Int /\ t - (t % 24) \in Int
    BY ConstantsAssumption
  <2>2. haDue' \in Due
    <3>1. CASE haDue' = formatDue(None)
      BY <3>1, DueTyped
    <3>2. CASE \E t \in Instants : \/ haDue' = [form |-> "time", at |-> t]
                                   \/ haDue' = [form |-> "date", at |-> t - (t % 24)]
      BY <3>2, <2>1 DEF Due
    <3> QED
      BY <1>2, <3>1, <3>2 DEF EditDue
  <2> QED
    BY <1>2, <2>2, ConstantsAssumption DEF EditDue, Edit, TypeOK, Enough, Due
<1> QED
  BY <1>1, <1>2

LEMMA PassTyped == ASSUME TypeOK, Pass PROVE TypeOK'
<1>1. rem' \in Reminder /\ desc' \in Description /\ haDue' \in Due
      /\ hash' \in Hash /\ touched' \in BOOLEAN
  <2>1. CASE DoNothing
    BY <2>1 DEF DoNothing, Through, TypeOK, Due, Hash
  <2>2. CASE UpdateHA
    BY <2>2, PublishTyped DEF UpdateHA, Through, TypeOK
  <2>3. CASE UpdateRem
    BY <2>3, PublishTyped, Merging DEF UpdateRem, Through
  <2>4. CASE AssigneeRefused
    BY <2>4, Merging DEF AssigneeRefused, TypeOK, Due, Hash
  <2> QED
    BY <2>1, <2>2, <2>3, <2>4 DEF Pass
<1>2. quiet' \in 0 .. Enough /\ edits' \in 0 .. MaxEdits
  BY DEF Pass, TypeOK, Enough
<1> QED
  BY <1>1, <1>2 DEF TypeOK, Due, Hash

LEMMA NextTyped == ASSUME TypeOK, [Next]_vars PROVE TypeOK'
<1>1. CASE UNCHANGED vars
  BY <1>1 DEF vars, TypeOK
<1> QED
  BY <1>1, EditReminderTyped, EditItemTyped, PassTyped DEF Next

(* Every variable keeps its type; in particular, whatever HA writes, only
   participants of the list are ever assigned. *)
THEOREM TypeCorrect == Spec => []TypeOK
<1> QED
  BY InitTyped, NextTyped, PTL DEF Spec

(* What a pass is made of that could not read the assignment. *)
LEMMA UnreadMerging ==
    ASSUME TypeOK
    PROVE  /\ unread \in Reminder
           /\ CanAssign(unreadMerged) => unreadMerged \in Reminder
           /\ LeaveAssignee(unreadMerged) \in Reminder
           /\ LeaveAssignee(merged) \in Reminder
           /\ merged.assignee = None => merged \in Reminder
<1>1. unread \in Reminder
  BY DEF unread, TypeOK, Reminder, Item
<1>2. unreadMerged \in Item /\ unreadMerged.projected = ""
  BY <1>1, Merging, MergeTyped, EditableTyped DEF TypeOK, unreadMerged
<1>3. CanAssign(unreadMerged) => unreadMerged \in Reminder
  BY <1>2 DEF CanAssign, Reminder
<1>4. LeaveAssignee(unreadMerged) \in Reminder
  BY <1>2 DEF LeaveAssignee, TypeOK, Reminder, Item
<1>5. /\ LeaveAssignee(merged) \in Reminder
      /\ merged.assignee = None => merged \in Reminder
  BY Merging DEF LeaveAssignee, CanAssign
<1> QED
  BY <1>1, <1>3, <1>4, <1>5

LEMMA UnreadTyped == ASSUME TypeOK, UnreadPass PROVE TypeOK'
<1>1. rem' \in Reminder /\ desc' \in Description /\ haDue' \in Due
      /\ hash' \in Hash /\ touched' \in BOOLEAN
  <2>1. CASE UNCHANGED <<rem, desc, haDue, hash>> /\ Through
    BY <2>1 DEF Through, TypeOK, Due, Hash
  <2>2. CASE Publish(unread) /\ Through /\ UNCHANGED rem
    BY <2>2, PublishTyped, UnreadMerging DEF Through, TypeOK
  <2>3. CASE /\ CanAssign(unreadMerged)
             /\ rem' \in {unreadMerged, LeaveAssignee(unreadMerged)}
             /\ Publish(unreadMerged) /\ Through
    BY <2>3, PublishTyped, UnreadMerging DEF Through
  <2>4. CASE rem' = LeaveAssignee(unreadMerged)
             /\ UNCHANGED <<desc, haDue, hash, touched>>
    BY <2>4, UnreadMerging DEF TypeOK, Due, Hash
  <2>5. CASE /\ merged.assignee = None /\ rem' = LeaveAssignee(merged)
             /\ Publish(merged) /\ Through
    BY <2>5, PublishTyped, UnreadMerging DEF Through
  <2> QED
    BY <2>1, <2>2, <2>3, <2>4, <2>5 DEF UnreadPass, UnreadFetch, UnreadUpdate
<1>2. quiet' \in 0 .. Enough /\ edits' \in 0 .. MaxEdits
  BY ConstantsAssumption DEF UnreadPass, UnreadFetch, UnreadUpdate, Edit, TypeOK, Enough
<1> QED
  BY <1>1, <1>2 DEF TypeOK, Due, Hash

(* The same when assignments cannot be read: they may be lost, but nobody is
   assigned who is not a participant. *)
THEOREM TypeCorrectUnread == UnreadSpec => []TypeOK
<1>1. TypeOK /\ [Next \/ UnreadPass]_vars => TypeOK'
  BY NextTyped, UnreadTyped
<1> QED
  BY <1>1, InitTyped, PTL DEF UnreadSpec

-------------------------------------------------------------------------------
(***************************************************************************)
(* Conversions                                                             *)
(***************************************************************************)
(* A reminder written to HA and read back: nothing is lost that HA shows. *)
LEMMA RoundTrip ==
    ASSUME NEW r \in Reminder
    PROVE  LET d == EncodeHADescription(r)
               i == haItem(d, formatDue(r.due))
           IN  /\ i.notes = Trim(r.notes)
               /\ i.due = parseDue(formatDue(r.due))
               /\ i.prio = r.prio /\ i.tags = r.tags /\ i.assignee = r.assignee
               /\ FrequencyLabel(i) = FrequencyLabel(r)
<1> DEFINE d == EncodeHADescription(r)
           i == haItem(d, formatDue(r.due))
<1>1. r \in Item
  BY DEF Reminder
<1>2. /\ d \in Description /\ d.valid
      /\ d.values.Assignee = r.assignee /\ d.values.Tags = r.tags
      /\ d.values.Priority = r.prio /\ d.values.Notes = Trim(r.notes)
      /\ d.values.Frequency = FrequencyLabel(r)
      /\ d.keys = {} => d.text = NoNotes /\ d.prefix = "None"
      /\ \A k \in Keys \ d.keys : d.values[k] = Nothing[k]
  <2> HIDE DEF d
  <2>1. /\ d \in Description /\ d.valid
        /\ d.values = [Assignee |-> r.assignee, Tags |-> r.tags,
                       Priority |-> r.prio, Notes |-> Trim(r.notes),
                       Frequency |-> FrequencyLabel(r)]
        /\ d.keys = {} => d.text = NoNotes /\ d.prefix = "None"
        /\ \A k \in Keys \ d.keys : d.values[k] = Nothing[k]
    BY <1>1, Encoded DEF d
  <2> QED
    BY <2>1
<1>3. Trim(Trim(r.notes)) = Trim(r.notes) /\ Trim(NoNotes) = NoNotes
  BY <1>1, TrimTwice DEF Item
<1>4. CASE d.keys = {}
  <2>1. ~Understood(d)
    BY <1>4 DEF Understood
  <2>2. \A k \in Keys : Field(d, k) = d.values[k]
    BY <1>2, <1>4, <2>1 DEF Field
  <2>3. d.values.Notes = NoNotes /\ d.values.Priority = "None"
    BY <1>2, <1>4, KeysAre DEF Nothing
  <2>4. FrequencyLabel(i) = FrequencyLabel(r)
    <3>1. FrequencyLabel(r) = "once" /\ Field(d, "Frequency") = "once"
      BY <1>2, <1>4, <2>2, KeysAre DEF Nothing
    <3>2. i.projected = "" /\ i.rules = {}
      BY <2>1, <3>1 DEF haItem, HAProjectionFrequency, recurrenceForLabel
    <3> QED
      BY <3>1, <3>2 DEF FrequencyLabel
  <2> QED
    BY <1>2, <1>3, <1>4, <2>1, <2>2, <2>3, <2>4, KeysAre DEF haItem
<1>5. CASE d.keys # {}
  <2>1. Understood(d)
    BY <1>2, <1>5 DEF Understood
  <2>2. \A k : Field(d, k) = d.values[k]
    BY <2>1 DEF Field
  <2>3. CASE "Frequency" \in d.keys
    <3>1. i.projected = FrequencyLabel(r)
      BY <1>2, <2>1, <2>3 DEF haItem, HAProjectionFrequency
    <3>2. FrequencyLabel(i) = FrequencyLabel(r)
      BY <1>1, <3>1, LabelTyped DEF FrequencyLabel
    <3> QED
      BY <1>2, <1>3, <2>1, <2>2, <3>2 DEF haItem
  <2>4. CASE "Frequency" \notin d.keys
    <3>1. FrequencyLabel(r) = "once" /\ Field(d, "Frequency") = "once"
      BY <1>2, <2>2, <2>4, KeysAre DEF Nothing
    <3>2. i.projected = "" /\ i.rules = {}
      BY <2>4, <3>1 DEF haItem, HAProjectionFrequency, recurrenceForLabel
    <3>3. FrequencyLabel(i) = FrequencyLabel(r)
      BY <3>1, <3>2 DEF FrequencyLabel
    <3> QED
      BY <1>2, <1>3, <2>1, <2>2, <3>3 DEF haItem
  <2> QED
    BY <2>3, <2>4
<1> QED
  BY <1>4, <1>5

-------------------------------------------------------------------------------
(***************************************************************************)
(* Nothing unasked                                                         *)
(***************************************************************************)
LEMMA Invariance == ASSUME PInv, [Next]_vars PROVE PInv'
<1>1. TypeOK'
  BY NextTyped DEF PInv
<1>2. ASSUME ~touched' PROVE (Echo \/ ~haChanged)'
  <2>1. CASE UNCHANGED vars
    BY <1>2, <2>1 DEF PInv, vars, Echo, haChanged, item
  <2>2. CASE EditReminder
    BY <1>2, <2>2 DEF PInv, EditReminder, Echo, haChanged, item
  <2>3. CASE EditDescription \/ EditDue
    BY <1>2, <2>3 DEF EditDescription, EditDue
  <2>4. CASE DoNothing
    BY <2>4 DEF DoNothing, haChanged, item
  <2>5. CASE UpdateHA
    BY <2>5 DEF UpdateHA, Publish, Echo, PInv, TypeOK
  <2>6. CASE UpdateRem
    <3>1. merged \in Reminder
      BY <2>6, Merging DEF UpdateRem, PInv
    <3> QED
      BY <2>6, <3>1 DEF UpdateRem, Publish, Echo
  <2>7. CASE AssigneeRefused
    BY <1>2, <2>7 DEF AssigneeRefused, PInv, Echo, haChanged, item
  <2> QED
    BY <2>1, <2>2, <2>3, <2>4, <2>5, <2>6, <2>7 DEF Next, Pass
<1> QED
  BY <1>1, <1>2 DEF PInv

LEMMA Initially == ASSUME Init PROVE PInv
<1>1. rem \in Reminder
  BY WantedTyped DEF Init
<1> QED
  BY <1>1, InitTyped DEF Init, PInv, Echo

(* A merge with an echo is the reminder itself, trimmed. *)
LEMMA MergedEcho ==
    ASSUME TypeOK, Echo, ~remChanged PROVE merged = Normal(rem)
<1> PICK r \in Reminder : /\ desc = EncodeHADescription(r)
                          /\ haDue = formatDue(r.due)
                          /\ hash = ProjectionHash(r)
  BY DEF Echo
<1>1. /\ rem.notes = r.notes /\ rem.due = r.due /\ rem.prio = r.prio
      /\ rem.tags = r.tags /\ rem.assignee = r.assignee
      /\ FrequencyLabel(rem) = FrequencyLabel(r)
  BY DEF remChanged, ProjectionHash
<1>2. /\ item.notes = Trim(r.notes)
      /\ item.due = parseDue(formatDue(r.due))
      /\ item.prio = r.prio /\ item.tags = r.tags /\ item.assignee = r.assignee
      /\ FrequencyLabel(item) = FrequencyLabel(r)
  BY RoundTrip DEF item
<1>3. MergedTags(rem, item, Editable(desc)) = rem.tags
  BY <1>1, <1>2 DEF MergedTags
<1>4. MergedRules(rem, item, Editable(desc)) = rem.rules
  BY <1>1, <1>2 DEF MergedRules
<1>5. rem \in Item
  BY DEF TypeOK, Reminder
<1> QED
  BY <1>1, <1>2, <1>3, <1>4, <1>5
  DEF merged, mergeHAProjection, Normal, Item

LEMMA PassUnasked ==
    ASSUME PInv, Pass, ~touched PROVE rem' \in {rem, Normal(rem)}
<1>1. CASE DoNothing \/ UpdateHA
  BY <1>1 DEF DoNothing, UpdateHA
<1>2. CASE UpdateRem \/ AssigneeRefused
  <2>1. merged = Normal(rem)
    BY <1>2, MergedEcho DEF PInv, UpdateRem, AssigneeRefused
  <2>2. rem \in Item
    BY DEF PInv, TypeOK, Reminder
  <2>3. [merged EXCEPT !.assignee = rem.assignee] = merged
    BY <2>1, <2>2 DEF Normal, Item
  <2> QED
    BY <1>2, <2>1, <2>3 DEF UpdateRem, AssigneeRefused
<1> QED
  BY <1>1, <1>2 DEF Pass

(* Without an edit in HA a pass never changes a reminder but to trim its notes
   and to move a due time at midnight to midnight UTC: for every recurrence,
   list of tags, assignee and time zone. *)
THEOREM NothingUnasked == Spec => Unasked
<1>1. PInv /\ [Next]_vars => [Pass /\ ~touched => rem' \in {rem, Normal(rem)}]_vars
  BY PassUnasked
<1> QED
  BY <1>1, Initially, Invariance, PTL DEF Spec, Unasked

(* Keys that a description lacks leave what iCloud has. *)
THEOREM OmittedFieldsKept == Spec => OmittedKept
<1> DEFINE Kept == /\ "Tags" \notin desc.keys => rem'.tags = rem.tags
                   /\ "Assignee" \notin desc.keys => rem'.assignee = rem.assignee
                   /\ "Frequency" \notin desc.keys => rem'.rules = rem.rules
<1>1. ASSUME TypeOK, Pass PROVE Kept
  <2>1. rem \in Item /\ Editable(desc) \subseteq desc.keys
    BY <1>1 DEF TypeOK, Reminder, Editable
  <2>2. /\ "Tags" \notin desc.keys => merged.tags = rem.tags
        /\ "Assignee" \notin desc.keys => merged.assignee = rem.assignee
        /\ "Frequency" \notin desc.keys => merged.rules = rem.rules
    BY <2>1 DEF merged, mergeHAProjection, MergedTags, MergedRules, Item
  <2>3. CASE DoNothing \/ UpdateHA
    BY <2>3 DEF DoNothing, UpdateHA
  <2>4. CASE UpdateRem
    BY <2>4, <2>2 DEF UpdateRem
  <2>5. CASE AssigneeRefused
    <3>1. merged \in Item
      BY <1>1, Merging
    <3> QED
      BY <2>5, <2>2, <3>1 DEF AssigneeRefused, Item
  <2> QED
    BY <1>1, <2>3, <2>4, <2>5 DEF Pass
<1>2. TypeOK /\ [Next]_vars => [Pass => Kept]_vars
  BY <1>1
<1> QED
  BY <1>2, TypeCorrect, PTL DEF Spec, OmittedKept

-------------------------------------------------------------------------------
(***************************************************************************)
(* Edits in HA                                                             *)
(***************************************************************************)
(* The rules made for a label have that label. *)
LEMMA RulesOfLabel ==
    ASSUME NEW i, i.projected = "", NEW f \in {"once", "daily", "weekly"},
           i.rules = recurrenceForLabel(f)
    PROVE  FrequencyLabel(i) = f
<1>1. CASE f = "once"
  BY <1>1 DEF recurrenceForLabel, FrequencyLabel
<1>2. CASE f # "once"
  <2>1. i.rules = {Simple(f)} /\ Simple(f).interval = 1 /\ Simple(f).freq = f
    BY <1>2 DEF recurrenceForLabel, Simple
  <2>2. \A g : Single(i.rules, g) <=> g = f
    BY <2>1 DEF Single
  <2> QED
    BY <1>2, <2>1, <2>2 DEF FrequencyLabel
<1> QED
  BY <1>1, <1>2

(* Once merged, the label is what HA asked for. *)
LEMMA MergedLabel ==
    ASSUME TypeOK, Understood(desc), "Frequency" \in Editable(desc)
    PROVE  FrequencyLabel(merged) = desc.values["Frequency"]
<1> DEFINE f == desc.values["Frequency"]
<1>1. HAProjectionFrequency(desc) = f /\ f \in {"once", "daily", "weekly"}
  BY DEF Editable, HAProjectionFrequency
<1>2. item.projected = f /\ item.rules = recurrenceForLabel(f)
  BY <1>1 DEF item, haItem, Field
<1>3. FrequencyLabel(item) = f
  BY <1>1, <1>2 DEF FrequencyLabel
<1>4. /\ merged.projected = rem.projected
      /\ merged.rules = MergedRules(rem, item, Editable(desc))
  <2>1. rem \in Item
    BY DEF TypeOK, Reminder
  <2> QED
    BY <2>1 DEF merged, mergeHAProjection, Item
<1>5. rem.projected = ""
  BY DEF TypeOK, Reminder
<1>6. CASE FrequencyLabel(rem) = f
  <2>1. merged.rules = rem.rules
    BY <1>3, <1>4, <1>6 DEF MergedRules
  <2> QED
    BY <1>4, <1>6, <2>1 DEF FrequencyLabel
<1>7. CASE FrequencyLabel(rem) # f
  <2>1. merged.rules = recurrenceForLabel(f)
    BY <1>2, <1>3, <1>4, <1>7 DEF MergedRules
  <2> QED
    BY <1>1, <1>4, <1>5, <2>1, RulesOfLabel
<1> QED
  BY <1>6, <1>7

(* What a user of HA writes into a key that HA may edit is what the item says
   after the pass that has brought it to iCloud. *)
THEOREM EditedFieldsSurvive == Spec => EditsSurvive
<1> DEFINE Survives ==
      \A k \in Editable(desc) :
          desc'.values[k] = IF k = "Notes" THEN Trim(desc.values[k])
                            ELSE desc.values[k]
<1>1. ASSUME TypeOK, UpdateRem, Understood(desc) PROVE Survives
  <2>1. rem \in Item /\ merged \in Item
    BY <1>1, Merging DEF TypeOK, Reminder
  <2>2. desc'.values = [Assignee |-> merged.assignee, Tags |-> merged.tags,
                        Priority |-> merged.prio, Notes |-> Trim(merged.notes),
                        Frequency |-> FrequencyLabel(merged)]
    BY <1>1, <2>1, Encoded DEF UpdateRem, Publish
  <2>3. /\ item.notes = Trim(desc.values["Notes"])
        /\ item.prio = desc.values["Priority"]
        /\ item.tags = desc.values["Tags"]
        /\ item.assignee = desc.values["Assignee"]
    BY <1>1 DEF item, haItem, Field
  <2>4. /\ merged.notes = item.notes /\ merged.prio = item.prio
        /\ "Tags" \in Editable(desc) => merged.tags = item.tags
        /\ "Assignee" \in Editable(desc) => merged.assignee = item.assignee
    BY <2>1 DEF merged, mergeHAProjection, MergedTags, Item
  <2>5. "Frequency" \in Editable(desc)
          => FrequencyLabel(merged) = desc.values["Frequency"]
    BY <1>1, MergedLabel
  <2>6. Trim(item.notes) = item.notes
    <3>1. desc.values["Notes"] \in Notes
      BY <1>1 DEF TypeOK, Description
    <3> QED
      BY <2>3, <3>1, TrimTwice
  <2>7. Editable(desc) \subseteq {"Assignee", "Tags", "Priority", "Notes",
                                 "Frequency"}
    BY <1>1, EditableTyped, KeysAre DEF TypeOK
  <2> QED
    BY <2>2, <2>3, <2>4, <2>5, <2>6, <2>7
<1>2. TypeOK /\ [Next]_vars => [UpdateRem /\ Understood(desc) => Survives]_vars
  BY <1>1
<1> QED
  BY <1>2, TypeCorrect, PTL DEF Spec, EditsSurvive

-------------------------------------------------------------------------------
(***************************************************************************)
(* Left alone, a pair comes into step                                      *)
(***************************************************************************)
(* HA and the row hold the reminder as it is. *)
Published == /\ desc = EncodeHADescription(rem)
             /\ haDue = formatDue(rem.due)
             /\ hash = ProjectionHash(rem)

(* All of the edit in HA was taken over but an assignee that iCloud refuses. *)
Taken == /\ ~CanAssign(merged)
         /\ rem = [merged EXCEPT !.assignee = rem.assignee]

Settled == ~remChanged /\ (haChanged => Taken)

(* How far a pair has come after each pass. *)
Settling ==
    /\ quiet >= 1 => Settled \/ Published \/ (haChanged /\ Taken)
    /\ quiet >= 2 => Settled \/ Published
    /\ quiet >= 3 => Settled

(* A second trip through HA changes nothing that the first one has not. *)
LEMMA NormalTwice ==
    ASSUME NEW i \in Reminder
    PROVE  /\ Normal(i) \in Reminder
           /\ Trim(Normal(i).notes) = Normal(i).notes
           /\ parseDue(formatDue(Normal(i).due)) = Normal(i).due
<1>1. i \in Item /\ i.due \in Int \cup {None} /\ None \notin Int
      /\ Zone \in -12 .. 14
  BY ConstantsAssumption DEF Reminder, Item
<1>2. /\ Normal(i).notes = Trim(i.notes)
      /\ Normal(i).due = parseDue(formatDue(i.due))
  BY <1>1 DEF Normal, Item
<1>3. Normal(i) \in Reminder
  <2>1. Trim(i.notes) \in Notes /\ parseDue(formatDue(i.due)) \in Int \cup {None}
    BY <1>1, TrimTyped, DueTyped, ParseTyped DEF Item
  <2> QED
    BY <1>1, <2>1 DEF Normal, Reminder, Item
<1>4. Trim(Normal(i).notes) = Normal(i).notes
  BY <1>1, <1>2, TrimTwice DEF Item
<1>5. \A t \in Int \cup {None} :
         parseDue(formatDue(t)) = IF t # None /\ Midnight(t) THEN t + Zone ELSE t
  BY <1>1 DEF parseDue, formatDue
<1>6. \A t \in Int : Midnight(t) /\ Midnight(t + Zone) => Zone = 0
  BY <1>1 DEF Midnight
<1>7. parseDue(formatDue(Normal(i).due)) = Normal(i).due
  <2>1. CASE i.due # None /\ Midnight(i.due)
    <3>1. Normal(i).due = i.due + Zone /\ i.due \in Int
      BY <1>1, <1>2, <1>5, <2>1
    <3>2. i.due + Zone \in Int /\ i.due + Zone # None
      BY <1>1, <3>1
    <3>3. Midnight(i.due + Zone) => i.due + Zone + Zone = i.due + Zone
      BY <1>1, <1>6, <2>1, <3>1
    <3> QED
      BY <1>5, <3>1, <3>2, <3>3
  <2>2. CASE ~(i.due # None /\ Midnight(i.due))
    BY <1>1, <1>2, <1>5, <2>2
  <2> QED
    BY <2>1, <2>2
<1> QED
  BY <1>3, <1>4, <1>7

LEMMA NormalEcho ==
    ASSUME NEW i \in Reminder
    PROVE  LET r == Normal(i)
           IN  ProjectionHash(haItem(EncodeHADescription(r), formatDue(r.due)))
                   = ProjectionHash(r)
BY NormalTwice, RoundTrip DEF ProjectionHash

(* What has just been published differs from HA's copy by a trip at most. *)
LEMMA PublishedFacts ==
    ASSUME TypeOK, Published
    PROVE  ~remChanged /\ merged = Normal(rem) /\ CanAssign(merged)
<1>1. rem \in Reminder /\ rem \in Item
  BY DEF TypeOK, Reminder
<1>2. ~remChanged
  BY DEF Published, remChanged
<1>3. merged = Normal(rem)
  BY <1>1, <1>2, MergedEcho DEF Published, Echo
<1>4. CanAssign(merged)
  BY <1>1, <1>3 DEF Normal, CanAssign, Reminder, Item
<1> QED
  BY <1>2, <1>3, <1>4

(* A merge takes everything over: merged once more, only the assignee that
   iCloud has refused is left. *)
LEMMA MergedTwice ==
    ASSUME TypeOK, NEW c \in Reminder,
           c = [merged EXCEPT !.assignee = rem.assignee]
    PROVE  LET again == mergeHAProjection(c, item, Editable(desc))
           IN  /\ again.assignee \in {merged.assignee, c.assignee}
               /\ ~CanAssign(merged) => again.assignee = merged.assignee
               /\ c = [again EXCEPT !.assignee = c.assignee]
<1> DEFINE E == Editable(desc)
           again == mergeHAProjection(c, item, E)
<1>1. rem \in Item /\ rem.assignee \in Participants \cup {None}
      /\ merged \in Item /\ c \in Item
  BY Merging DEF TypeOK, Reminder
<1>2. /\ c.notes = merged.notes /\ c.due = merged.due /\ c.prio = merged.prio
      /\ c.tags = merged.tags /\ c.rules = merged.rules
      /\ c.assignee = rem.assignee /\ c.projected = merged.projected
  BY <1>1 DEF Item
<1>3. /\ merged.notes = item.notes /\ merged.due = item.due
      /\ merged.prio = item.prio
      /\ merged.tags = MergedTags(rem, item, E)
      /\ merged.rules = MergedRules(rem, item, E)
      /\ merged.assignee = IF "Assignee" \in E THEN item.assignee
                           ELSE rem.assignee
  BY <1>1 DEF merged, mergeHAProjection, Item
<1>4. MergedTags(c, item, E) = c.tags
  BY <1>2, <1>3 DEF MergedTags
<1>5. MergedRules(c, item, E) = c.rules
  <2>1. CASE "Frequency" \in E
    <3>1. Understood(desc)
      BY <2>1 DEF Editable, HAProjectionFrequency
    <3>2. FrequencyLabel(merged) = desc.values["Frequency"]
      BY <2>1, <3>1, MergedLabel
    <3>3. FrequencyLabel(item) = desc.values["Frequency"]
      <4>1. /\ item.projected = desc.values["Frequency"]
            /\ item.projected \in {"once", "daily", "weekly"}
        BY <2>1, <3>1 DEF item, haItem, Editable, HAProjectionFrequency
      <4> QED
        BY <4>1 DEF FrequencyLabel
    <3>4. FrequencyLabel(c) = FrequencyLabel(merged)
      BY <1>2 DEF FrequencyLabel
    <3> QED
      BY <3>2, <3>3, <3>4 DEF MergedRules
  <2>2. CASE "Frequency" \notin E
    BY <2>2 DEF MergedRules
  <2> QED
    BY <2>1, <2>2
<1>6. again = [c EXCEPT !.assignee = IF "Assignee" \in E THEN item.assignee
                                     ELSE @]
  BY <1>1, <1>2, <1>3, <1>4, <1>5 DEF mergeHAProjection, Item
<1>7. c = [again EXCEPT !.assignee = c.assignee]
  BY <1>1, <1>6 DEF Item
<1>8. again.assignee = IF "Assignee" \in E THEN item.assignee ELSE c.assignee
  BY <1>1, <1>6 DEF Item
<1> QED
  BY <1>1, <1>2, <1>3, <1>7, <1>8 DEF CanAssign

(* Where iCloud refuses the assignee, the rest is taken over. *)
LEMMA RefusedTaken ==
    ASSUME TypeOK, AssigneeRefused
    PROVE  haChanged' /\ Taken'
<1> DEFINE c == [merged EXCEPT !.assignee = rem.assignee]
<1>1. c \in Reminder /\ merged \in Item
  BY Merging
<1>2. rem' = c /\ UNCHANGED <<desc, haDue, hash>> /\ haChanged
      /\ ~CanAssign(merged)
  BY DEF AssigneeRefused
<1>3. haChanged' /\ item' = item
  BY <1>2 DEF haChanged, item
<1>4. merged' = mergeHAProjection(c, item, Editable(desc))
  BY <1>2, <1>3 DEF merged
<1>5. /\ merged'.assignee = merged.assignee
      /\ c = [merged' EXCEPT !.assignee = c.assignee]
  BY <1>1, <1>2, <1>4, MergedTwice
<1> QED
  BY <1>2, <1>3, <1>5 DEF Taken, CanAssign

(* What each of the outcomes of a pass leaves. *)
LEMMA PassSettles ==
    ASSUME TypeOK, Pass
    PROVE  /\ Settled' \/ Published' \/ (haChanged' /\ Taken')
           /\ haChanged /\ Taken => Settled' \/ Published'
           /\ Settled \/ Published => Settled'
<1> DEFINE same == UNCHANGED <<rem, desc, haDue, hash>>
<1>0. same => /\ remChanged' <=> remChanged
              /\ haChanged' <=> haChanged
              /\ Taken' <=> Taken
  BY DEF remChanged, haChanged, Taken, merged, item
<1>1. CASE DoNothing
  BY <1>0, <1>1 DEF DoNothing, Settled
<1>2. CASE UpdateHA
  <2>1. Published'
    BY <1>2 DEF UpdateHA, Publish, Published
  <2>2. ~Settled /\ ~Published
    BY <1>2, PublishedFacts DEF UpdateHA, Settled
  <2> QED
    BY <2>1, <2>2
<1>3. CASE UpdateRem
  <2>1. Published'
    BY <1>3 DEF UpdateRem, Publish, Published
  <2>2. ~(haChanged /\ Taken) /\ ~Settled
    BY <1>3 DEF UpdateRem, Taken, Settled
  <2>3. ASSUME Published PROVE Settled'
    <3>1. rem' = Normal(rem) /\ rem \in Reminder
      BY <1>3, <2>3, PublishedFacts DEF UpdateRem, TypeOK
    <3>2. ProjectionHash(item') = hash' /\ ProjectionHash(rem') = hash'
      BY <2>1, <3>1, NormalEcho DEF Published, item
    <3>3. ~remChanged' /\ ~haChanged'
      BY <3>2 DEF remChanged, haChanged
    <3> QED
      BY <3>3 DEF Settled
  <2> QED
    BY <2>1, <2>2, <2>3
<1>4. CASE AssigneeRefused
  <2>1. haChanged' /\ Taken' /\ ~remChanged /\ haChanged /\ ~CanAssign(merged)
    BY <1>4, RefusedTaken DEF AssigneeRefused
  <2>2. ~Published
    BY <2>1, PublishedFacts
  <2>3. ASSUME Taken PROVE Settled'
    <3>1. rem' = rem /\ UNCHANGED <<desc, haDue, hash>>
      BY <1>4, <2>3 DEF AssigneeRefused, Taken
    <3> QED
      BY <1>0, <2>1, <3>1 DEF Settled
  <2> QED
    BY <2>1, <2>2, <2>3 DEF Settled
<1> QED
  BY <1>1, <1>2, <1>3, <1>4 DEF Pass

LEMMA SettlingStep ==
    ASSUME TypeOK, Settling, [Next \/ UnreadPass]_vars
    PROVE  Settling'
<1>1. CASE UNCHANGED vars
  BY <1>1
  DEF vars, Settling, Settled, Published, Taken, remChanged, haChanged, merged, item
<1>2. CASE EditReminder \/ EditDescription \/ EditDue \/ UnreadPass
  <2>1. quiet' = 0
    BY <1>2 DEF EditReminder, EditDescription, EditDue, UnreadPass, UnreadFetch,
                UnreadUpdate, Edit
  <2> QED
    BY <2>1 DEF Settling
<1>3. CASE Pass
  <2>1. quiet \in 0 .. 3 /\ quiet' = IF quiet < 3 THEN quiet + 1 ELSE quiet
    BY <1>3 DEF Pass, TypeOK, Enough
  <2> QED
    BY <1>3, <2>1, PassSettles DEF Settling
<1> QED
  BY <1>1, <1>2, <1>3 DEF Next

LEMMA SettlingInitially == Init => TypeOK /\ Settling
<1>1. ASSUME Init PROVE Settling
  BY <1>1 DEF Init, Settling
<1> QED
  BY <1>1, InitTyped

LEMMA SettlingIsInStep == Settling => InStep
BY DEF Settling, Settled, Taken, InStep, Enough

(* Three passes after the last edit, or the last pass that could not read an
   assignment, a pair is in step, but for an assignee that iCloud refuses: for
   all notes, due times, time zones, recurrences and descriptions. *)
THEOREM ThreePassesSettle == Spec => []InStep
<1>1. TypeOK /\ Settling /\ [Next]_vars => Settling'
  BY SettlingStep
<1> QED
  BY <1>1, SettlingInitially, SettlingIsInStep, TypeCorrect, PTL DEF Spec

THEOREM ThreePassesSettleUnread == UnreadSpec => []InStep
<1>1. TypeOK /\ Settling /\ [Next \/ UnreadPass]_vars => Settling'
  BY SettlingStep
<1> QED
  BY <1>1, SettlingInitially, SettlingIsInStep, TypeCorrectUnread, PTL
  DEF UnreadSpec
===============================================================================
