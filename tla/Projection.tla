------------------------------ MODULE Projection -------------------------------
(***************************************************************************)
(* What becomes of one linked pair when reminders and to-do items do not   *)
(* hold the same: the typed description of internal/model/metadata.go, the *)
(* due dates of internal/homeassistant/convert.go, the hashes and the      *)
(* merge.  Reconciler compares and copies projections whole; here they are *)
(* converted, a pass over the pair is one step, and users act between      *)
(* passes.  Title and status are left out: both sides hold them as is.     *)
(***************************************************************************)
EXTENDS Integers

CONSTANTS
    None,          \* no date, nobody
    Texts,         \* what notes may say
    Blank,         \* the empty text
    Raw,           \* a typed description, taken as text
    Tags,
    Participants,  \* of the shared list: whom a reminder can be assigned to
    Strangers,     \* other names a user of HA may write
    Natives,       \* days, ends, ... of a recurrence rule: iCloud has them only
    Plain,         \* that of a rule without any
    Intervals,     \* of recurrence rules
    Zone,          \* hours by which EventKit's dates are ahead of UTC
    Instants,      \* due times users set, in hours
    RuleSets,      \* recurrences users of Reminders set
    Documents,     \* descriptions users of HA write
    MaxEdits       \* bound: edits by users

Priorities == {"None", "High", "Medium", "Low"}

Notes   == [text : Texts \cup {Blank, Raw}, padded : BOOLEAN]
Trim(n) == [n EXCEPT !.padded = FALSE]
NoNotes == [text |-> Blank, padded |-> FALSE]
RawText == [text |-> Raw, padded |-> FALSE]

-------------------------------------------------------------------------------
(***************************************************************************)
(* Items.  A reminder's rules are all it says about its frequency, a       *)
(* to-do item may name one it has no rule for.                             *)
(***************************************************************************)
Rule == [freq : {"daily", "weekly", "monthly"}, interval : Intervals,
         native : Natives]

Simple(f) == [freq |-> f, interval |-> 1, native |-> Plain]

Labels == {"once", "daily", "weekly", "custom", "other", ""}

Item == [notes : Notes, due : Int \cup {None}, prio : Priorities,
         tags : SUBSET Tags, assignee : Participants \cup Strangers \cup {None},
         rules : SUBSET Rule, projected : Labels]

Reminder ==
    {i \in Item : i.assignee \in Participants \cup {None} /\ i.projected = ""}

Single(rules, f) == \E r \in rules : rules = {r} /\ r.interval = 1 /\ r.freq = f

FrequencyLabel(i) ==
    IF i.projected # "" THEN i.projected
    ELSE IF i.rules = {} THEN "once"
    ELSE IF Single(i.rules, "daily") THEN "daily"
    ELSE IF Single(i.rules, "weekly") THEN "weekly"
    ELSE "custom"

ProjectionHash(i) ==
    [notes |-> i.notes, due |-> i.due, prio |-> i.prio, tags |-> i.tags,
     assignee |-> i.assignee, frequency |-> FrequencyLabel(i)]

-------------------------------------------------------------------------------
(***************************************************************************)
(* Due dates.  At midnight only the day is written; it is read back as     *)
(* midnight UTC.                                                           *)
(***************************************************************************)
Midnight(t) == (t + Zone) % 24 = 0

formatDue(t) ==
    IF t = None THEN [form |-> "none", at |-> 0]
    ELSE IF Midnight(t) THEN [form |-> "date", at |-> t + Zone]
    ELSE [form |-> "time", at |-> t]

parseDue(d) == IF d.form = "none" THEN None ELSE d.at

(***************************************************************************)
(* Descriptions: the keys of the YAML mapping and their values, and        *)
(* whether these have the types that the keys ask for.  Without a key it   *)
(* is a text, after the prefix for a priority.                             *)
(***************************************************************************)
Nothing == [Assignee |-> None, Tags |-> {}, Priority |-> "None",
            Notes |-> NoNotes, Frequency |-> "once"]

Keys == DOMAIN Nothing

Description ==
    [keys   : SUBSET Keys,
     values : [Assignee : Participants \cup Strangers \cup {None},
               Tags : SUBSET Tags, Priority : Priorities, Notes : Notes,
               Frequency : Labels],
     valid  : BOOLEAN, text : Notes, prefix : Priorities]

PlainText(n, p) ==
    [keys |-> {}, values |-> Nothing, valid |-> TRUE, text |-> n, prefix |-> p]

Typed(K, values, valid) ==
    [keys |-> K, values |-> [k \in Keys |-> IF k \in K THEN values[k]
                                                      ELSE Nothing[k]],
     valid |-> valid, text |-> RawText, prefix |-> "None"]

(* Empty fields are omitted. *)
EncodeHADescription(i) ==
    LET shown == [Assignee |-> i.assignee, Tags |-> i.tags, Priority |-> i.prio,
                  Notes |-> Trim(i.notes), Frequency |-> FrequencyLabel(i)]
        written == {k \in Keys : shown[k] # Nothing[k]}
    IN  IF written = {} THEN PlainText(NoNotes, "None")
                        ELSE Typed(written, shown, TRUE)

(* A mapping whose values have other types is text as a whole. *)
Understood(d) == d.valid /\ d.keys # {}

Field(d, k) == IF Understood(d) THEN d.values[k] ELSE Nothing[k]

recurrenceForLabel(f) == IF f \in {"daily", "weekly"} THEN {Simple(f)} ELSE {}

(* ... but its keys still count as fields. *)
HAProjectionFrequency(d) ==
    IF Understood(d) /\ "Frequency" \in d.keys THEN d.values["Frequency"] ELSE ""

haItem(d, due) ==
    [notes     |-> Trim(IF Understood(d) THEN Field(d, "Notes") ELSE d.text),
     due       |-> parseDue(due),
     prio      |-> IF Understood(d) THEN Field(d, "Priority") ELSE d.prefix,
     tags      |-> Field(d, "Tags"),
     assignee  |-> Field(d, "Assignee"),
     rules     |-> recurrenceForLabel(Field(d, "Frequency")),
     projected |-> HAProjectionFrequency(d)]

(* Mutant: whatever HA shows can be edited. *)
EveryKey(d) == Keys

Editable(d) ==
    {k \in d.keys : k = "Frequency" =>
        HAProjectionFrequency(d) \in {"once", "daily", "weekly"}}

(* c is the reminder, p the item as read, E what it may edit. *)
(* Mutant: an empty list of tags is taken for none. *)
MergedNonEmpty(c, p, E) == IF "Tags" \in E /\ p.tags # {} THEN p.tags ELSE c.tags

MergedTags(c, p, E) == IF "Tags" \in E THEN p.tags ELSE c.tags

(* Mutant: labels are not compared. *)
MergedAnyLabel(c, p, E) == IF "Frequency" \in E THEN p.rules ELSE c.rules

MergedRules(c, p, E) ==
    IF "Frequency" \in E /\ FrequencyLabel(p) # FrequencyLabel(c) THEN p.rules
    ELSE c.rules

mergeHAProjection(c, p, E) ==
    [c EXCEPT !.notes = p.notes, !.due = p.due, !.prio = p.prio,
              !.assignee = IF "Assignee" \in E THEN p.assignee ELSE @,
              !.tags = MergedTags(c, p, E),
              !.rules = MergedRules(c, p, E)]

ASSUME ConstantsAssumption ==
    /\ None \notin Participants \cup Strangers \cup Int
    /\ Blank # Raw /\ Participants \cap Strangers = {}
    /\ Plain \in Natives
    /\ 1 \in Intervals
    /\ Zone \in -12 .. 14
    /\ Instants \subseteq Int
    /\ RuleSets \subseteq SUBSET Rule
    /\ Documents \subseteq Description
    /\ MaxEdits \in Nat

-------------------------------------------------------------------------------
VARIABLES
    rem,      \* the reminder, as reminderToItem returns it
    desc,     \* the description of the to-do item
    haDue,    \* ... and its due date
    hash,     \* LastSyncHash of the row
    edits,    \* bound: edits so far
    touched,  \* history: HA's copy was edited, and no pass was through since
    quiet     \* history: passes since a user did anything, up to Enough

vars == <<rem, desc, haDue, hash, edits, touched, quiet>>

(* Passes after which a pair is to be in step. *)
Enough == 3

item   == haItem(desc, haDue)
merged == mergeHAProjection(rem, item, Editable(desc))

(* What users of Reminders set. *)
Wanted ==
    [notes : Notes, due : Instants \cup {None}, prio : Priorities,
     tags : SUBSET Tags, assignee : Participants \cup {None},
     rules : RuleSets, projected : {""}]

Init ==
    /\ rem \in Wanted
    /\ desc = EncodeHADescription(rem)
    /\ haDue = formatDue(rem.due)
    /\ hash = ProjectionHash(rem)
    /\ edits = 0
    /\ touched = FALSE
    /\ quiet = 0

Edit == edits < MaxEdits /\ edits' = edits + 1 /\ quiet' = 0

EditReminder ==
    /\ Edit
    /\ \/ \E n \in Notes : rem' = [rem EXCEPT !.notes = n]
       \/ \E t \in Instants \cup {None} : rem' = [rem EXCEPT !.due = t]
       \/ \E p \in Priorities : rem' = [rem EXCEPT !.prio = p]
       \/ \E T \in SUBSET Tags : rem' = [rem EXCEPT !.tags = T]
       \/ \E a \in Participants \cup {None} : rem' = [rem EXCEPT !.assignee = a]
       \/ \E R \in RuleSets : rem' = [rem EXCEPT !.rules = R]
    /\ UNCHANGED <<desc, haDue, hash, touched>>

EditDescription ==
    /\ Edit
    /\ desc' \in Documents
    /\ touched' = TRUE
    /\ UNCHANGED <<rem, haDue, hash>>

(* HA's dates have no zone. *)
EditDue ==
    /\ Edit
    /\ \/ haDue' = formatDue(None)
       \/ \E t \in Instants : \/ haDue' = [form |-> "time", at |-> t]
                              \/ haDue' = [form |-> "date", at |-> t - (t % 24)]
    /\ touched' = TRUE
    /\ UNCHANGED <<rem, desc, hash>>

-------------------------------------------------------------------------------
(* A pass: decide and execute. *)
remChanged == ProjectionHash(rem) # hash
haChanged  == ProjectionHash(item) # hash

Through == touched' = FALSE

(* Mutant: the row keeps the hash of what was read, not of what was written. *)
PublishStale(i) ==
    /\ desc' = EncodeHADescription(i)
    /\ haDue' = formatDue(i.due)
    /\ hash' = ProjectionHash(item)

(* UpdateItem with reminder i, and UpsertItem. *)
Publish(i) ==
    /\ desc' = EncodeHADescription(i)
    /\ haDue' = formatDue(i.due)
    /\ hash' = ProjectionHash(i)

DoNothing ==
    /\ ~remChanged /\ ~haChanged
    /\ Through
    /\ UNCHANGED <<rem, desc, haDue, hash>>

UpdateHA ==
    /\ remChanged
    /\ Publish(rem)
    /\ Through
    /\ UNCHANGED rem

(* Mutant: whoever HA names is assigned. *)
CanAssignAnyone(i) == TRUE

CanAssign(i) == i.assignee \in Participants \cup {None}

UpdateRem ==
    /\ ~remChanged /\ haChanged
    /\ CanAssign(merged)
    /\ rem' = merged
    /\ Publish(merged)
    /\ Through

(* Adapter.Update writes the fields first, and then cannot assign it. *)
AssigneeRefused ==
    /\ ~remChanged /\ haChanged
    /\ ~CanAssign(merged)
    /\ rem' = [merged EXCEPT !.assignee = rem.assignee]
    /\ UNCHANGED <<desc, haDue, hash, touched>>

Pass ==
    /\ DoNothing \/ UpdateHA \/ UpdateRem \/ AssigneeRefused
    /\ quiet' = IF quiet < Enough THEN quiet + 1 ELSE quiet
    /\ UNCHANGED edits

Next == EditReminder \/ EditDescription \/ EditDue \/ Pass

Spec == Init /\ [][Next]_vars

-------------------------------------------------------------------------------
(***************************************************************************)
(* Passes that cannot read whom the reminder is assigned to; they count    *)
(* with the edits.                                                         *)
(***************************************************************************)
(* FetchAll returns it as assigned to nobody. *)
unread == [rem EXCEPT !.assignee = None]

unreadMerged == mergeHAProjection(unread, item, Editable(desc))

unreadChanged == ProjectionHash(unread) # hash

LeaveAssignee(i) == [i EXCEPT !.assignee = rem.assignee]

(* Update reads it again: if it can now, whom HA did not name is unassigned. *)
UnreadFetch ==
    /\ Edit
    /\ \/ /\ unreadChanged
          /\ Publish(unread) /\ Through /\ UNCHANGED rem
       \/ /\ ~unreadChanged /\ ~haChanged
          /\ Through /\ UNCHANGED <<rem, desc, haDue, hash>>
       \/ /\ ~unreadChanged /\ haChanged /\ CanAssign(unreadMerged)
          /\ \/ rem' = unreadMerged
             \/ unreadMerged.assignee = None /\ rem' = LeaveAssignee(unreadMerged)
          /\ Publish(unreadMerged) /\ Through
       \/ /\ ~unreadChanged /\ haChanged /\ ~CanAssign(unreadMerged)
          /\ rem' = LeaveAssignee(unreadMerged)
          /\ UNCHANGED <<desc, haDue, hash, touched>>

(* updateAssignment cannot read it: nobody is unassigned, but nobody returned. *)
UnreadUpdate ==
    /\ Edit
    /\ ~remChanged /\ haChanged
    /\ merged.assignee = None
    /\ rem' = LeaveAssignee(merged)
    /\ Publish(merged) /\ Through

UnreadPass == UnreadFetch \/ UnreadUpdate

UnreadSpec == Init /\ [][Next \/ UnreadPass]_vars

-------------------------------------------------------------------------------
(* Every variable keeps its type; above all the reminder stays one that
   iCloud can hold: nobody but participants of the list is ever assigned. *)
TypeOK ==
    /\ rem \in Reminder
    /\ desc \in Description
    /\ haDue \in [form : {"none", "date", "time"}, at : Int]
    /\ hash \in [notes : Notes, due : Int \cup {None}, prio : Priorities,
                 tags : SUBSET Tags, frequency : Labels,
                 assignee : Participants \cup Strangers \cup {None}]
    /\ edits \in 0 .. MaxEdits
    /\ touched \in BOOLEAN
    /\ quiet \in 0 .. Enough

(* Conversions settle (convert.go, metadata.go): left alone, a pair is in step
   after three passes at most and stays so, whatever was edited on both sides.
   The exception is an assignee that iCloud refuses: if nothing else differs,
   every pass tries again and fails. *)
InStep ==
    quiet = Enough =>
        /\ ~remChanged
        /\ haChanged => /\ ~CanAssign(merged)
                        /\ rem = [merged EXCEPT !.assignee = rem.assignee]

(* What a reminder becomes by going to HA and back: notes are trimmed, and a
   due time at midnight moves to midnight UTC. *)
Normal(i) == [i EXCEPT !.notes = Trim(@), !.due = parseDue(formatDue(@))]

(* Unless a user of HA edited the item, a pass does nothing to the reminder
   but that: tags, assignee, priority and all of the recurrence survive their
   coarse projection (execute, mergeHAProjection). *)
Unasked == [][Pass /\ ~touched => rem' \in {rem, Normal(rem)}]_vars

(* An edit in HA of a field that HA may edit is still there after the pass
   that brought it to iCloud and echoed iCloud's answer: also where it
   clears the field, or makes the recurrence a simple one (execute). *)
EditsSurvive ==
    [][ UpdateRem /\ Understood(desc) =>
          \A k \in Editable(desc) :
              desc'.values[k] = IF k = "Notes" THEN Trim(desc.values[k])
                                ELSE desc.values[k] ]_vars

(* "omitting these fields preserves the canonical values" (README.md:169), for
   the recurrence too, and for whatever is not a typed description. *)
OmittedKept ==
    [][ Pass => /\ "Tags" \notin desc.keys => rem'.tags = rem.tags
                /\ "Assignee" \notin desc.keys => rem'.assignee = rem.assignee
                /\ "Frequency" \notin desc.keys => rem'.rules = rem.rules ]_vars

(* The same where the assignment could not be read: "omitting these fields
   preserves the canonical values" (README.md:169). *)
UnreadKept ==
    [][ UnreadPass => ("Assignee" \notin desc.keys =>
                         rem'.assignee = rem.assignee) ]_vars

(* "Malformed or manually removed metadata is treated as absent"
   (metadata.go:61): a description that does not decode clears nothing. *)
MalformedKept ==
    [][ Pass /\ ~desc.valid =>
          rem'.tags = rem.tags /\ rem'.assignee = rem.assignee ]_vars

===============================================================================
