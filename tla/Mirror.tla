-------------------------------- MODULE Mirror --------------------------------
(***************************************************************************)
(* What the relay promises, whatever the order of its calls: the two sides *)
(* as sets of tasks, the pairs it has linked, and the only things it may   *)
(* do to them.  There are no passes here, no snapshots, no failures and no *)
(* contents.  Reconciler and Bootstrap implement it.                       *)
(*                                                                         *)
(* What users do, and the recurrence of reminders, is counted: the relay   *)
(* acts on both sides too, and is told apart from them by acting without   *)
(* being counted.                                                          *)
(***************************************************************************)
EXTENDS Naturals, FiniteSets

CONSTANTS
    RemUIDs, HAUIDs,   \* UIDs of the two sides; never reused
    MaxCopies          \* items one addition can leave, its retries included

VARIABLES
    reminders,  \* the reminders there are
    items,      \* the items there are
    pairs,      \* the linked pairs
    remIssued, haIssued,   \* UIDs handed out so far
    tasks,      \* tasks made by users and by recurrence
    edits       \* edits and deletions by users

vars == <<reminders, items, pairs, remIssued, haIssued, tasks, edits>>

LinkedReminders == {p[1] : p \in pairs}
LinkedItems     == {p[2] : p \in pairs}

(* Pairs are one to one. *)
OneToOne == \A p, q \in pairs : (p[1] = q[1]) <=> (p[2] = q[2])

(* What is there, or linked, has been handed out. *)
Known ==
    /\ reminders \subseteq remIssued /\ items \subseteq haIssued
    /\ pairs \subseteq remIssued \X haIssued

TypeOK ==
    /\ remIssued \subseteq RemUIDs /\ haIssued \subseteq HAUIDs
    /\ tasks \in Nat /\ edits \in Nat

Init == TypeOK /\ Known /\ OneToOne /\ pairs \subseteq reminders \X items

-------------------------------------------------------------------------------
(* Users, and recurrence. *)
NewReminder ==
    /\ \E r \in RemUIDs \ remIssued :
         /\ reminders' = reminders \cup {r}
         /\ remIssued' = remIssued \cup {r}
    /\ tasks' = tasks + 1
    /\ UNCHANGED <<items, pairs, haIssued, edits>>

NewItem ==
    /\ \E h \in HAUIDs \ haIssued :
         /\ items' = items \cup {h}
         /\ haIssued' = haIssued \cup {h}
    /\ tasks' = tasks + 1
    /\ UNCHANGED <<reminders, pairs, remIssued, edits>>

Edit ==
    /\ \/ UNCHANGED <<reminders, items>>
       \/ UNCHANGED items /\ \E r \in reminders : reminders' = reminders \ {r}
       \/ UNCHANGED reminders /\ \E h \in items : items' = items \ {h}
    /\ edits' = edits + 1
    /\ UNCHANGED <<pairs, remIssued, haIssued, tasks>>

(* The relay copies what has no counterpart: a task that is linked is never
   made again on the other side. *)
CopyItem ==
    /\ haIssued \ LinkedItems # {}
    /\ \E r \in RemUIDs \ remIssued :
         /\ reminders' = reminders \cup {r}
         /\ remIssued' = remIssued \cup {r}
    /\ UNCHANGED <<items, pairs, haIssued, tasks, edits>>

(* If the copy is recurring and completed, its next occurrence is what is left,
   unless that is taken back, and the completed one is archived: recurrence
   has made a task. *)
CopyRecurring ==
    /\ haIssued \ LinkedItems # {}
    /\ \E r, a \in RemUIDs \ remIssued :
         /\ r # a
         /\ reminders' \in {reminders \cup {r, a}, reminders \cup {a}}
         /\ remIssued' = remIssued \cup {r, a}
    /\ tasks' = tasks + 1
    /\ UNCHANGED <<items, pairs, haIssued, edits>>

CopyReminder ==
    /\ remIssued \ LinkedReminders # {}
    /\ \E copies \in SUBSET (HAUIDs \ haIssued) :
         /\ IsFiniteSet(copies) /\ Cardinality(copies) <= MaxCopies
         /\ items' = items \cup copies
         /\ haIssued' = haIssued \cup copies
    /\ UNCHANGED <<reminders, pairs, remIssued, tasks, edits>>

(* It links what is not linked, and never links anew. *)
Link ==
    /\ \E r \in remIssued \ LinkedReminders, h \in haIssued \ LinkedItems :
         pairs' = pairs \cup {<<r, h>>}
    /\ UNCHANGED <<reminders, items, remIssued, haIssued, tasks, edits>>

(* It deletes a copy when the linked one is gone, and forgets a pair when both
   are. *)
MirrorDeletion ==
    /\ \E p \in pairs :
         \/ /\ p[1] \notin reminders /\ p[2] \in items
            /\ items' = items \ {p[2]} /\ UNCHANGED reminders
         \/ /\ p[2] \notin items /\ p[1] \in reminders
            /\ reminders' = reminders \ {p[1]} /\ UNCHANGED items
    /\ UNCHANGED <<pairs, remIssued, haIssued, tasks, edits>>

Forget ==
    /\ \E p \in pairs :
         /\ p[1] \notin reminders /\ p[2] \notin items
         /\ pairs' = pairs \ {p}
    /\ UNCHANGED <<reminders, items, remIssued, haIssued, tasks, edits>>

Next ==
    \/ NewReminder \/ NewItem \/ Edit
    \/ CopyItem \/ CopyRecurring \/ CopyReminder \/ Link \/ MirrorDeletion \/ Forget

Spec == Init /\ [][Next]_vars
===============================================================================
