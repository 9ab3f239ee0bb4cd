--------------------------- MODULE ReconcilerHistory ---------------------------
(***************************************************************************)
(* Reconciler with a history variable: the reminders that a user of iCloud *)
(* has edited since they last agreed with their row.  From the reminders   *)
(* and rows alone one cannot tell such an edit from one made in HA that a  *)
(* pass has carried over, and failed to record.                            *)
(***************************************************************************)
EXTENDS ReconcilerInvariant

VARIABLE edited   \* reminders a user has edited, not yet recorded in their row

historyvars == <<vars, edited>>

Agrees(r) == db[r] # None /\ rem[r] # None /\ rem[r].proj = db[r].hash

Record ==
    edited' = {r \in RemUIDs : /\ r \in edited \/ (User /\ rem'[r] # rem[r])
                               /\ ~Agrees(r)'}

HistorySpec ==
    Init /\ edited = {} /\ [][Next /\ Record]_historyvars

(* While nothing has failed, a reminder and its row differ because a user has
   edited the reminder, or because the pass is writing both. *)
EditsKnown ==
    /\ edited \subseteq RemUIDs
    /\ faults = 0 /\ crashes = 0 =>
         \A r \in Tracked :
           rem[r] = None \/ Agrees(r) \/ r \in edited \/ (cur # None /\ cur.rem = r)

(* An item that shows what a user has made of it, and not what both sides have
   agreed on, is overwritten only with what the pass has made of the very edit
   it shows, or because a user has edited the reminder as well. *)
Overwritten(r) ==
    LET h == db[r].ha IN
    /\ ha[h] # None /\ ha[h].canon = None /\ ha[h].proj # db[r].hash
    /\ ha'[h] # None /\ ha'[h].proj # ha[h].proj

HAEditKept(r) ==
    Overwritten(r) => \/ pc = "echo" /\ cur.rem = r /\ ha[db[r].ha] = haSnap[db[r].ha]
                      \/ r \in edited

(* Unless something has failed before, an edit made in HA is lost only to a
   competing edit made in iCloud. *)
HAEditsPropagate ==
    [][ \/ User
        \/ faults = 0 /\ crashes = 0 => \A r \in Tracked : HAEditKept(r)
      ]_historyvars

(* What the documentation says of edits, failures or not. *)
HAEditsNeverLost == [][User \/ \A r \in Tracked : HAEditKept(r)]_historyvars
===============================================================================
