-------------------------- MODULE ReconcilerInvariant --------------------------
(***************************************************************************)
(* The inductive invariant behind the safety properties of Reconciler.     *)
(* TLC checks it on small instances, ReconcilerProofs proves it.           *)
(***************************************************************************)
EXTENDS Reconciler

(* What the registers of the pass hold at each point of it. *)
Shape ==
    /\ pc \in {"idle", "fetched", "loop"} => cur = None /\ add = None
    /\ pc \in {"drop", "echo", "save"} => cur \in Work /\ add = None
    /\ pc \in {"archive", "before", "link"} => cur \in Work
    /\ pc \in {"archive", "before", "add", "after", "apply", "saveNew", "link"}
         => add \in Adding
    /\ pc \in {"apply", "saveNew", "link"} => add.ha \in HAUIDs
    /\ cur # None /\ add # None => haSnap[cur.ha] # None
    /\ pc \in {"idle", "fetched"} => todo = {} /\ newRem = {} /\ newHA = {}
    /\ todo \subseteq Tracked
    /\ newRem \subseteq Present(remSnap)
    /\ newHA \subseteq Present(haSnap)
    /\ cur # None => cur.rem \notin todo

(* Every UID in use has been handed out, so a fresh one is nowhere in use. *)
Issued ==
    /\ Present(rem) \cup Present(remSnap) \cup Tracked \subseteq remIssued
    /\ Present(ha) \cup Present(haSnap) \cup LinkedHA \subseteq haIssued
    /\ cur # None => cur.rem \in remIssued /\ cur.ha \in haIssued
    /\ add # None => add.rem \in remIssued
    /\ \A l \in links : l.rem \in remIssued

(* Rows name distinct HA items. *)
Injective == \A r, s \in Tracked : db[r].ha = db[s].ha => r = s

(* What the pass still takes for new has no row, and is not in work. *)
StillNew ==
    /\ newRem \cap Tracked = {}
    /\ newHA \cap LinkedHA = {}
    /\ cur # None => cur.rem \notin newRem /\ cur.ha \notin newHA
    /\ add # None => add.rem \notin newRem

(* The item in work either has its row, with that HA item, or is new on both
   sides. *)
CurrentRow ==
    cur # None =>
      \/ cur.rem \in Tracked /\ db[cur.rem].ha = cur.ha
      \/ /\ pc \in {"echo", "save"}
         /\ cur.rem \notin Tracked /\ cur.ha \notin LinkedHA

(* While an item is being added its reminder has no row, and nothing that could
   be taken for the new HA item is linked or waits to be imported. *)
AddedRow ==
    /\ pc \in {"archive", "before", "add", "after", "apply", "saveNew"}
         => add.rem \notin Tracked
    /\ pc \in {"add", "after"} => (newHA \cup LinkedHA) \cap Candidates = {}
    /\ pc \in {"apply", "saveNew"} => add.ha \notin newHA \cup LinkedHA
    /\ pc \in {"apply", "saveNew"} => add.ha \in haIssued
    /\ pc = "link" => add.rem \in Tracked /\ db[add.rem].ha = add.ha

(* A tracked copy that the snapshots lack is gone: UIDs are not reused. *)
GoneIsGone ==
    /\ pc = "fetched" => \A r \in Tracked : remSnap[r] = None => rem[r] = None
    /\ \A r \in todo : /\ remSnap[r] = None => rem[r] = None
                       /\ HACopy(r) = None => ha[db[r].ha] = None
    /\ pc = "drop" => /\ cur.rem \in Tracked /\ db[cur.rem].ha = cur.ha
                      /\ rem[cur.rem] = None /\ ha[cur.ha] = None

(* The strengthening that is inductive; CompletionLinksResolve is part of it. *)
IInv ==
    /\ TypeOK
    /\ Shape
    /\ Issued
    /\ Injective
    /\ StillNew
    /\ CurrentRow
    /\ AddedRow
    /\ GoneIsGone
    /\ CompletionLinksResolve

-------------------------------------------------------------------------------
(***************************************************************************)
(* While users act between passes only, more is true: what a pass has read *)
(* and not yet acted on is still so, and every task is accounted for.      *)
(***************************************************************************)
(* The snapshots show the tasks still to be visited, or created, as they are. *)
ReadIsCurrent ==
    /\ pc = "fetched" => remSnap = rem
    /\ \A r \in todo : remSnap[r] = rem[r] /\ HACopy(r) = ha[db[r].ha]
    /\ \A r \in newRem : remSnap[r] = rem[r]
    /\ \A h \in newHA : haSnap[h] = ha[h]

(* The item in work is what the pass has made of its reminder; until that is
   echoed, a tracked HA item still shows the edit that the pass carries over. *)
WorkIsCurrent ==
    /\ cur # None /\ pc # "drop" =>
         rem[cur.rem] # None /\ rem[cur.rem].proj = cur.proj
    /\ pc = "save" => ha[cur.ha] = Item(cur.proj)
    /\ cur # None /\ pc \notin {"drop", "save"} =>
         /\ haSnap[cur.ha] = ha[cur.ha] /\ ha[cur.ha] # None
         /\ cur.rem \in Tracked => ha[cur.ha].proj # db[cur.rem].hash
    /\ pc \in {"archive", "before", "add", "after", "apply", "saveNew"} =>
         rem[add.rem] # None /\ rem[add.rem].proj = add.proj
    /\ pc = "add" => add.before = Present(ha)
    /\ pc = "after" /\ faults = 0 => \E h \in HAUIDs : Candidates = {h}
    /\ pc \in {"apply", "saveNew"} => ha[add.ha] # None

(* Reminders that have still to be copied to HA, and items to Reminders: no row
   names them, and the pass is not about to write one. *)
WaitingReminders ==
    {r \in Present(rem) \ Tracked :
        /\ pc \in {"after", "apply", "saveNew"} => r # add.rem
        /\ pc \in {"echo", "save"} => r # cur.rem}

WaitingItems ==
    {h \in Present(ha) \ LinkedHA :
        /\ pc = "after" => h \notin Candidates
        /\ pc \in {"apply", "saveNew"} => h # add.ha
        /\ pc \in {"echo", "save"} => h # cur.ha}

(* Unless something failed, what was copied and what has still to be copied are
   together no more than the tasks that users, and recurrence, have made. *)
CopiesCounted ==
    faults = 0 /\ crashes = 0 =>
        /\ Cardinality(haIssued) + Cardinality(WaitingReminders) <= tasks
        /\ Cardinality(remIssued) + Cardinality(WaitingItems) <= tasks

QuietInv ==
    /\ ReadIsCurrent
    /\ WorkIsCurrent
    /\ IsFiniteSet(remIssued) /\ IsFiniteSet(haIssued)
    /\ CopiesCounted
===============================================================================
