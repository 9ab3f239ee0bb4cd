------------------------------- MODULE Bootstrap -------------------------------
(***************************************************************************)
(* The life of the process around the passes of Reconciler: each start     *)
(* looks at the database and, if it is empty, goes through the first-run   *)
(* bootstrap of internal/sync/bootstrap.go - fetch both sides, match,      *)
(* ask, link and create - before the engine takes over.  An error or a     *)
(* refusal ends the process, and launchd or the user starts it again.      *)
(*                                                                         *)
(* The calls are those of a pass, so their actions are Reconciler's; what  *)
(* differs is their order and that the first failure is the last step.     *)
(***************************************************************************)
EXTENDS ReconcilerInvariant, SequencesExt

CONSTANTS
    SameTitle(_, _),   \* do two Texts show one title, case apart?
    Attended           \* does someone answer the prompt? (not under launchd)

VARIABLES
    boot,       \* start, match, run: in the bootstrap; failed: about to exit;
                \* over: the engine is running
    listed,     \* the order in which GetItems returned the items
    unvisited,  \* reminders matchByTitle has still to look at
    match,      \* matched pairs that are still to be linked
    allowed     \* history: this process found rows, or a yes

bootvars == <<boot, listed, unvisited, match, allowed>>
allvars  == <<vars, bootvars>>

BootTypeOK ==
    /\ boot \in {"start", "match", "run", "failed", "over"}
    /\ \A i \in DOMAIN listed : listed[i] \in HAUIDs
    /\ unvisited \subseteq RemUIDs
    /\ match \subseteq RemUIDs \X HAUIDs
    /\ allowed \in BOOLEAN

(* Both sides hold whatever users made of them; nothing is linked yet. *)
BootInit ==
    /\ \E p \in SUBSET RemUIDs, q \in SUBSET HAUIDs :
         /\ IsFiniteSet(p) /\ IsFiniteSet(q)
         /\ tasks = Cardinality(p) + Cardinality(q) /\ tasks <= MaxTasks
         /\ remIssued = p /\ haIssued = q
         /\ \E f \in [p -> Reminder], g \in [q -> HAItem] :
              /\ rem = [r \in RemUIDs |-> IF r \in p THEN f[r] ELSE None]
              /\ ha = [h \in HAUIDs |-> IF h \in q THEN g[h] ELSE None]
    /\ db = [r \in RemUIDs |-> None] /\ links = {}
    /\ pc = "idle"
    /\ remSnap = NoReminders /\ haSnap = NoItems
    /\ todo = {} /\ newRem = {} /\ newHA = {}
    /\ cur = None /\ add = None
    /\ edits = 0 /\ faults = 0 /\ crashes = 0
    /\ boot = "start" /\ listed = <<>>
    /\ unvisited = {} /\ match = {} /\ allowed = FALSE

(* The daemon after a bootstrap that linked something, or after a start that
   found rows: over an empty database it would stand at the prompt. *)
DaemonInit ==
    /\ Init /\ Tracked # {}
    /\ boot = "over" /\ listed = <<>>
    /\ unvisited = {} /\ match = {} /\ allowed = TRUE

-------------------------------------------------------------------------------
(* The process ends; only the database survives. *)
Exit ==
    /\ Forget
    /\ boot' = "start" /\ listed' = <<>>
    /\ unvisited' = {} /\ match' = {} /\ allowed' = FALSE
    /\ UNCHANGED <<world, store>>

(* A database with rows needs no bootstrap ... *)
Skip ==
    /\ boot = "start" /\ Tracked # {}
    /\ boot' = "over" /\ allowed' = TRUE
    /\ UNCHANGED <<vars, listed, unvisited, match>>

(* ... an empty one does: fetch the reminders, ... *)
FetchReminders ==
    /\ boot = "start" /\ Tracked = {}
    /\ FetchAll
    /\ boot' = IF pc' = "fetched" THEN "match" ELSE "start"
    /\ UNCHANGED <<listed, unvisited, match, allowed>>

(* ... then the items: with no row, all of both sides are new. *)
FetchItems ==
    /\ boot = "match"
    /\ GetItems
    /\ IF faults' = faults
       THEN listed' \in SetToSeqs(Present(ha)) /\ UNCHANGED boot
       ELSE boot' = "failed" /\ UNCHANGED listed
    /\ unvisited' = newRem'
    /\ UNCHANGED <<match, allowed>>

(***************************************************************************)
(* matchByTitle.  newHA are the items not used yet, newRem in the end the  *)
(* reminders left without a match.  It is a local computation; its steps   *)
(* are actions because the order of the reminders is EventKit's.           *)
(***************************************************************************)
Before(h, k) ==
    \E i, j \in DOMAIN listed : i < j /\ listed[i] = h /\ listed[j] = k

(* haByCanonicalUID: of the items that name r, the last one listed. *)
Canonical(r) ==
    {h \in Present(haSnap) :
       /\ haSnap[h].canon = r
       /\ \A k \in Present(haSnap) : Before(h, k) => haSnap[k].canon # r}

(* haByTitle: of the items with the title of r, the first unused one. *)
Titled(r, h) == SameTitle(remSnap[r].proj.text, haSnap[h].proj.text)

FirstOf(S) == {h \in S : \A k \in S : ~Before(k, h)}

(* Mutant: used items are not skipped. *)
CounterpartUsed(r) ==
    IF Canonical(r) # {} THEN Canonical(r)
    ELSE FirstOf({h \in Present(haSnap) : Titled(r, h)})

Counterpart(r) ==
    IF Canonical(r) \cap newHA # {} THEN Canonical(r) \cap newHA
    ELSE FirstOf({h \in newHA : Titled(r, h)})

MatchReminder(r) ==
    /\ boot = "match" /\ pc = "loop"
    /\ r \in unvisited
    /\ unvisited' = unvisited \ {r}
    /\ \/ /\ Counterpart(r) = {}
          /\ UNCHANGED <<newRem, newHA, match>>
       \/ \E h \in Counterpart(r) :
            /\ match' = match \cup {<<r, h>>}
            /\ newRem' = newRem \ {r} /\ newHA' = newHA \ {h}
    /\ UNCHANGED <<world, store, pc, remSnap, haSnap, todo, cur, add, counts,
                   boot, listed, allowed>>

(***************************************************************************)
(* confirm: the summary waits for an answer, as long as it takes.  No      *)
(* answer, the end of stdin, is a no.                                      *)
(***************************************************************************)
Asking == boot = "match" /\ pc = "loop" /\ unvisited = {}

Agree ==
    /\ Asking /\ Attended
    /\ boot' = "run" /\ allowed' = TRUE /\ listed' = <<>>
    /\ UNCHANGED <<vars, unvisited, match>>

(* Mutant: a refusal skips the bootstrap, and the daemon goes on. *)
GoOn == Forget /\ boot' = "over" /\ match' = {}
        /\ UNCHANGED <<world, store, listed, unvisited, allowed>>

Cancelled == Exit

Decline ==
    /\ Asking
    /\ Cancelled
    /\ UNCHANGED counts

(***************************************************************************)
(* execute: link the pairs, create what is left in HA, then in Reminders.  *)
(* The first failure ends it.                                              *)
(***************************************************************************)
(* Mutant: the item is left as it is. *)
PushedByHA(r, h) == haSnap[h].proj

Pushed(r, h) == remSnap[r].proj

LinkMatched(r, h) ==
    /\ boot = "run" /\ pc = "loop"
    /\ <<r, h>> \in match
    /\ match' = match \ {<<r, h>>}
    /\ UpdateItem(h, Pushed(r, h), "save",
                  [rem |-> r, ha |-> h, proj |-> Pushed(r, h)], None)
    /\ UNCHANGED <<rem, remIssued, haIssued, store, pass, users, crashes>>

Create ==
    /\ boot = "run"
    /\ match = {} \/ pc # "loop"
    /\ \/ \E r \in RemUIDs : CreateInHA(r)
       \/ \E h \in HAUIDs : CreateInReminders(h)
       \/ AddItem \/ ResolveUID \/ ApplyToAdded \/ SaveAdded
       \/ EchoToHA \/ SaveRow
    /\ UNCHANGED match

(* A step that goes on to the next item without a new row has failed. *)
(* Mutant: errors are collected, as the reconciler does. *)
Collected == FALSE

Failed == pc' = "loop" /\ db' = db

Execute ==
    /\ Create \/ \E r \in RemUIDs, h \in HAUIDs : LinkMatched(r, h)
    /\ boot' = IF Failed THEN "failed" ELSE "run"
    /\ UNCHANGED <<listed, unvisited, allowed>>

Abort ==
    /\ boot = "failed"
    /\ Exit
    /\ UNCHANGED counts

Complete ==
    /\ boot = "run" /\ match = {}
    /\ EndPass
    /\ boot' = "over"
    /\ UNCHANGED <<listed, unvisited, match, allowed>>

-------------------------------------------------------------------------------
(* The passes the engine starts. *)
Passes ==
    /\ boot = "over"
    /\ Relay
    /\ UNCHANGED bootvars

(* The process dies or is stopped; MaxFaults bounds this, too. *)
Restart ==
    /\ boot # "start"
    /\ Fault
    /\ Exit
    /\ UNCHANGED <<users, crashes>>

Users ==
    /\ Concurrent \/ boot = "over"
    /\ User
    /\ UNCHANGED bootvars

Unanswered ==
    \/ Skip \/ FetchReminders \/ FetchItems \/ Decline
    \/ \E r \in RemUIDs : MatchReminder(r)
    \/ Execute \/ Abort \/ Complete \/ Passes

BootNext == Unanswered \/ Agree \/ Restart \/ Users

BootSpec   == BootInit /\ [][BootNext]_allvars
DaemonSpec == DaemonInit /\ [][BootNext]_allvars

(* The process runs, and is started again; where someone is there to answer
   the prompt they agree in the end. *)
Running == WF_allvars(Unanswered) /\ SF_allvars(Agree)

FairBootSpec   == BootSpec /\ Running
FairDaemonSpec == DaemonSpec /\ Running

-------------------------------------------------------------------------------
(* Where the calls of Reconciler stand in each phase of a start. *)
Phases ==
    /\ boot = "start" => pc = "idle"
    /\ boot = "match" => pc \in {"fetched", "loop"} /\ Tracked = {}
    /\ boot = "run" => /\ pc \in {"loop", "save", "echo", "add", "after",
                                  "apply", "saveNew"}
                       /\ add # None => cur = None
    /\ boot = "failed" => pc = "loop"
    /\ boot \in {"run", "over"} => allowed
    /\ boot \in {"start", "run", "over"} => unvisited = {}
    /\ boot \in {"start", "over"} => match = {}
    /\ boot = "match" /\ pc = "fetched" => match = {}

(* The matched pairs are one to one, unlinked, and apart from what is still to
   be created or is in work. *)
Matched ==
    /\ \A p, q \in match : p[1] = q[1] \/ p[2] = q[2] => p = q
    /\ \A p \in match : /\ remSnap[p[1]] # None /\ haSnap[p[2]] # None
                        /\ p[1] \notin Tracked \cup newRem
                        /\ p[2] \notin LinkedHA \cup newHA
                        /\ cur # None => cur.rem # p[1] /\ cur.ha # p[2]
    /\ match # {} => pc \in {"loop", "save"}
    /\ unvisited \subseteq newRem

(* Everything that was read has a row, or is matched, in work, or new. *)
Accounted ==
    boot = "run" \/ (boot = "match" /\ pc = "loop") =>
      /\ \A r \in Present(remSnap) :
           \/ r \in Tracked \cup newRem
           \/ \E p \in match : p[1] = r
           \/ cur # None /\ cur.rem = r
           \/ add # None /\ add.rem = r
      /\ \A h \in Present(haSnap) :
           \/ h \in LinkedHA \cup newHA
           \/ \E p \in match : p[2] = h
           \/ cur # None /\ cur.ha = h

(* Unless users have edited something, the reminders are as they were read,
   every pair that has its row is in step, and the item in work will be. *)
PairInStep(r) ==
    /\ rem[r] # None /\ rem[r].proj = db[r].hash
    /\ ha[db[r].ha] = Item(rem[r].proj)

LinkedSoFar ==
    edits = 0 =>
      /\ boot \in {"match", "run"} =>
           \A r \in Present(remSnap) : rem[r] = remSnap[r]
      /\ boot = "run" =>
           /\ \A r \in Tracked : PairInStep(r)
           /\ cur # None => rem[cur.rem] # None /\ rem[cur.rem].proj = cur.proj
           /\ pc = "save" => ha[cur.ha] = Item(cur.proj)
           /\ add # None => rem[add.rem] # None /\ rem[add.rem].proj = add.proj
           /\ pc = "saveNew" => ha[add.ha] = Item(add.proj)

BootInv ==
    IInv /\ BootTypeOK /\ Phases /\ Matched /\ Accounted /\ LinkedSoFar

(* A bootstrap that reports success has linked all that it had read on both
   sides, and left no error behind. *)
AllLinked ==
    [][ boot = "run" /\ boot' = "over" =>
          Present(remSnap) \subseteq Tracked /\ Present(haSnap) \subseteq LinkedHA
      ]_allvars

(* Unless users edited something meanwhile, every pair is then in step, with
   iCloud's content on both sides, whatever the matched items had shown. *)
LinkedInStep ==
    [][ boot = "run" /\ boot' = "over" /\ edits = 0 =>
          \A r \in Tracked : PairInStep(r) ]_allvars

(* Nothing is written, to either side or to the database, by a process that
   found an empty database and was not told yes. *)
AskedFirst == [][~allowed /\ ~User => UNCHANGED <<world, store>>]_allvars
===============================================================================
