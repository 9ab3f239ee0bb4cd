---------------------------- MODULE BootstrapProofs ----------------------------
(***************************************************************************)
(* Proofs, for every value of the constants, about the starts of the       *)
(* process: the bootstrap keeps the invariant of the passes, links one to  *)
(* one, links everything it has read, and writes nothing unasked.          *)
(***************************************************************************)
EXTENDS Bootstrap, ReconcilerProofs

USE DEF Projection, Reminder, HAItem, Row, Work, Adding, Link,
        world, store, pass, users, counts, Present, Tracked, LinkedHA, bootvars

(***************************************************************************)
(* IInv, the invariant of the passes, through a start.                     *)
(***************************************************************************)
LEMMA RelayKeeps ==
    ASSUME IInv, Relay \/ User \/ UNCHANGED vars
    PROVE  IInv'
BY InvariantStep DEF Next

(* The calls a bootstrap borrows from the passes. *)
LEMMA CreateIsRelay ==
    ASSUME Create
    PROVE  Relay
BY DEF Create, Relay

LEMMA ExitKeeps ==
    ASSUME IInv, Exit, UNCHANGED users, faults' \in Nat, crashes' \in Nat
    PROVE  IInv'
<1> USE DEF Exit, Forget, NoReminders, NoItems
<1>1. TypeOK' BY DEF IInv, TypeOK
<1>2. Shape' BY DEF IInv, Shape
<1>3. Issued' BY DEF IInv, Issued
<1>4. Injective' BY DEF IInv, Injective
<1>5. StillNew' BY DEF IInv, StillNew
<1>6. CurrentRow' BY DEF IInv, CurrentRow
<1>7. AddedRow' BY DEF IInv, AddedRow
<1>8. GoneIsGone' BY DEF IInv, GoneIsGone
<1>9. CompletionLinksResolve' BY DEF IInv, CompletionLinksResolve
<1>10. QED
  BY <1>1, <1>2, <1>3, <1>4, <1>5, <1>6, <1>7, <1>8, <1>9 DEF IInv

(* A counterpart is an item that has not been used. *)
LEMMA CounterpartUnused ==
    ASSUME NEW r, NEW h \in Counterpart(r)
    PROVE  h \in newHA
BY DEF Counterpart, FirstOf

LEMMA MatchReminderKeeps ==
    ASSUME IInv, NEW r \in RemUIDs, MatchReminder(r)
    PROVE  IInv'
<1>1. /\ newRem' \subseteq newRem /\ newHA' \subseteq newHA
      /\ UNCHANGED <<world, store, pc, remSnap, haSnap, todo, cur, add, counts>>
  BY DEF MatchReminder
<1> USE <1>1
<1>2. TypeOK' BY DEF IInv, TypeOK
<1>3. Shape' BY DEF IInv, Shape
<1>4. Issued' BY DEF IInv, Issued
<1>5. Injective' BY DEF IInv, Injective
<1>6. StillNew' BY DEF IInv, StillNew
<1>7. CurrentRow' BY DEF IInv, CurrentRow
<1>8. AddedRow' BY DEF IInv, AddedRow, Candidates
<1>9. GoneIsGone' BY DEF IInv, GoneIsGone, HACopy
<1>10. CompletionLinksResolve' BY DEF IInv, CompletionLinksResolve
<1>11. QED
  BY <1>2, <1>3, <1>4, <1>5, <1>6, <1>7, <1>8, <1>9, <1>10 DEF IInv

(* How an update of an item can end. *)
LEMMA UpdateItemOutcomes ==
    ASSUME NEW h, NEW p, NEW next, NEW c, UpdateItem(h, p, next, c, None)
    PROVE  /\ \/ UNCHANGED ha
              \/ ha[h] # None /\ ha' = [ha EXCEPT ![h] = Item(p)]
           /\ \/ pc' = next /\ cur' = c
              \/ pc' = "loop" /\ cur' = None
           /\ add' = None
           /\ faults' = faults \/ faults' = faults + 1
BY DEF UpdateItem, NextItem, Refused, Fault

(* A matched pair, once in work, is new on both sides. *)
LEMMA LinkMatchedKeeps ==
    ASSUME BootInv, NEW r \in RemUIDs, NEW h \in HAUIDs, LinkMatched(r, h)
    PROVE  IInv'
<1> DEFINE work == [rem |-> r, ha |-> h, proj |-> Pushed(r, h)]
<1>1. /\ remSnap[r] # None /\ haSnap[h] # None
      /\ r \notin Tracked \cup newRem /\ h \notin LinkedHA \cup newHA
  BY DEF LinkMatched, BootInv, Matched
<1>2. Pushed(r, h) \in Projection /\ work \in Work
  BY <1>1 DEF Pushed, BootInv, IInv, TypeOK
<1>a. /\ pc = "loop"
      /\ UNCHANGED <<rem, remIssued, haIssued, store, pass, users, crashes>>
      /\ UpdateItem(h, Pushed(r, h), "save", work, None)
  BY DEF LinkMatched
<1>b. cur = None /\ add = None
  BY <1>a DEF BootInv, IInv, Shape
<1>3. /\ \/ UNCHANGED ha
         \/ ha[h] # None /\ ha' = [ha EXCEPT ![h] = Item(Pushed(r, h))]
      /\ \/ pc' = "save" /\ cur' = work
         \/ pc' = "loop" /\ cur' = None
      /\ add' = None
      /\ faults' = faults \/ faults' = faults + 1
  BY <1>a, UpdateItemOutcomes
<1> HIDE DEF work
<1>4. work.rem = r /\ work.ha = h
  BY DEF work
<1>5. Item(Pushed(r, h)) \in HAItem
  BY <1>2 DEF Item
<1>6. TypeOK' BY <1>2, <1>a, <1>3, <1>5 DEF BootInv, IInv, TypeOK
<1>7. Shape'
  BY <1>1, <1>2, <1>a, <1>b, <1>3, <1>4, ConstantsAssumption
  DEF BootInv, IInv, Shape, ConstantsAssumption
<1>8. Issued' BY <1>1, <1>a, <1>b, <1>3, <1>4 DEF BootInv, IInv, Issued, TypeOK
<1>9. Injective' BY <1>a, <1>b, <1>3 DEF BootInv, IInv, Injective
<1>10. StillNew' BY <1>1, <1>a, <1>b, <1>3, <1>4 DEF BootInv, IInv, StillNew
<1>11. CurrentRow' BY <1>1, <1>a, <1>b, <1>3, <1>4 DEF BootInv, IInv, CurrentRow
<1>12. AddedRow' BY <1>a, <1>b, <1>3 DEF BootInv, IInv, AddedRow
<1>13. GoneIsGone'
  BY <1>1, <1>a, <1>b, <1>3 DEF BootInv, IInv, GoneIsGone, HACopy, Shape, TypeOK
<1>14. CompletionLinksResolve'
  BY <1>a, <1>b, <1>3 DEF BootInv, IInv, CompletionLinksResolve
<1>15. QED
  BY <1>6, <1>7, <1>8, <1>9, <1>10, <1>11, <1>12, <1>13, <1>14 DEF IInv

(* Every step of the process keeps IInv. *)
LEMMA IInvKept ==
    ASSUME BootInv, [BootNext]_allvars
    PROVE  IInv'
<1> USE DEF BootInv
<1>1. CASE Exit /\ UNCHANGED counts
  BY <1>1, ExitKeeps DEF IInv, TypeOK
<1>2. CASE Restart
  <2>1. faults' \in Nat /\ crashes' \in Nat
    BY <1>2 DEF Restart, Fault, IInv, TypeOK
  <2>2. QED
    BY <1>2, <2>1, ExitKeeps DEF Restart
<1>3. CASE Relay \/ User \/ UNCHANGED vars
  BY <1>3, RelayKeeps
<1>4. CASE \E r \in RemUIDs : MatchReminder(r)
  BY <1>4, MatchReminderKeeps
<1>5. CASE \E r \in RemUIDs, h \in HAUIDs : LinkMatched(r, h)
  BY <1>5, LinkMatchedKeeps
<1>6. QED
  BY <1>1, <1>2, <1>3, <1>4, <1>5, CreateIsRelay
  DEF BootNext, Unanswered, Skip, FetchReminders, FetchItems, Decline,
      Cancelled, Execute, Abort, Complete, Passes, Agree, Users, allvars, Relay

(***************************************************************************)
(* The invariant of the starts themselves, by cases on where the step is.  *)
(***************************************************************************)
Starts == BootTypeOK /\ Phases /\ Matched /\ Accounted

LEMMA ExitStarts ==
    ASSUME BootInv, Exit
    PROVE  Starts'
<1> USE DEF Exit, Forget
<1>a. /\ boot' = "start" /\ listed' = <<>> /\ unvisited' = {} /\ match' = {}
      /\ allowed' = FALSE
  OBVIOUS
<1>b. \A i \in DOMAIN listed' : listed'[i] \in HAUIDs
  BY <1>a
<1>1. BootTypeOK'
  <2> HIDE DEF Exit, Forget
  <2>1. QED BY <1>a, <1>b DEF BootTypeOK
<1>2. Phases' BY DEF Phases
<1>3. Matched' BY DEF Matched
<1>4. Accounted' BY DEF Accounted
<1>5. QED BY <1>1, <1>2, <1>3, <1>4 DEF Starts

LEMMA SkipStarts ==
    ASSUME BootInv, Skip
    PROVE  Starts'
<1> USE DEF BootInv, Skip, vars
<1>1. BootTypeOK' BY DEF BootTypeOK
<1>2. Phases' BY DEF Phases
<1>3. Matched' BY DEF Matched
<1>4. Accounted' BY DEF Accounted
<1>5. QED BY <1>1, <1>2, <1>3, <1>4 DEF Starts

LEMMA FetchRemindersStarts ==
    ASSUME BootInv, FetchReminders
    PROVE  Starts'
<1>1. /\ boot = "start" /\ boot' \in {"start", "match"}
      /\ pc = "idle" /\ pc' \in {"idle", "fetched"}
      /\ boot' = "match" <=> pc' = "fetched"
      /\ UNCHANGED <<listed, unvisited, match, allowed, db, cur, add, newRem>>
      /\ match = {} /\ unvisited = {} /\ Tracked = {}
  BY DEF FetchReminders, FetchAll, BootInv, Phases
<1>2. BootTypeOK' BY <1>1 DEF BootInv, BootTypeOK
<1>3. Phases' BY <1>1 DEF Phases
<1>4. Matched' BY <1>1 DEF BootInv, Matched
<1>5. Accounted' BY <1>1 DEF Accounted
<1>6. QED BY <1>2, <1>3, <1>4, <1>5 DEF Starts

(* With no row, everything read is new. *)
LEMMA FetchItemsStarts ==
    ASSUME BootInv, FetchItems
    PROVE  Starts'
<1>1. /\ boot = "match" /\ pc = "fetched" /\ pc' = "loop"
      /\ Tracked = {} /\ match = {} /\ LinkedHA = {}
      /\ UNCHANGED <<db, remSnap, match, allowed>>
      /\ unvisited' = newRem'
  BY DEF FetchItems, GetItems, NextItem, BootInv, Phases
<1>2. \/ boot' = "match" /\ newRem' = Present(remSnap) /\ haSnap' = ha
         /\ newHA' = Present(ha)
      \/ boot' = "failed"
  <2>1. faults \in Nat
    BY DEF BootInv, IInv, TypeOK
  <2>2. CASE faults' = faults
    BY <1>1, <2>1, <2>2
    DEF FetchItems, GetItems, NewReminders, NewItems, SkipList, Fault
  <2>3. CASE faults' # faults
    BY <2>3 DEF FetchItems
  <2>4. QED BY <2>2, <2>3
<1>3. newRem' \subseteq RemUIDs
  BY IInvKept DEF FetchItems, BootNext, Unanswered, IInv, TypeOK
<1>4. \A i \in DOMAIN listed' : listed'[i] \in HAUIDs
  <2>1. Present(ha) \subseteq HAUIDs
    BY DEF BootInv, IInv, TypeOK
  <2>2. listed' = listed \/ listed' \in [1 .. Cardinality(Present(ha)) -> Present(ha)]
    BY DEF FetchItems, SetToSeqs
  <2>3. QED BY <2>1, <2>2 DEF BootInv, BootTypeOK
<1>5. BootTypeOK' BY <1>1, <1>2, <1>3, <1>4 DEF BootInv, BootTypeOK
<1>6. Phases' BY <1>1, <1>2 DEF Phases
<1>7. Matched' BY <1>1 DEF Matched
<1>8. Accounted' BY <1>1, <1>2 DEF Accounted
<1>9. QED BY <1>5, <1>6, <1>7, <1>8 DEF Starts

(* A reminder and its counterpart are new, so they are in no other pair. *)
LEMMA MatchReminderStarts ==
    ASSUME BootInv, NEW r \in RemUIDs, MatchReminder(r)
    PROVE  Starts'
<1>1. /\ boot = "match" /\ pc = "loop" /\ r \in newRem
      /\ unvisited' = unvisited \ {r}
      /\ UNCHANGED <<db, pc, remSnap, haSnap, cur, add, boot, listed, allowed>>
      /\ cur = None /\ add = None /\ Tracked = {}
  BY DEF MatchReminder, BootInv, Matched, IInv, Shape, Phases
<1>2. remSnap[r] # None /\ newHA \subseteq Present(haSnap)
  BY <1>1 DEF BootInv, IInv, Shape
<1>3. CASE UNCHANGED <<newRem, newHA, match>>
  <2> USE <1>1, <1>3 DEF BootInv
  <2>1. BootTypeOK' BY DEF BootTypeOK
  <2>2. Phases' BY DEF Phases
  <2>3. Matched' BY DEF Matched
  <2>4. Accounted' BY DEF Accounted
  <2>5. QED BY <2>1, <2>2, <2>3, <2>4 DEF Starts
<1>4. ASSUME NEW h \in newHA, match' = match \cup {<<r, h>>},
             newRem' = newRem \ {r}, newHA' = newHA \ {h}
      PROVE  Starts'
  <2>1. h \in HAUIDs /\ haSnap[h] # None
    BY <1>2 DEF BootInv, IInv, TypeOK
  <2>2. BootTypeOK' BY <1>1, <1>4, <2>1 DEF BootInv, BootTypeOK
  <2>3. Phases' BY <1>1 DEF BootInv, Phases
  <2>4. Matched'
    <3>1. \A p \in match : p[1] # r /\ p[2] # h
      BY <1>1 DEF BootInv, Matched
    <3>2. \A p, q \in match' : p[1] = q[1] \/ p[2] = q[2] => p = q
      BY <1>4, <3>1 DEF BootInv, Matched
    <3>3. LinkedHA = {}
      BY <1>1
    <3>4. QED
      BY <1>1, <1>2, <1>4, <2>1, <3>2, <3>3 DEF BootInv, Matched
  <2>5. Accounted'
    <3>1. <<r, h>> \in match' /\ match \subseteq match'
      BY <1>4
    <3>2. <<r, h>>[1] = r /\ <<r, h>>[2] = h
      OBVIOUS
    <3>3. ASSUME NEW s \in Present(remSnap)
          PROVE  s \in Tracked \cup newRem' \/ \E p \in match' : p[1] = s
      BY <1>1, <1>4, <3>1, <3>2, <3>3 DEF BootInv, Accounted
    <3>4. ASSUME NEW k \in Present(haSnap)
          PROVE  k \in LinkedHA \cup newHA' \/ \E p \in match' : p[2] = k
      BY <1>1, <1>4, <3>1, <3>2, <3>4 DEF BootInv, Accounted
    <3>5. QED
      BY <1>1, <3>3, <3>4 DEF Accounted
  <2>6. QED BY <2>2, <2>3, <2>4, <2>5 DEF Starts
<1>5. QED
  BY <1>3, <1>4, CounterpartUnused DEF MatchReminder

LEMMA AgreeStarts ==
    ASSUME BootInv, Agree
    PROVE  Starts'
<1> USE DEF BootInv, Agree, Asking, vars
<1>1. BootTypeOK' BY DEF BootTypeOK
<1>2. Phases' BY DEF Phases, IInv, Shape
<1>3. Matched' BY DEF Matched
<1>4. Accounted' BY DEF Accounted
<1>5. QED BY <1>1, <1>2, <1>3, <1>4 DEF Starts

(* A linked pair goes from match to work to a row. *)
LEMMA LinkMatchedStarts ==
    ASSUME BootInv, NEW r \in RemUIDs, NEW h \in HAUIDs, LinkMatched(r, h),
           boot' = IF Failed THEN "failed" ELSE "run",
           UNCHANGED <<listed, unvisited, allowed>>
    PROVE  Starts'
<1>1. /\ boot = "run" /\ pc = "loop" /\ <<r, h>> \in match
      /\ match' = match \ {<<r, h>>}
      /\ UNCHANGED <<db, remSnap, haSnap, newRem, newHA>>
      /\ UpdateItem(h, Pushed(r, h), "save",
                    [rem |-> r, ha |-> h, proj |-> Pushed(r, h)], None)
      /\ cur = None /\ add = None
  BY DEF LinkMatched, BootInv, IInv, Shape
<1>2. /\ \/ /\ pc' = "save" /\ cur' # None
            /\ cur'.rem = r /\ cur'.ha = h
         \/ pc' = "loop" /\ cur' = None
      /\ add' = None
  <2>1. r \in RemUIDs /\ h \in HAUIDs /\ Pushed(r, h) \in Projection
    BY <1>1 DEF BootInv, Matched, Pushed, IInv, TypeOK
  <2>2. [rem |-> r, ha |-> h, proj |-> Pushed(r, h)] # None
    BY <2>1, ConstantsAssumption DEF ConstantsAssumption
  <2>3. QED
    BY <1>1, <2>2, UpdateItemOutcomes
<1>3. boot' = "run" => pc' = "save"
  BY <1>1, <1>2 DEF Failed
<1>4. boot' \in {"run", "failed"} /\ (boot' = "failed" => pc' = "loop")
  BY DEF Failed
<1>5. BootTypeOK' BY <1>1, <1>4 DEF BootInv, BootTypeOK
<1>6. Phases' BY <1>1, <1>2, <1>3, <1>4 DEF BootInv, Phases
<1>7. Matched'
  <2>1. \A p \in match' : p[1] # r /\ p[2] # h
    BY <1>1 DEF BootInv, Matched
  <2>2. QED
    BY <1>1, <1>2, <2>1 DEF BootInv, Matched
<1>8. Accounted'
  <2>1. \A p \in match : p \in match' \/ (p[1] = r /\ p[2] = h)
    BY <1>1
  <2>2. QED
    BY <1>1, <1>2, <1>3, <2>1 DEF BootInv, Accounted
<1>9. QED BY <1>5, <1>6, <1>7, <1>8 DEF Starts

(* The row of the item in work is written. *)
LEMMA SaveRowStarts ==
    ASSUME BootInv, boot = "run", SaveRow, UNCHANGED match,
           boot' = IF Failed THEN "failed" ELSE "run",
           UNCHANGED <<listed, unvisited, allowed>>
    PROVE  Starts'
<1>1. /\ pc = "save" /\ pc' = "loop" /\ cur' = None /\ add' = None
      /\ UNCHANGED <<remSnap, haSnap, newRem, newHA>>
      /\ \/ db' = [db EXCEPT ![cur.rem] = NewRow(cur.rem, cur.ha, cur.proj)]
         \/ db' = db
  BY DEF SaveRow, UpsertItem, NextItem, Refused
<1>2. cur \in Work /\ add = None
  BY <1>1 DEF BootInv, IInv, Shape
<1>3. boot' \in {"run", "failed"} /\ (boot' = "failed" => pc' = "loop")
  BY DEF Failed
<1>4. NewRow(cur.rem, cur.ha, cur.proj) \in Row
  BY <1>2 DEF NewRow
<1>5. /\ Tracked' \subseteq Tracked \cup {cur.rem}
      /\ LinkedHA' \subseteq LinkedHA \cup {cur.ha}
  BY <1>1, <1>2 DEF NewRow, BootInv, IInv, TypeOK
<1>6. boot' = "run" =>
        Tracked' = Tracked \cup {cur.rem} /\ LinkedHA' = LinkedHA \cup {cur.ha}
  <2>1. ASSUME boot' = "run"
        PROVE  db' = [db EXCEPT ![cur.rem] = NewRow(cur.rem, cur.ha, cur.proj)]
    BY <1>1, <2>1 DEF Failed
  <2>2. cur.rem \in Tracked => db[cur.rem].ha = cur.ha
    BY <1>1, <1>2, ConstantsAssumption
    DEF BootInv, IInv, CurrentRow, ConstantsAssumption
  <2>3. NewRow(cur.rem, cur.ha, cur.proj) # None
    BY <1>4, ConstantsAssumption DEF ConstantsAssumption
  <2>4. ASSUME boot' = "run"
        PROVE  Tracked' = Tracked \cup {cur.rem}
    BY <1>2, <2>1, <2>3, <2>4 DEF BootInv, IInv, TypeOK
  <2>5. ASSUME boot' = "run"
        PROVE  LinkedHA' = LinkedHA \cup {cur.ha}
    <3>1. db'[cur.rem].ha = cur.ha
      BY <1>2, <2>1, <2>5 DEF NewRow, BootInv, IInv, TypeOK
    <3>2. \A s \in Tracked \ {cur.rem} : db'[s] = db[s]
      BY <2>1, <2>5
    <3>3. QED
      BY <2>2, <2>4, <2>5, <3>1, <3>2
  <2>6. QED BY <2>4, <2>5
<1>7. BootTypeOK' BY <1>3 DEF BootInv, BootTypeOK
<1>8. Phases' BY <1>1, <1>3 DEF BootInv, Phases
<1>9. Matched'
  <2>1. \A p \in match : p[1] # cur.rem /\ p[2] # cur.ha
    BY <1>2, ConstantsAssumption DEF BootInv, Matched, ConstantsAssumption
  <2>2. QED BY <1>1, <1>5, <2>1 DEF BootInv, Matched
<1>10. Accounted' BY <1>1, <1>2, <1>3, <1>6 DEF BootInv, Accounted
<1>11. QED BY <1>7, <1>8, <1>9, <1>10 DEF Starts

(* Once no pair is left, what a call must keep is the account of what was
   read: nothing leaves newRem or newHA but for work, nothing leaves work but
   for a row, unless the bootstrap fails. *)
LEMMA CreationStarts ==
    ASSUME BootInv, boot = "run", match = {}, UNCHANGED match,
           boot' = IF Failed THEN "failed" ELSE "run",
           UNCHANGED <<listed, unvisited, allowed, remSnap, haSnap>>,
           pc' \in {"loop", "save", "echo", "add", "after", "apply", "saveNew"},
           ~Failed =>
             /\ add' # None => cur' = None
             /\ \A r \in Present(remSnap) :
                  r \in Tracked \cup newRem \/ (cur # None /\ cur.rem = r)
                    \/ (add # None /\ add.rem = r)
                  => \/ r \in Tracked' \cup newRem'
                     \/ cur' # None /\ cur'.rem = r
                     \/ add' # None /\ add'.rem = r
             /\ \A h \in Present(haSnap) :
                  h \in LinkedHA \cup newHA \/ (cur # None /\ cur.ha = h)
                  => \/ h \in LinkedHA' \cup newHA'
                     \/ cur' # None /\ cur'.ha = h
    PROVE  Starts'
<1>1. boot' \in {"run", "failed"} /\ (boot' = "failed" <=> Failed)
  OBVIOUS
<1>2. Failed => pc' = "loop"
  BY DEF Failed
<1>3. BootTypeOK' BY <1>1 DEF BootInv, BootTypeOK
<1>4. Phases' BY <1>1, <1>2 DEF BootInv, Phases
<1>5. unvisited' = {}
  BY DEF BootInv, Phases
<1>6. Matched' BY <1>5 DEF Matched
<1>7. Accounted' BY <1>1 DEF BootInv, Accounted
<1>8. QED BY <1>3, <1>4, <1>6, <1>7 DEF Starts

(* The actions that take something off newRem or newHA, or leave all alone. *)
LEMMA CreateStarts ==
    ASSUME BootInv, Create, ~SaveRow, ~SaveAdded,
           boot' = IF Failed THEN "failed" ELSE "run",
           UNCHANGED <<listed, unvisited, allowed>>
    PROVE  Starts'
<1>1. boot = "run" /\ UNCHANGED match /\ (match = {} \/ pc # "loop")
  BY DEF Create
<1>2. CASE \E r \in RemUIDs : CreateInHA(r)
  <2>1. PICK r \in RemUIDs : CreateInHA(r)
    BY <1>2
  <2>2. /\ pc = "loop" /\ cur = None /\ add = None /\ match = {}
        /\ UNCHANGED <<db, remSnap, haSnap, newHA>>
        /\ newRem' = newRem \ {r}
    BY <1>1, <2>1 DEF CreateInHA, BootInv, IInv, Shape
  <2>3. \/ /\ pc' = "add" /\ cur' = None
           /\ add' = [rem |-> r, proj |-> remSnap[r].proj,
                      before |-> Present(ha), ha |-> None]
        \/ pc' = "loop"
    BY <2>1, <2>2 DEF CreateInHA, ListBefore, Refused, NextItem
  <2>4. IInv'
    BY <1>1, IInvKept, <2>1
    DEF BootNext, Unanswered, Execute, Create
  <2>5. pc' = "add" => add' # None
    BY <2>4, ConstantsAssumption DEF IInv, Shape, ConstantsAssumption
  <2>6. QED
    BY <1>1, <2>2, <2>3, <2>5, CreationStarts DEF Failed
<1>3. CASE \E h \in HAUIDs : CreateInReminders(h)
  <2>1. PICK h \in HAUIDs : CreateInReminders(h)
    BY <1>3
  <2>2. /\ pc = "loop" /\ cur = None /\ add = None /\ match = {}
        /\ UNCHANGED <<db, remSnap, haSnap, newRem>>
        /\ newHA' = newHA \ {h}
    BY <1>1, <2>1, CreatedFacts DEF BootInv
  <2>3. \/ /\ pc' = "echo" /\ add' = None
           /\ \E r \in RemUIDs : cur'.rem = r /\ cur'.ha = h
        \/ pc' = "loop"
    BY <1>1, <2>1, CreatedFacts DEF BootInv
  <2>4. IInv'
    BY <1>1, IInvKept, <2>1
    DEF BootNext, Unanswered, Execute, Create
  <2>5. pc' = "echo" => cur' # None /\ cur'.ha = h
    BY <2>3, <2>4, ConstantsAssumption DEF IInv, Shape, ConstantsAssumption
  <2>6. QED
    BY <1>1, <2>2, <2>3, <2>5, CreationStarts DEF Failed
<1>4. CASE EchoToHA
  <2>1. /\ pc = "echo" /\ match = {}
        /\ UNCHANGED <<db, remSnap, haSnap, newRem, newHA>>
        /\ UpdateItem(cur.ha, cur.proj, "save", cur, None)
    BY <1>4 DEF EchoToHA, BootInv, Matched
  <2>2. cur # None /\ add = None
    BY <2>1, ConstantsAssumption DEF BootInv, IInv, Shape, ConstantsAssumption
  <2>3. \/ pc' = "save" /\ cur' = cur /\ add' = None
        \/ pc' = "loop"
    BY <2>1, UpdateItemOutcomes
  <2>4. QED
    BY <1>1, <2>1, <2>2, <2>3, CreationStarts DEF Failed
<1>5. CASE AddItem \/ ResolveUID \/ ApplyToAdded
  <2>1. /\ pc \in {"add", "after", "apply"} /\ match = {}
        /\ UNCHANGED <<db, remSnap, haSnap, newRem, newHA>>
    BY <1>5 DEF AddItem, ResolveUID, ApplyToAdded, BootInv, Matched
  <2>2. add \in Adding /\ add # None /\ cur = None
    BY <1>1, <2>1, ConstantsAssumption
    DEF BootInv, IInv, Shape, Phases, ConstantsAssumption
  <2>3. \/ pc' \in {"after", "saveNew"} /\ cur' = cur /\ add' = add
        \/ /\ pc' = "apply" /\ cur' = cur
           /\ \E h \in HAUIDs : add' = [add EXCEPT !.ha = h]
        \/ pc' = "loop"
    BY <1>5
    DEF AddItem, ResolveUID, ApplyToAdded, UpdateItem, Refused, NextItem
  <2>4. pc' # "loop" => add' # None /\ add'.rem = add.rem
    <3>1. \A h \in HAUIDs : [add EXCEPT !.ha = h] \in Adding
                            /\ [add EXCEPT !.ha = h].rem = add.rem
      BY <2>2
    <3>2. QED
      BY <2>2, <2>3, <3>1, ConstantsAssumption DEF ConstantsAssumption
  <2>5. QED
    BY <1>1, <2>1, <2>2, <2>3, <2>4, CreationStarts DEF Failed
<1>6. QED
  BY <1>2, <1>3, <1>4, <1>5 DEF Create

(* The row of an added item is written. *)
LEMMA SaveAddedStarts ==
    ASSUME BootInv, boot = "run", SaveAdded, UNCHANGED match,
           boot' = IF Failed THEN "failed" ELSE "run",
           UNCHANGED <<listed, unvisited, allowed>>
    PROVE  Starts'
<1>1. /\ pc = "saveNew" /\ match = {}
      /\ UNCHANGED <<remSnap, haSnap, newRem, newHA>>
  BY DEF SaveAdded, BootInv, Matched
<1>2. add \in Adding /\ add # None /\ cur = None /\ add.ha \in HAUIDs
  BY <1>1, ConstantsAssumption
  DEF BootInv, IInv, Shape, Phases, ConstantsAssumption
<1>3. /\ pc' = "loop"
      /\ \/ /\ db' = [db EXCEPT ![add.rem] = NewRow(add.rem, add.ha, add.proj)]
            /\ cur' = None /\ add' = None
         \/ db' = db
  BY <1>2 DEF SaveAdded, UpsertItem, NextItem, Refused
<1>4. NewRow(add.rem, add.ha, add.proj) \in Row
  BY <1>2 DEF NewRow
<1>5. add.rem \notin Tracked
  BY <1>1 DEF BootInv, IInv, AddedRow
<1>6. ASSUME ~Failed
      PROVE  /\ cur' = None /\ add' = None
             /\ Tracked \cup {add.rem} \subseteq Tracked'
             /\ LinkedHA \subseteq LinkedHA'
  <2>1. /\ db' = [db EXCEPT ![add.rem] = NewRow(add.rem, add.ha, add.proj)]
        /\ cur' = None /\ add' = None
    BY <1>3, <1>6 DEF Failed
  <2>2. NewRow(add.rem, add.ha, add.proj) # None
    BY <1>4, ConstantsAssumption DEF ConstantsAssumption
  <2>3. Tracked \cup {add.rem} \subseteq Tracked'
    BY <1>2, <2>1, <2>2 DEF BootInv, IInv, TypeOK
  <2>4. LinkedHA \subseteq LinkedHA'
    BY <1>5, <2>1, <2>3 DEF BootInv, IInv, TypeOK
  <2>5. QED BY <2>1, <2>3, <2>4
<1>7. QED
  BY <1>1, <1>2, <1>3, <1>6, CreationStarts

LEMMA CompleteStarts ==
    ASSUME BootInv, Complete
    PROVE  Starts'
<1>1. /\ boot = "run" /\ boot' = "over" /\ match = {} /\ pc' = "idle"
      /\ UNCHANGED <<listed, unvisited, match, allowed>>
  BY DEF Complete, EndPass, Forget
<1>2. unvisited = {} /\ allowed
  BY <1>1 DEF BootInv, Phases
<1>3. BootTypeOK' BY <1>1 DEF BootInv, BootTypeOK
<1>4. Phases' BY <1>1, <1>2 DEF Phases
<1>5. Matched' BY <1>1, <1>2 DEF Matched
<1>6. Accounted' BY <1>1 DEF Accounted
<1>7. QED BY <1>3, <1>4, <1>5, <1>6 DEF Starts

(* While the engine runs there is nothing of a start to keep. *)
LEMMA PassesStarts ==
    ASSUME BootInv, Passes
    PROVE  Starts'
<1>1. boot = "over" /\ UNCHANGED bootvars
  BY DEF Passes
<1>2. unvisited = {} /\ match = {} /\ allowed
  BY <1>1 DEF BootInv, Phases
<1>3. BootTypeOK' BY <1>1 DEF BootInv, BootTypeOK
<1>4. Phases' BY <1>1, <1>2 DEF Phases
<1>5. Matched' BY <1>1, <1>2 DEF Matched
<1>6. Accounted' BY <1>1 DEF Accounted
<1>7. QED BY <1>3, <1>4, <1>5, <1>6 DEF Starts

(* Users change neither the database nor what was read. *)
LEMMA UsersStarts ==
    ASSUME BootInv, Users \/ UNCHANGED allvars
    PROVE  Starts'
<1>1. UNCHANGED <<db, pc, remSnap, haSnap, newRem, newHA, cur, add, bootvars>>
  BY DEF Users, User, UserAddsReminder, UserEditsReminder, UserDeletesReminder,
         UserAddsItem, UserEditsItem, UserDeletesItem, relay, allvars, vars
<1> USE <1>1 DEF BootInv
<1>2. BootTypeOK' BY DEF BootTypeOK
<1>3. Phases' BY DEF Phases
<1>4. Matched' BY DEF Matched
<1>5. Accounted' BY DEF Accounted
<1>6. QED BY <1>2, <1>3, <1>4, <1>5 DEF Starts

(***************************************************************************)
(* What is linked stays in step as long as users edit nothing.             *)
(***************************************************************************)
(* Before the bootstrap writes. *)
LEMMA ReadingLinked ==
    ASSUME BootInv,
           FetchReminders \/ FetchItems \/ Agree \/ UNCHANGED allvars
             \/ \E r \in RemUIDs : MatchReminder(r)
    PROVE  LinkedSoFar'
<1>1. CASE FetchReminders
  BY <1>1 DEF FetchReminders, FetchAll, Fetched, LinkedSoFar
<1>2. CASE FetchItems
  BY <1>2 DEF FetchItems, GetItems, BootInv, LinkedSoFar
<1>3. CASE Agree
  BY <1>3 DEF Agree, Asking, vars, BootInv, LinkedSoFar, Phases, IInv, Shape
<1>4. CASE UNCHANGED allvars
  BY <1>4 DEF allvars, vars, BootInv, LinkedSoFar, PairInStep
<1>5. CASE \E r \in RemUIDs : MatchReminder(r)
  BY <1>5 DEF MatchReminder, BootInv, LinkedSoFar
<1>6. QED
  BY <1>1, <1>2, <1>3, <1>4, <1>5

(* What users add has a new UID; what they edit is counted. *)
LEMMA UsersLinked ==
    ASSUME BootInv, Users
    PROVE  LinkedSoFar'
<1>1. /\ UNCHANGED <<db, pc, remSnap, cur, add, boot>>
      /\ \A r \in remIssued : rem'[r] = rem[r] \/ edits' # 0
      /\ \A h \in haIssued : ha'[h] = ha[h] \/ edits' # 0
      /\ edits' = 0 => edits = 0
  BY DEF Users, User, UserAddsReminder, UserEditsReminder, UserDeletesReminder,
         UserAddsItem, UserEditsItem, UserDeletesItem, relay, NewTask, Edit,
         BootInv, IInv, TypeOK
<1> SUFFICES ASSUME edits' = 0
             PROVE  LinkedSoFar'
  BY DEF LinkedSoFar
<1>2. /\ \A r \in Present(remSnap) \cup Tracked : r \in remIssued
      /\ \A r \in Tracked : db[r].ha \in haIssued
      /\ cur # None => cur.rem \in remIssued /\ cur.ha \in haIssued
      /\ add # None => add.rem \in remIssued
      /\ pc = "saveNew" => add.ha \in haIssued
  BY DEF BootInv, IInv, Issued, AddedRow
<1>3. pc = "save" => cur # None
  BY ConstantsAssumption DEF BootInv, IInv, Shape, ConstantsAssumption
<1>4. \A r \in Tracked : boot = "run" => PairInStep(r)'
  BY <1>1, <1>2 DEF BootInv, LinkedSoFar, PairInStep
<1>5. QED
  BY <1>1, <1>2, <1>3, <1>4 DEF BootInv, LinkedSoFar

(* A matched item takes what its reminder shows. *)
LEMMA LinkMatchedLinked ==
    ASSUME BootInv, NEW r \in RemUIDs, NEW h \in HAUIDs, LinkMatched(r, h),
           boot' = "run", ~Failed
    PROVE  LinkedSoFar'
<1> DEFINE p == Pushed(r, h)
<1>1. /\ boot = "run" /\ pc = "loop" /\ r \notin Tracked /\ h \notin LinkedHA
      /\ remSnap[r] # None /\ p = remSnap[r].proj
      /\ UNCHANGED <<rem, db, remSnap, edits>>
      /\ UpdateItem(h, p, "save", [rem |-> r, ha |-> h, proj |-> p], None)
  BY DEF LinkMatched, BootInv, Matched, Pushed
<1>2. /\ pc' = "save" /\ add' = None
      /\ cur' = [rem |-> r, ha |-> h, proj |-> p]
      /\ ha' = [ha EXCEPT ![h] = Item(p)]
  <2>1. pc' # "loop"
    BY <1>1 DEF Failed
  <2>2. QED
    BY <1>1, <2>1 DEF UpdateItem, Refused, NextItem
<1> HIDE DEF p
<1>3. \A s \in Tracked : ha'[db[s].ha] = ha[db[s].ha]
  BY <1>1, <1>2 DEF BootInv, IInv, TypeOK
<1>4. ha'[h] = Item(p)
  BY <1>2 DEF BootInv, IInv, TypeOK
<1>5. edits = 0 => rem[r] = remSnap[r]
  BY <1>1 DEF BootInv, LinkedSoFar, IInv, TypeOK
<1>6. QED
  BY <1>1, <1>2, <1>3, <1>4, <1>5 DEF BootInv, LinkedSoFar, PairInStep

(* The row of the pair in work is written with what both sides show. *)
LEMMA SaveRowLinked ==
    ASSUME BootInv, boot = "run", SaveRow, boot' = "run", ~Failed
    PROVE  LinkedSoFar'
<1>1. /\ pc = "save" /\ pc' = "loop" /\ cur' = None /\ add' = None
      /\ UNCHANGED <<rem, ha, remSnap, edits>>
      /\ db' = [db EXCEPT ![cur.rem] = NewRow(cur.rem, cur.ha, cur.proj)]
  BY DEF SaveRow, UpsertItem, NextItem, Refused, Failed
<1>2. cur \in Work /\ cur # None
  BY <1>1, ConstantsAssumption DEF BootInv, IInv, Shape, ConstantsAssumption
<1>3. /\ db'[cur.rem] = [ha |-> cur.ha, hash |-> cur.proj]
      /\ \A s \in RemUIDs \ {cur.rem} : db'[s] = db[s]
  BY <1>1, <1>2 DEF NewRow, BootInv, IInv, TypeOK
<1>4. edits = 0 => \A s \in Tracked' : PairInStep(s)'
  BY <1>1, <1>2, <1>3 DEF BootInv, IInv, TypeOK, LinkedSoFar, PairInStep
<1>5. QED
  BY <1>1, <1>4 DEF BootInv, LinkedSoFar

(* Likewise the row of an added item. *)
LEMMA SaveAddedLinked ==
    ASSUME BootInv, boot = "run", SaveAdded, boot' = "run", ~Failed
    PROVE  LinkedSoFar'
<1>1. pc = "saveNew" /\ add \in Adding /\ add # None /\ cur = None
  BY ConstantsAssumption
  DEF SaveAdded, BootInv, IInv, Shape, Phases, ConstantsAssumption
<1>2. /\ pc' = "loop" /\ cur' = None /\ add' = None
      /\ UNCHANGED <<rem, ha, remSnap, edits>>
      /\ db' = [db EXCEPT ![add.rem] = NewRow(add.rem, add.ha, add.proj)]
  BY <1>1 DEF SaveAdded, UpsertItem, NextItem, Refused, Failed
<1>3. /\ db'[add.rem] = [ha |-> add.ha, hash |-> add.proj]
      /\ \A s \in RemUIDs \ {add.rem} : db'[s] = db[s]
  BY <1>1, <1>2 DEF NewRow, BootInv, IInv, TypeOK
<1>4. edits = 0 => \A s \in Tracked' : PairInStep(s)'
  BY <1>1, <1>2, <1>3 DEF BootInv, IInv, TypeOK, LinkedSoFar, PairInStep
<1>5. QED
  BY <1>2, <1>4 DEF BootInv, LinkedSoFar

(* The calls in between write to no linked copy, and leave in work what they
   have written. *)
LEMMA CreateLinked ==
    ASSUME BootInv, Create, ~SaveRow, ~SaveAdded, boot' = "run", ~Failed
    PROVE  LinkedSoFar'
<1>0. /\ boot = "run" /\ UNCHANGED <<db, remSnap, edits>>
  BY DEF Create, CreateInHA, CreateInReminders, AddItem, ResolveUID,
         ApplyToAdded, EchoToHA
<1> SUFFICES ASSUME edits = 0
             PROVE  LinkedSoFar'
  BY <1>0 DEF LinkedSoFar
<1>1. /\ \A r \in Present(remSnap) : rem[r] = remSnap[r] /\ r \in remIssued
      /\ \A r \in Tracked : /\ PairInStep(r) /\ r \in RemUIDs
                            /\ r \in remIssued /\ db[r].ha \in haIssued
      /\ ha \in [HAUIDs -> HAItem \cup {None}]
      /\ rem \in [RemUIDs -> Reminder \cup {None}]
      /\ DOMAIN remSnap = RemUIDs
      /\ haIssued \subseteq HAUIDs
  BY <1>0 DEF BootInv, LinkedSoFar, IInv, Issued, TypeOK
<1>2. CASE \E r \in RemUIDs : CreateInHA(r)
  <2>1. PICK r \in RemUIDs : CreateInHA(r)
    BY <1>2
  <2>2. /\ pc' = "add" /\ cur' = None /\ UNCHANGED <<rem, ha>>
        /\ add' = [rem |-> r, proj |-> remSnap[r].proj,
                   before |-> Present(ha), ha |-> None]
        /\ remSnap[r] # None
    BY <1>0, <2>1
    DEF CreateInHA, ListBefore, Refused, NextItem, Failed, BootInv, IInv, Shape
  <2>3. add'.rem = r /\ add'.proj = rem[r].proj /\ rem[r] # None
    BY <1>1, <2>2
  <2>4. QED
    BY <1>0, <1>1, <2>2, <2>3 DEF LinkedSoFar, PairInStep
<1>3. CASE \E h \in HAUIDs : CreateInReminders(h)
  <2>1. PICK h \in HAUIDs : CreateInReminders(h)
    BY <1>3
  <2>2. PICK r \in RemUIDs \ remIssued :
          /\ pc' = "echo" /\ add' = None /\ UNCHANGED ha
          /\ rem'[r] # None
          /\ cur' = [rem |-> r, ha |-> h, proj |-> rem'[r].proj]
    BY <1>0, <2>1, CreatedFacts DEF Failed, BootInv
  <2>3. \A s \in remIssued : rem'[s] = rem[s]
    BY <1>1, <2>1, CreatedFacts DEF BootInv, IInv, TypeOK
  <2>4. remIssued \subseteq remIssued'
    BY <2>1, CreatedFacts DEF BootInv
  <2>5. QED
    BY <1>0, <1>1, <2>2, <2>3, <2>4 DEF LinkedSoFar, PairInStep
<1>4. CASE EchoToHA
  <2>1. cur \in Work /\ cur # None /\ add = None /\ pc = "echo"
    BY <1>4, ConstantsAssumption
    DEF EchoToHA, BootInv, IInv, Shape, ConstantsAssumption
  <2>2. /\ pc' = "save" /\ cur' = cur /\ add' = None /\ UNCHANGED rem
        /\ ha' = [ha EXCEPT ![cur.ha] = Item(cur.proj)]
    BY <1>0, <1>4 DEF EchoToHA, UpdateItem, Refused, NextItem, Failed
  <2>3. rem[cur.rem] # None /\ rem[cur.rem].proj = cur.proj
    BY <1>0, <2>1 DEF BootInv, LinkedSoFar
  <2>4. \A s \in Tracked : PairInStep(s)'
    <3>1. \A s \in Tracked : db[s].ha = cur.ha => s = cur.rem
      BY <2>1 DEF BootInv, IInv, CurrentRow, Injective
    <3>2. QED
      BY <1>0, <1>1, <2>1, <2>2, <2>3, <3>1 DEF PairInStep
  <2>5. QED
    BY <1>0, <1>1, <2>1, <2>2, <2>3, <2>4 DEF LinkedSoFar
<1>5. CASE AddItem \/ ResolveUID \/ ApplyToAdded
  <2>1. /\ pc \in {"add", "after", "apply"}
        /\ add \in Adding /\ add # None /\ cur = None
    BY <1>0, <1>5, ConstantsAssumption
    DEF AddItem, ResolveUID, ApplyToAdded, BootInv, IInv, Shape, Phases,
        ConstantsAssumption
  <2>2. /\ cur' = None /\ UNCHANGED rem
        /\ add' # None => add'.rem = add.rem /\ add'.proj = add.proj
    BY <1>0, <1>5, <2>1
    DEF AddItem, ResolveUID, ApplyToAdded, UpdateItem, Refused, NextItem
  <2>3. rem[add.rem] # None /\ rem[add.rem].proj = add.proj
    BY <1>0, <2>1 DEF BootInv, LinkedSoFar
  <2>4. \A h \in LinkedHA : ha'[h] = ha[h]
    <3>1. CASE AddItem
      BY <1>1, <3>1 DEF AddItem
    <3>2. CASE ApplyToAdded
      <4>1. add.ha \notin LinkedHA
        BY <3>2 DEF ApplyToAdded, BootInv, IInv, AddedRow
      <4>2. UNCHANGED ha \/ ha' = [ha EXCEPT ![add.ha] = Item(add.proj)]
        BY <3>2 DEF ApplyToAdded, UpdateItem
      <4>3. QED
        BY <1>1, <4>1, <4>2
    <3>3. QED
      BY <1>5, <3>1, <3>2 DEF ResolveUID
  <2>5. pc' # "save" /\ (pc' = "saveNew" => ha'[add'.ha] = Item(add'.proj))
    BY <1>0, <1>1, <1>5, <2>1 DEF AddItem, ResolveUID, ApplyToAdded,
      UpdateItem, Refused, NextItem, BootInv, IInv, Shape
  <2>6. QED
    BY <1>0, <1>1, <2>2, <2>3, <2>4, <2>5 DEF LinkedSoFar, PairInStep
<1>6. QED
  BY <1>2, <1>3, <1>4, <1>5 DEF Create

LEMMA LinkedSoFarKept ==
    ASSUME BootInv, [BootNext]_allvars
    PROVE  LinkedSoFar'
<1>1. CASE boot' \notin {"match", "run"}
  BY <1>1 DEF LinkedSoFar
<1>2. CASE Users
  BY <1>2, UsersLinked
<1>3. CASE Execute /\ boot' = "run"
  <2>1. ~Failed
    BY <1>3 DEF Execute
  <2>2. CASE \E r \in RemUIDs, h \in HAUIDs : LinkMatched(r, h)
    BY <1>3, <2>1, <2>2, LinkMatchedLinked
  <2>3. CASE Create
    BY <1>3, <2>1, <2>3, SaveRowLinked, SaveAddedLinked, CreateLinked
    DEF Create
  <2>4. QED
    BY <1>3, <2>2, <2>3 DEF Execute
<1>4. QED
  BY <1>1, <1>2, <1>3, ReadingLinked
  DEF BootNext, Unanswered, Skip, Decline, Cancelled, Exit, Execute, Abort,
      Complete, Passes, Restart

LEMMA BootInvKept ==
    ASSUME BootInv, [BootNext]_allvars
    PROVE  BootInv'
<1>1. IInv' /\ LinkedSoFar'
  BY IInvKept, LinkedSoFarKept
<1>2. CASE Decline \/ Abort \/ Restart
  <2>1. Exit
    BY <1>2 DEF Decline, Cancelled, Abort, Restart
  <2>2. QED
    BY <1>1, <2>1, ExitStarts DEF Starts, BootInv
<1>3. CASE Skip \/ FetchReminders \/ FetchItems \/ Agree \/ Complete \/ Passes
           \/ Users \/ UNCHANGED allvars
           \/ \E r \in RemUIDs : MatchReminder(r)
  BY <1>1, <1>3, SkipStarts, FetchRemindersStarts, FetchItemsStarts,
     AgreeStarts, CompleteStarts, PassesStarts, UsersStarts,
     MatchReminderStarts DEF Starts, BootInv
<1>4. CASE Execute
  <2>1. /\ boot' = IF Failed THEN "failed" ELSE "run"
        /\ UNCHANGED <<listed, unvisited, allowed>>
    BY <1>4 DEF Execute
  <2>2. CASE \E r \in RemUIDs, h \in HAUIDs : LinkMatched(r, h)
    BY <1>1, <2>1, <2>2, LinkMatchedStarts DEF Starts, BootInv
  <2>3. CASE Create
    <3>1. boot = "run" /\ UNCHANGED match
      BY <2>3 DEF Create
    <3>2. QED
      BY <1>1, <2>1, <2>3, <3>1, SaveRowStarts, SaveAddedStarts, CreateStarts
      DEF Starts, BootInv
  <2>4. QED
    BY <1>4, <2>2, <2>3 DEF Execute
<1>5. QED
  BY <1>2, <1>3, <1>4 DEF BootNext, Unanswered

(* A first run starts from any two lists; nothing is linked. *)
LEMMA BootInitInvariant ==
    ASSUME BootInit
    PROVE  BootInv
<1>1. PICK p \in SUBSET RemUIDs, q \in SUBSET HAUIDs :
        /\ IsFiniteSet(p) /\ IsFiniteSet(q)
        /\ tasks = Cardinality(p) + Cardinality(q)
        /\ remIssued = p /\ haIssued = q
        /\ \E f \in [p -> Reminder], g \in [q -> HAItem] :
             /\ rem = [r \in RemUIDs |-> IF r \in p THEN f[r] ELSE None]
             /\ ha = [h \in HAUIDs |-> IF h \in q THEN g[h] ELSE None]
  BY DEF BootInit
<1>2. /\ rem \in [RemUIDs -> Reminder \cup {None}] /\ Present(rem) \subseteq p
      /\ ha \in [HAUIDs -> HAItem \cup {None}] /\ Present(ha) \subseteq q
  BY <1>1
<1>3. tasks \in Nat
  BY <1>1, FS_CardinalityType
<1>4. Tracked = {} /\ LinkedHA = {}
  BY DEF BootInit
<1> USE <1>4 DEF BootInit, NoReminders, NoItems
<1>5. TypeOK BY <1>1, <1>2, <1>3 DEF TypeOK
<1>6. Shape BY DEF Shape
<1>7. Issued BY <1>1, <1>2 DEF Issued
<1>8. Injective BY DEF Injective
<1>9. StillNew BY DEF StillNew
<1>10. CurrentRow BY DEF CurrentRow
<1>11. AddedRow BY DEF AddedRow
<1>12. GoneIsGone BY DEF GoneIsGone
<1>13. CompletionLinksResolve BY DEF CompletionLinksResolve
<1>14. IInv
  BY <1>5, <1>6, <1>7, <1>8, <1>9, <1>10, <1>11, <1>12, <1>13 DEF IInv
<1>a. /\ boot = "start" /\ listed = <<>> /\ unvisited = {} /\ match = {}
      /\ allowed = FALSE
  OBVIOUS
<1>b. \A i \in DOMAIN listed : listed[i] \in HAUIDs
  BY <1>a
<1>15. BootTypeOK
  <2> HIDE DEF BootInit
  <2>1. QED BY <1>a, <1>b DEF BootTypeOK
<1>16. Phases BY DEF Phases
<1>17. Matched BY DEF Matched
<1>18. Accounted BY DEF Accounted
<1>19. LinkedSoFar BY DEF LinkedSoFar
<1>20. QED
  BY <1>14, <1>15, <1>16, <1>17, <1>18, <1>19 DEF BootInv

LEMMA DaemonInitInvariant ==
    ASSUME DaemonInit
    PROVE  BootInv
<1>1. IInv /\ db \in [RemUIDs -> Row \cup {None}]
  BY InitInvariant DEF DaemonInit, IInv, TypeOK
<1>2. /\ boot = "over" /\ listed = <<>> /\ unvisited = {} /\ match = {}
      /\ allowed = TRUE
  BY DEF DaemonInit
<1>3. \A i \in DOMAIN listed : listed[i] \in HAUIDs
  BY <1>2
<1>4. BootTypeOK BY <1>2, <1>3 DEF BootTypeOK
<1>5. Phases BY <1>2 DEF Phases
<1>6. Matched BY <1>2 DEF Matched
<1>7. Accounted BY <1>2 DEF Accounted
<1>8. LinkedSoFar BY <1>2 DEF LinkedSoFar
<1>9. QED BY <1>1, <1>4, <1>5, <1>6, <1>7, <1>8 DEF BootInv

-------------------------------------------------------------------------------
(* The invariant of passes and starts holds from a first run on ... *)
THEOREM BootInvariant == BootSpec => []BootInv
<1>1. BootInit => BootInv
  BY BootInitInvariant
<1>2. BootInv /\ [BootNext]_allvars => BootInv'
  BY BootInvKept
<1>3. QED
  BY <1>1, <1>2, PTL DEF BootSpec

(* ... and through all restarts of the daemon that set-up has installed. *)
THEOREM DaemonInvariant == DaemonSpec => []BootInv
<1>1. DaemonInit => BootInv
  BY DaemonInitInvariant
<1>2. BootInv /\ [BootNext]_allvars => BootInv'
  BY BootInvKept
<1>3. QED
  BY <1>1, <1>2, PTL DEF DaemonSpec

(* Duplicate titles, items that name a reminder, a bootstrap that fails half
   way and the passes that follow it: no HA item ever gets two rows. *)
THEOREM BootLinksInjective == BootSpec => []LinksInjective
<1>1. BootInv => LinksInjective
  BY InvariantInjective DEF BootInv
<1>2. QED
  BY <1>1, BootInvariant, PTL

(* A bootstrap reports success only if all it had read is linked. *)
THEOREM SuccessLinksAll == BootSpec => AllLinked
<1>1. ASSUME BootInv, [BootNext]_allvars, boot = "run", boot' = "over"
      PROVE  Present(remSnap) \subseteq Tracked /\ Present(haSnap) \subseteq LinkedHA
  <2>1. Complete
    <3>1. ~Exit /\ ~Execute
      BY <1>1 DEF Exit, Execute
    <3>2. boot' # boot
      BY <1>1
    <3>3. QED
      BY <1>1, <3>1, <3>2
      DEF BootNext, Unanswered, Skip, FetchReminders, FetchItems, Decline,
          Cancelled, MatchReminder, Abort, Passes, Agree, Restart, Users,
          allvars
  <2>2. /\ match = {} /\ newRem = {} /\ newHA = {}
        /\ cur = None /\ add = None
    BY <2>1, <1>1 DEF Complete, EndPass, BootInv, IInv, Shape
  <2>3. QED
    BY <1>1, <2>2 DEF BootInv, Accounted
<1>2. BootInv /\ [BootNext]_allvars =>
        [boot = "run" /\ boot' = "over" =>
           Present(remSnap) \subseteq Tracked /\ Present(haSnap) \subseteq LinkedHA
        ]_allvars
  BY <1>1
<1>3. QED
  BY <1>2, BootInvariant, PTL DEF BootSpec, AllLinked

(* ... and then, unless users have edited something meanwhile, every pair it
   has linked shows iCloud's content on both sides. *)
THEOREM SuccessIsInStep == BootSpec => LinkedInStep
<1>1. ASSUME BootInv, boot = "run", edits = 0
      PROVE  \A r \in Tracked : PairInStep(r)
  BY <1>1 DEF BootInv, LinkedSoFar
<1>2. BootInv /\ [BootNext]_allvars =>
        [boot = "run" /\ boot' = "over" /\ edits = 0 =>
           \A r \in Tracked : PairInStep(r)]_allvars
  BY <1>1
<1>3. QED
  BY <1>2, BootInvariant, PTL DEF BootSpec, LinkedInStep

(* A process that found no row and was not told yes writes nothing. *)
THEOREM NothingUnasked == BootSpec => AskedFirst
<1>1. ASSUME BootInv, [BootNext]_allvars, ~allowed, ~User
      PROVE  UNCHANGED <<world, store>>
  <2>1. boot \notin {"run", "over"}
    BY <1>1 DEF BootInv, Phases
  <2>2. ~Execute /\ ~Complete /\ ~Passes /\ ~Users
    BY <1>1, <2>1
    DEF Execute, Create, LinkMatched, Complete, Passes, Users
  <2>3. QED
    BY <1>1, <2>2
    DEF BootNext, Unanswered, Skip, FetchReminders, FetchAll, FetchItems,
        GetItems, Decline, Cancelled, MatchReminder, Abort, Agree, Restart,
        Exit, allvars, vars
<1>2. BootInv /\ [BootNext]_allvars =>
        [~allowed /\ ~User => UNCHANGED <<world, store>>]_allvars
  BY <1>1
<1>3. QED
  BY <1>2, BootInvariant, PTL DEF BootSpec, AskedFirst

(* Neither starts nor passes delete a copy but as the echo of a deletion. *)
LEMMA BootMirrorStep ==
    ASSUME BootInv, [BootNext]_allvars
    PROVE  [User \/ DeletionMirrored]_vars
<1> USE DEF BootInv
<1>1. CASE Relay
  BY <1>1, MirrorStep
<1>2. CASE UNCHANGED <<rem, ha>>
  BY <1>2 DEF DeletionMirrored
<1>3. CASE \E r \in RemUIDs, h \in HAUIDs : LinkMatched(r, h)
  <2>1. PICK r \in RemUIDs, h \in HAUIDs : LinkMatched(r, h)
    BY <1>3
  <2>2. UNCHANGED rem
        /\ (UNCHANGED ha \/ ha' = [ha EXCEPT ![h] = Item(Pushed(r, h))])
    BY <2>1, UpdateItemOutcomes DEF LinkMatched
  <2>3. Pushed(r, h) \in Projection
    BY <2>1 DEF LinkMatched, Matched, Pushed, IInv, TypeOK
  <2>4. Item(Pushed(r, h)) # None
    BY <2>3, ConstantsAssumption DEF Item, ConstantsAssumption
  <2>5. QED
    BY <2>2, <2>4 DEF DeletionMirrored, IInv, TypeOK
<1>4. QED
  BY <1>1, <1>2, <1>3, CreateIsRelay
  DEF BootNext, Unanswered, Skip, FetchReminders, FetchItems, GetItems,
      FetchAll, Decline, Cancelled, MatchReminder, Execute, Abort, Complete,
      EndPass, Passes, Agree, Restart, Users, Exit, allvars, vars

(* A task is destroyed only if a user deleted it, whatever is linked when. *)
THEOREM BootOnlyUsersDelete == BootSpec => DeletionsMirrorUsers
<1>1. BootInv /\ [BootNext]_allvars => [User \/ DeletionMirrored]_vars
  BY BootMirrorStep
<1>2. QED
  BY <1>1, BootInvariant, PTL DEF BootSpec, DeletionsMirrorUsers
===============================================================================
