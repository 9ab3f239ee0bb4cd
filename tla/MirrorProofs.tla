----------------------------- MODULE MirrorProofs -----------------------------
(***************************************************************************)
(* What every system that keeps the promise of Mirror has: one-to-one      *)
(* pairs, and UIDs that are handed out before they are used.               *)
(***************************************************************************)
EXTENDS Mirror, TLAPS

MirrorInv == TypeOK /\ Known /\ OneToOne

LEMMA MirrorInvStep ==
    ASSUME MirrorInv, [Next]_vars
    PROVE  MirrorInv'
<1> USE DEF MirrorInv, TypeOK, Known, OneToOne, LinkedReminders, LinkedItems
<1>1. CASE NewReminder BY <1>1 DEF NewReminder
<1>2. CASE NewItem BY <1>2 DEF NewItem
<1>3. CASE Edit BY <1>3 DEF Edit
<1>4. CASE CopyItem BY <1>4 DEF CopyItem
<1>4a. CASE CopyRecurring BY <1>4a DEF CopyRecurring
<1>5. CASE CopyReminder BY <1>5 DEF CopyReminder
<1>6. CASE Link
  <2>1. PICK r \in remIssued \ LinkedReminders, h \in haIssued \ LinkedItems :
          pairs' = pairs \cup {<<r, h>>}
    BY <1>6 DEF Link
  <2>2. \A p \in pairs : p[1] # r /\ p[2] # h
    OBVIOUS
  <2>3. OneToOne'
    BY <2>1, <2>2
  <2>4. QED
    BY <1>6, <2>1, <2>3 DEF Link
<1>7. CASE MirrorDeletion BY <1>7 DEF MirrorDeletion
<1>8. CASE Forget BY <1>8 DEF Forget
<1>9. CASE UNCHANGED vars BY <1>9 DEF vars
<1>10. QED
  BY <1>1, <1>2, <1>3, <1>4, <1>4a, <1>5, <1>6, <1>7, <1>8, <1>9 DEF Next

(* Pairs are one to one, and only what was handed out is there or linked. *)
THEOREM PromiseIsOneToOne == Spec => [](TypeOK /\ Known /\ OneToOne)
<1>1. Init => MirrorInv
  BY DEF Init, MirrorInv
<1>2. MirrorInv /\ [Next]_vars => MirrorInv'
  BY MirrorInvStep
<1>3. QED
  BY <1>1, <1>2, PTL DEF Spec, MirrorInv
===============================================================================
