----------------------------- MODULE MCBootstrap ------------------------------
(* Small instances of Bootstrap for TLC. *)
EXTENDS Bootstrap

CONSTANTS MaxUIDs,       \* bound: UIDs each side can hand out
          norules, t1, t2

UIDs      == 1 .. MaxUIDs
OneText   == {t1}
TwoTexts  == {t1, t2}
Nothing   == {}
First     == {1}
FirstTwo  == {1, 2}

(* Nothing recurs. *)
NoRecurrence == {norules}
OnlyOnce     == {"once"}
OnceLabel    == norules :> "once"
OnceRules    == "once" :> norules

(* A text has a title of its own. *)
Same(t, u) == t = u

(* UIDs are handed out in order, see MCReconciler. *)
InOrder == /\ remIssued = 1 .. Cardinality(remIssued)
           /\ haIssued = 1 .. Cardinality(haIssued)

(* Start: tasks are open, the first reminder has the first title, and only one
   item has the metadata block of older releases. *)
SmallInit ==
    /\ BootInit
    /\ \A r \in Present(rem) : /\ ~rem[r].proj.done
                               /\ r = 1 => rem[r].proj.text = t1
    /\ \A h \in Present(ha) : /\ ~ha[h].proj.done
                              /\ ha[h].canon # None => h = 1

FairSmallSpec == SmallInit /\ [][BootNext]_allvars /\ Running

(* The long wait is the prompt: users act before a start or a pass, and while
   the summary is up.  Between the calls of a pass they act in MCReconciler.
   They write the first title only, and add open tasks. *)
Wrote(side) ==
    \A i \in Present(side') : side'[i] # side[i] =>
        /\ side'[i].proj.text = t1
        /\ side[i] = None => ~side'[i].proj.done

CallsUndisturbed ==
    \/ tasks' = tasks /\ edits' = edits
    \/ /\ Asking \/ pc = "idle"
       /\ Wrote(rem) /\ Wrote(ha)
       /\ \A h \in Present(ha') : ha[h] = None => ha'[h].canon = None
===============================================================================
