----------------------------- MODULE MCReconciler -----------------------------
(* Small instances of Reconciler for TLC. *)
EXTENDS ReconcilerInvariant, TLC

CONSTANTS MaxUIDs,       \* bound: UIDs each side can hand out
          norules, weekly, workdays, t1, t2

UIDs       == 1 .. MaxUIDs
OneText    == {t1}
TwoTexts   == {t1, t2}
Nothing    == {}
First      == {1}

(* No recurrence; or every week, which HA can ask for, and every week on
   workdays, which HA cannot tell from it. *)
NoRecurrence == {norules}
OnlyOnce     == {"once"}
OnceLabel    == norules :> "once"
OnceRules    == "once" :> norules

Recurrence   == {norules, weekly, workdays}
OnceOrWeekly == {"once", "weekly"}
TwoRules     == {norules, weekly}
PlainLabel   == norules :> "once" @@ weekly :> "weekly"
WeeklyLabel  == norules :> "once" @@ weekly :> "weekly" @@ workdays :> "weekly"
WeeklyRules  == "once" :> norules @@ "weekly" :> weekly

(* Users change one field of a task at a time. *)
Differ(p, q) == {f \in {"text", "freq", "done"} : p[f] # q[f]}

OneField ==
    edits' # edits =>
      /\ \A r \in Present(rem') : rem'[r] # rem[r] =>
           IF rem'[r].rules = rem[r].rules
           THEN Cardinality(Differ(rem'[r].proj, rem[r].proj)) = 1
           ELSE Differ(rem'[r].proj, rem[r].proj) \subseteq {"freq"}
      /\ \A h \in Present(ha') : ha'[h] # ha[h] =>
           Cardinality(Differ(ha'[h].proj, ha[h].proj)) = 1

(* One failure or crash, wherever it strikes. *)
OneFailure == faults + crashes <= 1

(* Texts are interchangeable, too (for runs without liveness). *)
Symmetry == Permutations({t1, t2})

(* UIDs are interchangeable, so it is enough to hand them out in order: every
   other behaviour is one of these with the UIDs renamed. *)
InOrder == /\ remIssued = 1 .. Cardinality(remIssued)
           /\ haIssued = 1 .. Cardinality(haIssued)
===============================================================================
