---------------------------------- MODULE Call ----------------------------------
(***************************************************************************)
(* What a change asked of Home Assistant comes to, however it is carried   *)
(* out: it may be performed several times, and even after the caller was   *)
(* told that it failed, but never more often than it was asked for, and    *)
(* never not at all when the caller was told that it succeeded.  Reconciler *)
(* assumes no more of ha.AddItem, which may leave MaxAttempts copies.      *)
(***************************************************************************)
EXTENDS Naturals

CONSTANT Limits   \* how often a call may be asked for

VARIABLES
    limit,      \* how often this one may be
    asked,      \* requests sent
    performed,  \* times Home Assistant has carried the change out
    outcome     \* what the caller has been told

vars == <<limit, asked, performed, outcome>>

Init == limit \in Limits /\ asked = 0 /\ performed = 0 /\ outcome = "pending"

Ask ==
    /\ outcome = "pending" /\ asked < limit
    /\ asked' = asked + 1
    /\ UNCHANGED <<limit, performed, outcome>>

Perform ==
    /\ performed < asked
    /\ performed' = performed + 1
    /\ UNCHANGED <<limit, asked, outcome>>

Succeed ==
    /\ outcome = "pending" /\ performed > 0
    /\ outcome' = "ok"
    /\ UNCHANGED <<limit, asked, performed>>

Fail ==
    /\ outcome = "pending"
    /\ outcome' = "failed"
    /\ UNCHANGED <<limit, asked, performed>>

Next == Ask \/ Perform \/ Succeed \/ Fail

Spec == Init /\ [][Next]_vars
===============================================================================
