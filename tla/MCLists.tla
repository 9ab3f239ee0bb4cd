------------------------------- MODULE MCLists -------------------------------
(* Small instances of Lists for TLC. *)
EXTENDS Lists, TLC

CONSTANTS MaxUIDs,       \* bound: UIDs each side can hand out
          A, B, X,       \* lists
          e, f           \* entities

UIDs      == 1 .. MaxUIDs
OneList   == {A}
TwoLists  == {A, B}
ThreeLists == {A, B, X}
TwoEntities == {e, f}

(* Two lists; one list that is given another entity; two lists of one entity. *)
Both    == {A :> e @@ B :> f}
Changed == {A :> e, A :> f}
Shared  == {A :> e @@ B :> e}

(* Two of a move, a deletion and a failure: every hazard combines no more. *)
TwoTroubles == moves + edits + faults <= 2

(* UIDs are interchangeable: handing them out in order loses nothing. *)
InOrder == /\ remIssued = 1 .. Cardinality(remIssued)
           /\ haIssued = 1 .. Cardinality(haIssued)
===============================================================================
