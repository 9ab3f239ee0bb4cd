------------------------------- MODULE MCEngine -------------------------------
(* A small instance of Engine for TLC. *)
EXTENDS Engine, TLC

CONSTANTS home, work

TwoLists == {home, work}
OneList  == {home}
===============================================================================
