-------------------------------- MODULE MCRetry --------------------------------
(* A small instance of Retry for TLC. *)
EXTENDS Retry

(* No attempt at all, one, the three of defaultMaxAttempts, and one more. *)
UpToFour == 0 .. 4
===============================================================================
