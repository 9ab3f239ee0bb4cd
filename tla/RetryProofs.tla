------------------------------ MODULE RetryProofs ------------------------------
(***************************************************************************)
(* Proofs, for every bound of attempts and every backoff, of the invariant *)
(* of Retry and that Retry implements Call.                                *)
(***************************************************************************)
EXTENDS Retry, TLAPS

USE DEF ha, vars, Returned

LEMMA InitHolds == Init => RetryInv
BY RetryAssumption DEF RetryAssumption, Init, RetryInv, TypeOK

(* How an attempt fails: what happens to the attempts and to the request. *)
LEMMA Failed ==
    ASSUME RetryInv, Backoff
    PROVE  /\ reply' = "none" /\ UNCHANGED <<limit, cancelled, asked, performed>>
           /\ \/ pc' = "loop" /\ attempt' = attempt + 1
              \/ /\ pc' = "wait" /\ attempt' = attempt
                 /\ attempt < limit - 1
BY DEF Backoff, Another

LEMMA LimitIsNat == RetryInv => limit \in Nat
BY RetryAssumption DEF RetryAssumption, RetryInv, TypeOK

(* Every step keeps the requests accounted for. *)
LEMMA StepHolds == RetryInv /\ [Next]_vars => RetryInv'
<1> SUFFICES ASSUME RetryInv, [Next]_vars PROVE RetryInv'
  OBVIOUS
<1> USE LimitIsNat DEF RetryInv, TypeOK
<1>1. CASE Loop
  BY <1>1 DEF Loop, AttemptsLeft
<1>2. CASE Answered
  BY <1>2 DEF Answered
<1>3. CASE Refused
  BY <1>3, Failed DEF Refused
<1>4. CASE Unanswered
  BY <1>4, Failed DEF Unanswered
<1>5. CASE Tick \/ TimeUp \/ CancelWait
  BY <1>5 DEF Tick, TimeUp, CancelWait
<1>6. CASE Serve \/ ServeLate
  BY <1>6 DEF Serve, ServeLate
<1>7. CASE Cancel
  BY <1>7 DEF Cancel
<1>8. CASE UNCHANGED vars
  BY <1>8
<1>9. QED
  BY <1>1, <1>2, <1>3, <1>4, <1>5, <1>6, <1>7, <1>8
     DEF Next, Run, Abort, Break

(* Requests stay within maxAttempts, and nothing is carried out that was not
   asked for. *)
THEOREM RetryInvariant == Spec => []RetryInv
BY InitHolds, StepHolds, PTL DEF Spec

(* Every step of Retry is one of Call or changes nothing there. *)
LEMMA PromisedStep ==
    ASSUME RetryInv, [Next]_vars
    PROVE  [Promise!Next]_(Promise!vars)
<1> USE LimitIsNat
    DEF RetryInv, TypeOK, Promise!Next, Promise!vars, Promise!Ask,
        Promise!Perform, Promise!Succeed, Promise!Fail
<1>1. CASE Loop
  BY <1>1 DEF Loop, AttemptsLeft
<1>2. CASE Answered
  BY <1>2 DEF Answered
<1>3. CASE Refused \/ Unanswered
  BY <1>3, Failed DEF Refused, Unanswered
<1>4. CASE Tick \/ TimeUp \/ CancelWait
  BY <1>4 DEF Tick, TimeUp, CancelWait
<1>5. CASE Serve \/ ServeLate
  BY <1>5 DEF Serve, ServeLate
<1>6. CASE Cancel
  BY <1>6 DEF Cancel
<1>7. CASE UNCHANGED vars
  BY <1>7
<1>8. QED
  BY <1>1, <1>2, <1>3, <1>4, <1>5, <1>6, <1>7 DEF Next, Run, Abort, Break

(* A call keeps the promise of Call: at most maxAttempts times, at least once if
   it succeeds. *)
THEOREM RetryKeepsPromise == Spec => Implements
<1>1. Init => Promise!Init
  BY DEF Init, Promise!Init
<1>2. RetryInv /\ [Next]_vars => [Promise!Next]_(Promise!vars)
  BY PromisedStep
<1>3. QED
  BY <1>1, <1>2, RetryInvariant, PTL DEF Spec, Implements, Promise!Spec
===============================================================================
