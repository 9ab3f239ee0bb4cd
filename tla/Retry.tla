--------------------------------- MODULE Retry ---------------------------------
(***************************************************************************)
(* A call to Home Assistant (internal/homeassistant): Retry and            *)
(* backoffDelay of retry.go around one HTTP request of haClientWrapper,    *)
(* with a context that may be cancelled at any time, a connection that may *)
(* break at any time, and a Home Assistant that may never answer: the HTTP *)
(* client has no timeout.  A request the client has given up may still be  *)
(* carried out.                                                            *)
(***************************************************************************)
EXTENDS Integers

CONSTANTS
    Limits,     \* the values of maxAttempts
    BaseDelay, MaxDelay    \* of the backoff, in ticks

(* Half of a delay is at least a tick. *)
ASSUME RetryAssumption ==
    /\ Limits \subseteq Nat
    /\ {BaseDelay, MaxDelay} \subseteq Nat \ {0, 1}

VARIABLES
    limit,      \* maxAttempts
    pc,         \* where Retry is
    attempt,    \* the attempt it is making
    delay,      \* ticks left of the wait before the next one
    cancelled,  \* is the context done?
    reply,      \* Home Assistant's answer to the request under way
    asked,      \* requests sent
    performed,  \* requests Home Assistant has carried out
    late        \* requests given up that it may still carry out

ha   == <<performed, late>>
vars == <<limit, pc, attempt, delay, cancelled, reply, asked, ha>>

Returned == {"ok", "failed"}

TypeOK ==
    /\ limit \in Limits
    /\ pc \in {"loop", "call", "wait"} \cup Returned
    /\ attempt \in Nat
    /\ cancelled \in BOOLEAN
    /\ reply \in {"none", "open", "done", "refused"}
    /\ asked \in Nat /\ performed \in Nat /\ late \in Nat

Init ==
    /\ limit \in Limits
    /\ pc = "loop" /\ attempt = 0 /\ delay = 0
    /\ cancelled \in BOOLEAN
    /\ reply = "none"
    /\ asked = 0 /\ performed = 0 /\ late = 0

-------------------------------------------------------------------------------
(* Mutant: one attempt too many. *)
OneMore == attempt <= limit

AttemptsLeft == attempt < limit

(* The head of the loop: the context is looked at before every attempt. *)
Loop ==
    /\ pc = "loop"
    /\ IF AttemptsLeft /\ ~cancelled
       THEN pc' = "call" /\ reply' = "open" /\ asked' = asked + 1
       ELSE pc' = "failed" /\ UNCHANGED <<reply, asked>>
    /\ UNCHANGED <<limit, attempt, delay, cancelled, ha>>

(* backoffDelay doubles the delay up to a cap; the larger half of it is fixed,
   the other one drawn. *)
Half(n) ==
    LET doubled == BaseDelay * 2^n
    IN  (IF doubled > MaxDelay THEN MaxDelay ELSE doubled) \div 2

Another == attempt < limit - 1

(* fn has failed. *)
Backoff ==
    /\ reply' = "none"
    /\ IF ~Another
       THEN pc' = "loop" /\ attempt' = attempt + 1 /\ UNCHANGED delay
       ELSE /\ UNCHANGED attempt
            /\ pc' = "wait"
            /\ \E jitter \in 0 .. Half(attempt) - 1 :
                 delay' = Half(attempt) + jitter
    /\ UNCHANGED <<limit, cancelled, asked, performed>>

(* CallService returns: the response, a status that is an error ... *)
Answered ==
    /\ pc = "call" /\ reply = "done"
    /\ pc' = "ok" /\ reply' = "none"
    /\ UNCHANGED <<limit, attempt, delay, cancelled, asked, ha>>

Refused ==
    /\ pc = "call" /\ reply = "refused"
    /\ Backoff /\ UNCHANGED late

(* ... or no response: the request may be carried out, now or later. *)
Unanswered ==
    /\ pc = "call"
    /\ Backoff
    /\ late' = IF reply = "open" THEN late + 1 ELSE late

(* Mutant: the request is not bound to the context. *)
Never == FALSE

GivesUp == cancelled

Abort == GivesUp /\ Unanswered

(* The wait ends with the delay or with the context. *)
Tick ==
    /\ pc = "wait" /\ delay > 0
    /\ delay' = delay - 1
    /\ UNCHANGED <<limit, pc, attempt, cancelled, reply, asked, ha>>

TimeUp ==
    /\ pc = "wait" /\ delay = 0
    /\ pc' = "loop" /\ attempt' = attempt + 1
    /\ UNCHANGED <<limit, delay, cancelled, reply, asked, ha>>

CancelWait ==
    /\ pc = "wait" /\ cancelled
    /\ pc' = "failed"
    /\ UNCHANGED <<limit, attempt, delay, cancelled, reply, asked, ha>>

Run == \/ Loop \/ Answered \/ Refused \/ Abort
       \/ Tick \/ TimeUp \/ CancelWait

(* Home Assistant, the network, and who cancels. *)
Serve ==
    /\ pc = "call" /\ reply = "open"
    /\ \/ reply' = "done" /\ performed' = performed + 1
       \/ reply' = "refused" /\ UNCHANGED performed
    /\ UNCHANGED <<limit, pc, attempt, delay, cancelled, asked, late>>

ServeLate ==
    /\ late > 0
    /\ late' = late - 1 /\ performed' = performed + 1
    /\ UNCHANGED <<limit, pc, attempt, delay, cancelled, reply, asked>>

Break == Unanswered

Cancel ==
    /\ ~cancelled /\ cancelled' = TRUE
    /\ UNCHANGED <<limit, pc, attempt, delay, reply, asked, ha>>

Next == Run \/ Serve \/ ServeLate \/ Break \/ Cancel

Spec == Init /\ [][Next]_vars

(* The goroutine goes on and timers fire; nothing is assumed of Home Assistant,
   the network or the user. *)
FairSpec == Spec /\ WF_vars(Run)

-------------------------------------------------------------------------------
(***************************************************************************)
(* What makes a call correct.                                              *)
(***************************************************************************)
(* The inductive invariant: requests are counted by the attempts, and what is
   performed, under way or given up was asked for. *)
RetryInv ==
    /\ TypeOK
    /\ attempt <= limit
    /\ asked <= attempt + (IF pc \in {"loop"} THEN 0 ELSE 1)
    /\ pc = "call" => attempt < limit
    /\ pc = "wait" => attempt < limit - 1
    /\ asked <= limit
    /\ reply # "none" <=> pc = "call"
    /\ performed + late + (IF reply = "open" THEN 1 ELSE 0) <= asked
    /\ reply = "done" \/ pc = "ok" => performed > 0

(* A change is never carried out more often than it was asked for, at most
   maxAttempts times, and a call that succeeds was carried out, whatever is
   lost, refused, repeated, given up and carried out late. *)
Promise == INSTANCE Call
    WITH outcome <- IF pc \in Returned THEN pc ELSE "pending"

Implements == Promise!Spec

(* A call returns once it is cancelled, even if Home Assistant never answers;
   and it returns if every request is answered or broken off. *)
Returns ==
    <>cancelled \/ []<>(reply # "open") => <>(pc \in Returned)
===============================================================================
