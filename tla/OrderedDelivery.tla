--------------------------- MODULE OrderedDelivery ---------------------------
(***************************************************************************)
(* What a webhook destination is promised: "A destination cursor advances  *)
(* only after success or terminal failure, giving at-least-once delivery   *)
(* without silently skipping events" (docs/API.md).  Events are attempted  *)
(* in the order of the log, one at a time; the next one is taken up when   *)
(* the last one was accepted, refused for good, or attempted MaxAttempts   *)
(* times.                                                                  *)
(***************************************************************************)
EXTENDS Naturals

CONSTANTS Events, Deliverable, MaxAttempts

VARIABLES
  passed,   \* the number of events that are done with
  attempts  \* for each event, what came of its attempts

vars == <<passed, attempts>>

Untried  == [tries |-> 0, closed |-> FALSE]
Over(a)  == a.closed \/ a.tries >= MaxAttempts

\* One more answer: one that closes the event, or one that asks for a retry.
Answered(a, closes) ==
  [tries |-> IF a.tries < MaxAttempts THEN a.tries + 1 ELSE a.tries, closed |-> a.closed \/ closes]

Init == passed = 0 /\ attempts = [s \in Events |-> Untried]

Attempt ==
  /\ passed + 1 \in Deliverable
  /\ \E closes \in BOOLEAN :
       attempts' = [attempts EXCEPT ![passed + 1] = Answered(@, closes)]
  /\ UNCHANGED passed

Advance ==
  /\ passed + 1 \in Events
  /\ passed + 1 \in Deliverable => Over(attempts[passed + 1])
  /\ passed' = passed + 1
  /\ UNCHANGED attempts

Spec == Init /\ [][Attempt \/ Advance]_vars
=============================================================================
