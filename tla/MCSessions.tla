----------------------------- MODULE MCSessions -----------------------------
(***************************************************************************)
(* Sessions, the rate limiter and the deliveries of a webhook for TLC.  A  *)
(* behaviour carries one of seven loads: the account's passkeys and        *)
(* sessions are changed while sessions are used and minted, or while they  *)
(* are stepped up, and no time passes; or one session lives through time,  *)
(* with step-ups and touches; or, while the sessions rest, requests meet   *)
(* the limiter, or deliveries are attempted and pruned, and fail, while    *)
(* some are replayed or the destination is deleted, or while it is tested  *)
(* and its secret rotated.                                                 *)
(***************************************************************************)
EXTENDS Sessions, TLC

CONSTANTS c1, c2, i1, forger, Budget, Window, Hops,  \* of RateLimit
          q1, d1, d2, d3  \* of WebhookDelivery

VARIABLES
  work,                                                      \* the load
  windows, shared, phase, call, load, watched, admitted,     \* of RateLimit
  hook, cursor, deliveries, index, backlog, lock, at, loc, attempts, failures
                                                             \* of WebhookDelivery

limitVars == <<windows, shared, phase, call, load, watched, admitted>>
deliveryVars == <<hook, cursor, deliveries, index, backlog, lock, at, loc, attempts, failures>>

\* Two clients and a map that holds one; or a client, an identifier and room for both.
Limits == INSTANCE RateLimit WITH
  Clients <- {c1, c2}, Identifiers <- {i1}, Forged <- {forger},
  Traffic <- {[clients |-> {c1, c2}, identifiers |-> {}, capacity |-> 1],
              [clients |-> {c1}, identifiers |-> {i1}, capacity |-> 2]}

\* Replays, tests, rotations and deletion beside the dispatcher and retention.
Deliver == INSTANCE WebhookDelivery WITH
  mutation <- lock, pc <- at, Dispatcher <- "dispatcher",
  Requests <- {q1}, Operations <- {"replay", "test", "rotate", "delete"}, LastEvent <- 1,
  Deliverable <- {1}, Ids <- {d1, d2, d3}, MaxAttempts <- 2, Retention <- 0, MaxFailures <- 1

\* What the operator of the destination does: with three deliveries, or with two and a
\* failure.
Asked == [replays |-> {"replay", "delete"}, failing |-> {"replay", "delete"},
          tests |-> {"test", "rotate"}]
Delivering == work \in DOMAIN Asked

\* Requests are interchangeable, and so are tokens.
SessionSymmetry == Permutations(Requests) \cup Permutations(Tokens)

AtWork == {r \in Requests : pc'[r] # "idle"}

Carried ==
  \/ /\ work = "changes" /\ clock' = 0
     /\ \A r \in AtWork : req'[r].op # "stepUp"
  \/ /\ work = "stepUps" /\ clock' = 0
     /\ \A r \in AtWork : req'[r].op \in {"signIn", "addPasskey", "revokePasskey", "deviceToken", "stepUp"}
  \/ /\ work = "time" /\ Cardinality(DOMAIN born') <= 1
     /\ \A r \in AtWork : req'[r].op \in {"signIn", "agent", "token", "stepUp"}

RestLimits ==
  /\ windows = Nobody /\ shared = Nobody /\ phase = Nobody /\ call = Nobody /\ load = Nobody
  /\ watched = Nobody /\ admitted = Nobody

RestDelivery ==
  /\ hook = Nobody /\ cursor = Nobody /\ deliveries = Nobody /\ index = Nobody /\ backlog = Nobody
  /\ lock = Nobody /\ at = Nobody /\ loc = Nobody /\ attempts = Nobody /\ failures = Nobody

LoadInit ==
  /\ Init /\ work \in {"changes", "stepUps", "time", "limits"} \cup DOMAIN Asked
  /\ IF work = "limits" THEN Limits!LimitInit ELSE RestLimits
  /\ IF Delivering THEN Deliver!Init ELSE RestDelivery

LoadNext ==
  \/ Next /\ Carried /\ UNCHANGED <<work, limitVars, deliveryVars>>
  \/ work = "limits" /\ Limits!LimitNext /\ UNCHANGED <<work, vars, deliveryVars>>
  \/ /\ Delivering /\ Deliver!Next
     /\ at'[q1] # "idle" => loc'[q1].op \in Asked[work]
     /\ IF work = "replays" THEN failures' = 0 ELSE d3 \notin DOMAIN deliveries'
     /\ UNCHANGED <<work, vars, limitVars>>

LoadSpec == LoadInit /\ [][LoadNext]_<<vars, work, limitVars, deliveryVars>>

-----------------------------------------------------------------------------
\* At most twice the budget is admitted in a window's length, across restarts; requests are
\* charged to who sent them; and the limiter's map is bounded.
LimitsHold == work = "limits" => Limits!LimitsHold

\* The stored backlog is the number of unfinished deliveries.
BacklogIsExact == Delivering => Deliver!BacklogIsExact
=============================================================================
