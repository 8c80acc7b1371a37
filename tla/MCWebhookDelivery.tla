-------------------------- MODULE MCWebhookDelivery --------------------------
(***************************************************************************)
(* Ordered delivery for TLC: the destination is changed and paused beside  *)
(* the dispatcher.  The order is not kept beside replays, which take an    *)
(* event's index, nor beside a deletion, which resets the cursor; so none  *)
(* of them takes part.                                                     *)
(***************************************************************************)
EXTENDS WebhookDelivery

OnlyUpdates == \A r \in Requests : pc'[r] # "idle" => loc'[r].op = "update"

OrderedSpec == Init /\ [][Next /\ OnlyUpdates]_vars /\ Fairness
=============================================================================
