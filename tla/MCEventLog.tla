----------------------------- MODULE MCEventLog -----------------------------
(***************************************************************************)
(* The event log for TLC: either destinations that come and go, with the   *)
(* dispatcher reading the log for them, or event streams and appends of    *)
(* several events.                                                         *)
(***************************************************************************)
EXTENDS EventLog, TLC

\* Requests are interchangeable.
HandlerSymmetry == Permutations(Handlers)

Destinations == \A s \in Streams : scan[s] = Closed
OneAtATime   == \A h \in Handlers : req[h].size <= 1
StreamsOnly  == created = {} /\ dispatch = NoPass

\* A behaviour carries one of the two loads.
OneLoad == (Destinations /\ OneAtATime) \/ StreamsOnly
=============================================================================
