------------------------- MODULE MCFleetConnections -------------------------
(***************************************************************************)
(* Connections of realms and the stream of a private one, for TLC: in a    *)
(* behaviour one of them is at work, while the other rests.                *)
(***************************************************************************)
EXTENDS FleetConnections, TLC

CONSTANTS h1, h2, q1, q2, e1, Resting

VARIABLES plan, clock, caller, hub, streams, connection, host, executed

streamVars == <<plan, clock, caller, hub, streams, connection, host, executed>>

\* What two callers ask for: the same thing twice, or two things one of which gets in the way
\* of the other.
Asks(id, what) == [id |-> id, what |-> what]

S == INSTANCE ConnectorStream WITH
  realm <- host, Callers <- {1, 2}, ExpiryTime <- 1, MaxExpiry <- 2, MaxClock <- 1, MaxStreams <- 2,
  Plans <- [room : {2}, asks : {<<Asks(1, "admin"), Asks(1, "admin")>>, <<Asks(1, "rotate"), Asks(1, "rotate")>>,
                                <<Asks(1, "rotate"), Asks(2, "admin")>>, <<Asks(1, "revoke"), Asks(1, "revoke")>>}]
           \cup [room : {1}, asks : {<<Asks(1, "read"), Asks(2, "admin")>>}]

MCEnvironments == {e1, "staging"}

\* How many calls are made, how many pairing codes, and by how many handlers at a time.
Load(ops, mode, handlers, requests, left, codes, environments) ==
  [ops |-> ops, mode |-> mode, handlers |-> handlers, requests |-> requests, left |-> left,
   codes |-> codes, environments |-> environments]

Pairing   == Load({"begin", "complete"}, "public", {h1, h2}, {q1, q2}, 2, 2, {e1})
Reassign  == Load({"begin", "complete", "revoke"}, "public", {h1}, {q1, q2}, 3, 2, {e1})
Outbound  == Load({"begin", "pair", "rotate"}, "outbound", {h1}, {q1, q2}, 4, 1, {e1})
Rotation  == Load({"rotate", "revoke"}, "public", {h1, h2}, {q1, q2}, 3, 0, {})
Remote    == Load({"mutate", "rotate"}, "public", {h1, h2}, {q1}, 3, 0, {})
Reading   == Load({"mutate", "read", "revoke"}, "public", {h1, h2}, {q1}, 3, 0, {})

-----------------------------------------------------------------------------

StreamRests ==
  /\ plan = Resting /\ clock = Resting /\ caller = Resting /\ hub = Resting
  /\ streams = Resting /\ connection = Resting /\ host = Resting /\ executed = Resting

\* At work: either there is a workload that calls, or there is a plan.
Idles == Load({}, "public", {}, {}, 0, 0, {})

MCWorkloads == {Pairing, Reassign, Outbound, Rotation, Remote, Reading, Idles}

MCInit == Init /\ IF workload = Idles THEN S!StreamInit ELSE StreamRests

MCNext ==
  \/ workload # Idles /\ Next /\ UNCHANGED streamVars
  \/ workload = Idles /\ S!StreamNext /\ UNCHANGED vars

MCSpec == MCInit /\ [][MCNext]_<<vars, streamVars>>

\* Commands over a connector's stream: answers are their callers' own, commands start in time
\* and under the current key, and every caller hears of its command or of the stream's end.
CommandsSound == workload = Idles => S!CommandsSound

\* Handlers are interchangeable, and so are request ids.
Symmetry == Permutations({h1, h2}) \cup Permutations({q1, q2})
=============================================================================
