--------------------------- MODULE MCFleetHierarchy ---------------------------
(***************************************************************************)
(* Fleet's resources, and what Fleet and a realm answer about the numbers  *)
(* of them, for TLC.  In a behaviour one of the three is at work while the *)
(* others rest.                                                            *)
(***************************************************************************)
EXTENDS FleetHierarchy, TLC

CONSTANTS owner, delegate, friend, h1, h2, h3, o1, o2, p1, p2, e1, e2, b1, b2, s1, q1, q2, q3,
          c1, c2, c3, e3, u1, u2, d1, d2, None

MCGlobalRole == (owner :> "owner") @@ (delegate :> "support") @@ (friend :> "auditor")
All(kind) == {kind} \X {"create", "update", "archive"}
Roles     == {"role-binding"} \X {"upsert", "revoke"}
MCWorkloads ==
  {[callers |-> {owner}, requests |-> {q1, q2, q3}, handlers |-> {h1, h2}, subjects |-> {},
    calls |-> All("organization") \cup {<<"project", "create">>}],
   [callers |-> {owner}, requests |-> {q1, q2, q3}, handlers |-> {h1, h2}, subjects |-> {},
    calls |-> {<<"project", "archive">>, <<"environment", "archive">>, <<"environment", "create">>,
               <<"organization", "archive">>}],
   [callers |-> {owner, delegate}, requests |-> {q1, q2}, handlers |-> {h1, h2},
    subjects |-> {<<delegate, <<"project", p1>>>>},
    calls |-> {<<"project", "update">>, <<"role-binding", "upsert">>}],
   [callers |-> {owner}, requests |-> {q1, q2}, handlers |-> {h1, h2}, subjects |-> {},
    calls |-> {<<"environment", "update">>, <<"environment", "archive">>}],
   [callers |-> {owner, delegate}, requests |-> {q1, q2, q3}, handlers |-> {h1, h2},
    subjects |-> {<<delegate, <<"organization", o1>>>>}, calls |-> Roles],
   [callers |-> {owner, delegate}, requests |-> {q1, q2, q3}, handlers |-> {h3},
    subjects |-> {<<delegate, <<"organization", o1>>>>, <<friend, <<"environment", e1>>>>},
    calls |-> Roles]}
Symmetry == Permutations({q1, q2}) \cup Permutations({h1, h2})

-----------------------------------------------------------------------------
(* Queries of Fleet: three realms of two organizations, whose buckets are two ticks wide, and
   windows of three buckets, of which the first ends while requests are answered. *)

VARIABLES
  part,
  asked, time, connections, policies, tables, ingest, upkeep, past, query,
  request, buckets, deliveries, events

queriesVars == <<asked, time, connections, policies, tables, ingest, upkeep, past, query>>
realmVars   == <<request, buckets, deliveries, events>>

Path(o, p, e, c) == [organization |-> o, project |-> p, environment |-> e, connection |-> c]
Assignments == (c1 :> Path(o1, p1, e1, c1)) @@ (c2 :> Path(o1, p1, e2, c2))
                 @@ (c3 :> Path(o2, p2, e3, c3))

Scope(kind, c, levels) == [kind |-> kind, ids |-> [level \in levels |-> Assignments[c][level]]]
WholeFleet      == Scope("Fleet", c1, {})
Organization(c) == Scope("Organization", c, {"organization"})
Project(c)      == Scope("Project", c, {"organization", "project"})
Environment(c)  == Scope("Environment", c, {"organization", "project", "environment"})
Realm(c)        == Scope("Realm", c, DOMAIN Assignments[c])

Asks(kind, scopes, starts, ends, step) ==
  [kind |-> kind, scopes |-> scopes, starts |-> starts, ends |-> ends, step |-> step]

\* Nothing happens but what is added.
Quiet(ask, source, authority, enabled, settled) ==
  [request |-> ask, source |-> source, authority |-> authority, enabled |-> enabled, retention |-> 3,
   settled |-> settled, keys |-> {}, accepts |-> 0, edits |-> 0, revokes |-> 0, states |-> 0]

QueryWorkloads ==
  { [Quiet(Asks("series", <<Organization(c1)>>, 1, 7, 6), "canonical", {"fleet"}, {o1, o2},
           {<<c1, 0>>, <<c3, 0>>})
       EXCEPT !.keys = {<<c1, 0, 2>>, <<c2, 4, 1>>}, !.accepts = 2],
    [Quiet(Asks("series", <<WholeFleet>>, 0, 6, None), "canonical", {"fleet"}, {o1},
           {<<c1, 0>>, <<c3, 2>>})
       EXCEPT !.edits = 1],
    [Quiet(Asks("series", <<WholeFleet>>, 0, 7, None), "ledger", {"fleet"}, {o1},
           {<<c1, 0>>, <<c3, 2>>})
       EXCEPT !.keys = {<<c3, 4, 1>>}, !.accepts = 1, !.edits = 1],
    [Quiet(Asks("compare", <<Realm(c1), Environment(c2)>>, 1, 7, 6), "canonical", {o1}, {o1},
           {<<c1, 0>>, <<c2, 2>>})
       EXCEPT !.keys = {<<c1, 2, 1>>}, !.accepts = 1, !.revokes = 1],
    [Quiet(Asks("FleetRpc", <<Project(c1)>>, 1, 6, None), "canonical", {p1}, {o1},
           {<<c1, 0>>, <<c2, 2>>})
       EXCEPT !.keys = {<<c1, 4, 2>>}, !.accepts = 1, !.states = 1],
    Quiet(Asks("series", <<Organization(c3)>>, 1, 6, None), "canonical", {o1}, {o1}, {}) }

Q == INSTANCE AnalyticsQueries WITH
  workload <- asked, Assigned <- Assignments, Supports <- {c1, c3},
  Revisions <- <<[authentication |-> 1], [authentication |-> 2, webhooks |-> 1]>>,
  Families <- {"authentication", "webhooks"},
  Bucket <- 2, Hour <- 6, FreshFor <- 4, Skew <- 1, MaxRange <- 8, ShortRange <- 6,
  MinClock <- 5, MaxClock <- 6, Workloads <- QueryWorkloads

M == INSTANCE RealmMetrics WITH
  Subjects <- {u1, u2}, Classes <- {"internal", "other"}, DeliveryIds <- {d1, d2},
  Latencies <- {1, 2}, Width <- 2, MaxRangeSeconds <- 5, MaxTime <- 4, MaxEvents <- 2,
  Requests <- {[starts |-> 1, ends |-> 5, width |-> 4], [starts |-> 1, ends |-> 4, width |-> 2]}

-----------------------------------------------------------------------------
RestQueries ==
  /\ asked = Nothing /\ time = Nothing /\ connections = Nothing /\ policies = Nothing
  /\ tables = Nothing /\ ingest = Nothing /\ upkeep = Nothing /\ past = Nothing /\ query = Nothing

RestRealm == request = Nothing /\ buckets = Nothing /\ deliveries = Nothing /\ events = Nothing

FleetInit ==
  /\ part \in {"hierarchy", "queries", "realm"}
  /\ Init /\ (part # "hierarchy" => workload = CHOOSE w \in MCWorkloads : TRUE)
  /\ IF part = "queries" THEN Q!QueriesInit ELSE RestQueries
  /\ IF part = "realm" THEN M!MetricsInit ELSE RestRealm

\* Where roles are granted and revoked, the delegate has a request id of its own.
OwnRequests ==
  workload.calls = Roles => \A h \in Handlers : handler'[h] # Idle =>
    (handler'[h].who = delegate <=> handler'[h].request = q3)

FleetNext ==
  \/ part = "hierarchy" /\ Next /\ OwnRequests /\ UNCHANGED <<part, queriesVars, realmVars>>
  \/ part = "queries" /\ Q!QueriesNext /\ UNCHANGED <<part, vars, realmVars>>
  \/ part = "realm" /\ M!MetricsNext /\ UNCHANGED <<part, vars, queriesVars>>

FleetSpec == FleetInit /\ [][FleetNext]_<<part, vars, queriesVars, realmVars>>

\* Fleet's answers are made of all that was acknowledged and of nothing twice, their coverage
\* counts every connection, and the views of a realm agree with each other.
AnswersSound ==
  /\ part = "queries" => Q!AnswersSound
  /\ part = "realm" => M!ViewsAgree
=============================================================================
