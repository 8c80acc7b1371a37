--------------------------- MODULE AnalyticsQueries ---------------------------
(***************************************************************************)
(* What Fleet answers about the numbers of its realms: AnalyticsRpc        *)
(* (analytics_rpc.rs), the older overview of FleetRpc (fleet_rpc.rs), and  *)
(* the reads of the canonical store (analytics_store.rs).                  *)
(*                                                                         *)
(* An answer is put together from reads of two stores, one after the       *)
(* other: numbers from the canonical tables (finished windows from the     *)
(* hourly materialization, the current one from the buckets), then the     *)
(* connections, their organizations' policies, and the acceptance ledger   *)
(* for the coverage.  Meanwhile buckets are accepted and corrected,        *)
(* windows end, policies change, rows expire and connections are revoked   *)
(* and purged.  How batches come to be accepted is in Telemetry; here a    *)
(* bucket is a key <<connection, start>> with a revision.  The daily       *)
(* materialization works as the hourly one, and both stand as one.         *)
(***************************************************************************)
EXTENDS Integers, Sequences, FiniteSets, FiniteSetsExt

CONSTANTS
  None,
  Assigned,       \* connections: [organization, project, environment, connection]
  Supports,       \* the connections with the capability telemetry.rollups.v1
  Revisions,      \* the revisions of a bucket, in order: a function from the metric families
                  \* that it has to their counts
  Families,       \* metric families, of which a bucket may lack some
  Bucket, Hour,   \* BUCKET_WIDTH_SECONDS_V1 and the width of a materialized window
  FreshFor,       \* 15 minutes: a realm that reported no later bucket is stale
  Skew,           \* MAX_FUTURE_SKEW: how far ahead a range may end
  MaxRange,       \* MAX_RANGE: 28 days
  ShortRange,     \* 7 days: up to it the granularity is five minutes unless given
  MinClock, MaxClock,  \* bounds: time
  Workloads       \* [request, source, authority, enabled, retention; settled: buckets that
                  \* were accepted before; keys: <<connection, start, revision>> that may
                  \* be; and how often something happens]

VARIABLES
  workload,
  time,
  connections,    \* the registry: the state of each connection
  policies,       \* the organizations whose policy is enabled
  tables,         \* the acceptance ledger, the canonical rows and the hourly windows
  ingest,         \* the handler that has a bucket accepted, or None
  upkeep,         \* the handler that deletes rows, or None
  past,           \* history: acknowledged revisions and the cutoffs of retention
  query           \* the handler of the request, or None

Connections   == DOMAIN Assigned
Organizations == {Assigned[c].organization : c \in Connections}
Of(counts, f) == IF f \in DOMAIN counts THEN counts[f] ELSE 0
With(f, x, v) == [y \in DOMAIN f \cup {x} |-> IF y = x THEN v ELSE f[y]]
Keep(f, S)    == [y \in DOMAIN f \cap S |-> f[y]]
Spend(field)  == workload[field] > 0 /\ workload' = [workload EXCEPT ![field] = @ - 1]

align(value, step) == value - (value % step)
Window(k) == <<k[1], align(k[2], Hour)>>

\* The counts of a table's rows, added up.
SumOf(f, table) == MapThenSumSet(LAMBDA k : Of(table[k], f), DOMAIN table)
Added(table)    == [f \in UNION {DOMAIN table[k] : k \in DOMAIN table} |-> SumOf(f, table)]

QueriesInit ==
  /\ workload \in Workloads
  /\ time = MinClock
  /\ connections = [c \in Connections |-> "Healthy"]
  /\ policies = workload.enabled
  /\ LET first   == [k \in workload.settled |-> 1]
         windows == {Window(k) : k \in workload.settled}
     IN  /\ tables = [ledger |-> first, canonical |-> first, dirty |-> {},
                      hourly |-> [w \in windows |-> Added([k \in {l \in workload.settled : Window(l) = w} |-> Revisions[1]])]]
         /\ past = [acknowledged |-> first, cut |-> [o \in Organizations |-> 0]]
  /\ ingest = None /\ upkeep = None
  /\ query = None

-----------------------------------------------------------------------------
(* Scopes and ranges. *)

ScopeIds ==
  [Fleet        |-> {},
   Organization |-> {"organization"},
   Project      |-> {"organization", "project"},
   Environment  |-> {"organization", "project", "environment"},
   Realm        |-> {"organization", "project", "environment", "connection"}]

\* The resource whose readers may ask: a realm is read with its environment.
Resource == [Organization |-> "organization", Project |-> "project",
             Environment |-> "environment", Realm |-> "environment"]

InScope(ids, c) == \A level \in DOMAIN ids : Assigned[c][level] = ids[level]

\* authorize for the whole Fleet, authorize_fleet for a resource: the caller has a global
\* role, or one at the resource or above it.
Authorized(scope) ==
  \/ "fleet" \in workload.authority
  \/ /\ scope.kind # "Fleet"
     /\ LET level == Resource[scope.kind]
        IN  \E c \in Connections, above \in ScopeIds[scope.kind] \ {"connection"} :
              /\ Assigned[c][level] = scope.ids[level]
              /\ Assigned[c][above] \in workload.authority

resolve_scope(scope) ==
  /\ scope.kind \in DOMAIN ScopeIds
  /\ DOMAIN scope.ids = ScopeIds[scope.kind]
  /\ Authorized(scope)
  /\ scope.kind \in {"Project", "Environment", "Realm"} => \E c \in Connections : InScope(scope.ids, c)

RangeAccepted(r) ==
  /\ r.ends > r.starts /\ r.ends - r.starts <= MaxRange
  /\ r.starts >= 0 /\ r.ends <= time + Skew

Granularity(r) ==
  CASE r.step # None -> r.step
    [] OTHER         -> IF r.ends - r.starts <= ShortRange THEN Bucket ELSE Hour

effective_range(r) ==
  LET step == Granularity(r)
  IN  [starts |-> align(r.starts, step), ends |-> align(r.ends + step - 1, step), step |-> step]

\* The older overview takes its range as it is.
analytics_range(r) == [starts |-> r.starts, ends |-> r.ends, step |-> Bucket]

-----------------------------------------------------------------------------
(* Rows, and what is added up from them. *)

\* Keys of a table within a scope and [from, to).
Selected(keys, ids, from, to) ==
  {k \in keys : InScope(ids, k[1]) /\ from <= k[2] /\ k[2] < to}

Row(c, start, counts) ==
  [connection |-> c, organization |-> Assigned[c].organization, start |-> start, counts |-> counts]

\* One row for an organization and window: date_bin and GROUP BY.
query_rollups_from(table, ids, from, to, step) ==
  LET keys   == Selected(DOMAIN table, ids, from, to)
      Bin(k) == <<Assigned[k[1]].organization, align(k[2], step)>>
  IN  {[connection |-> None, organization |-> bin[1], start |-> bin[2],
        counts |-> Added(Keep(table, {k \in keys : Bin(k) = bin}))] : bin \in {Bin(k) : k \in keys}}

Canonical == [k \in DOMAIN tables.canonical |-> Revisions[tables.canonical[k]]]
Ledger    == [k \in DOMAIN tables.ledger |-> Revisions[tables.ledger[k]]]

\* Where the finished windows end, for a granularity that has a materialization.
current_window_start(range) == IF range.step = Bucket THEN 0 ELSE align(time, range.step)

HigherOf(a, b) == IF a > b THEN a ELSE b
LowerOf(a, b)  == IF a < b THEN a ELSE b

FinalizedRows(q, ids) ==
  query_rollups_from(tables.hourly, ids, q.range.starts,
                     LowerOf(q.range.ends, q.boundary), q.range.step)

BugLiveRows(q, ids) ==
  query_rollups_from(Canonical, ids, q.range.starts, q.range.ends, q.range.step)
LiveRows(q, ids) ==
  query_rollups_from(Canonical, ids, HigherOf(q.range.starts, q.boundary),
                     q.range.ends, q.range.step)

\* The rows of organizations whose policy was read as enabled.
Admitted(q) == {row \in UNION {{<<i, r>> : r \in q.rows[i]} : i \in DOMAIN q.rows} :
                  row[2].organization \in q.enabled}

metric_point(rows, f) == SumOf(f, [row \in rows |-> row[2].counts])

\* query_metric_series: one point for each window of the rows, of each family.
Points(rows, step) ==
  [w \in {align(row[2].start, step) : row \in rows} |->
     [f \in Families |-> metric_point({row \in rows : align(row[2].start, step) = w}, f)]]

\* overview, authentication, the funnel and the failures: sums over all the rows.
overview(rows) == [f \in Families |-> metric_point(rows, f)]

-----------------------------------------------------------------------------
(* Coverage: which of the connections reported, by metric family. *)

bucket_has_family(row, f) == f \in DOMAIN row.counts

coverage_family(q, read, f) ==
  LET Last(c) == {row.start : row \in {r \in read : r.connection = c /\ bucket_has_family(r, f)}}
      all         == DOMAIN q.realms
      disabled    == {c \in all : Assigned[c].organization \notin q.enabled}
      unsupported == (all \ disabled) \ Supports
      expected    == all \ (disabled \cup unsupported)
      reporting   == {c \in expected : /\ Last(c) # {} /\ Max(Last(c)) >= q.range.ends - FreshFor
                                       /\ q.realms[c] # "Offline"}
  IN  [total |-> Cardinality(all), expected |-> Cardinality(expected),
       reporting |-> Cardinality(reporting), stale |-> Cardinality(expected \ reporting),
       disabled |-> Cardinality(disabled), unsupported |-> Cardinality(unsupported),
       last |-> IF reporting = {} THEN 0 ELSE Min({Max(Last(c)) : c \in reporting}),
       partial |-> all # reporting]

coverage(q, read) == [f \in Families |-> coverage_family(q, read, f)]

warnings(cover) ==
  {w \in {"Partial", "Stale", "Disabled", "Unsupported"} :
     \E f \in Families :
       CASE w = "Partial"  -> cover[f].partial
         [] w = "Stale"    -> cover[f].stale > 0
         [] w = "Disabled" -> cover[f].disabled > 0
         [] OTHER          -> cover[f].unsupported > 0}

\* The older overview counts a degraded connection as stale, looks at the rows it has, and at
\* no policy.
analytics_reporting_status(q, c) ==
  LET last == {row.start : row \in {r \in UNION {q.rows[i] : i \in DOMAIN q.rows} : r.connection = c}}
  IN  /\ last # {} /\ Max(last) >= q.range.ends - FreshFor
      /\ q.realms[c] \notin {"Degraded", "Offline"}

-----------------------------------------------------------------------------
(* The handler.  Its stages are its reads: "finalized" and "live" of the canonical store, or
   "scan" and "get" of the ledger; "connections"; "policies"; and "scan" and "get" again. *)

Request == workload.request
Older   == Request.kind = "FleetRpc"
Refused == [stage |-> "refused"]

Scope(q) == Request.scopes[q.index].ids

\* data: from the scope of the given index, with nothing read yet.
data(q, index) ==
  LET scope == Request.scopes[index]
      first == Request.scopes[1].ids
  IN  IF \/ ~resolve_scope(scope)
         \/ Request.kind = "compare" /\ (\/ scope.kind = "Fleet"
                                         \/ scope.ids["organization"] # first["organization"])
      THEN Refused
      ELSE [q EXCEPT !.index = index, !.stage = IF workload.source = "ledger" THEN "scan"
                                                ELSE IF Older THEN "live" ELSE "finalized",
                     !.boundary = current_window_start(q.range), !.rows = <<>>, !.keys = {},
                     !.read = {}, !.realms = <<>>, !.enabled = {}, !.asked = {}]

Ask ==
  /\ query = None
  /\ LET range == IF Older THEN analytics_range(Request) ELSE effective_range(Request)
         blank == [stage |-> "", index |-> 1, range |-> range, boundary |-> 0, rows |-> <<>>,
                   keys |-> {}, read |-> {}, realms |-> <<>>, enabled |-> {}, asked |-> {},
                   answers |-> <<>>, before |-> past.acknowledged, ever |-> policies]
         size  == Len(Request.scopes)
     IN  query' = IF /\ RangeAccepted(Request)
                     /\ Request.kind = "compare" => 2 <= size /\ size <= 8
                  THEN data(blank, 1) ELSE Refused
  /\ UNCHANGED <<workload, time, connections, policies, tables, ingest, upkeep, past>>

At(stage)    == query # None /\ query.stage = stage
Continues(q) == /\ query' = q
                /\ UNCHANGED <<workload, time, connections, policies, tables, ingest, upkeep, past>>

query_rollups ==
  \/ /\ At("finalized")
     /\ Continues([query EXCEPT !.rows = <<FinalizedRows(query, Scope(query))>>, !.stage = "live"])
  \/ /\ At("live") /\ ~Older
     /\ Continues([query EXCEPT !.rows = Append(@, LiveRows(query, Scope(query))),
                                !.stage = "connections"])

\* GreptimeAnalyticsStore::query, for the older overview: the buckets themselves.
query_canonical ==
  /\ At("live") /\ Older
  /\ LET keys == Selected(DOMAIN tables.canonical, Scope(query), query.range.starts, query.range.ends)
     IN  Continues([query EXCEPT !.rows = <<{Row(k[1], k[2], Canonical[k]) : k \in keys}>>,
                                 !.stage = "connections"])

\* fleet_telemetry_buckets: the keys, and then the record of each, realm by realm.
Numbers  == query.rows = <<>>
ReadFrom == IF Numbers THEN query.range.starts ELSE query.range.ends - FreshFor
ScanKeys ==
  /\ At("scan")
  /\ Continues([query EXCEPT !.stage = "get", !.read = {},
                             !.keys = Selected(DOMAIN tables.ledger, Scope(query), ReadFrom,
                                               query.range.ends)])

GetRecords ==
  /\ At("get") /\ query.keys # {}
  /\ LET c    == CHOOSE c \in Connections : \E k \in query.keys : k[1] = c
         mine == {k \in query.keys : k[1] = c}
     IN  Continues([query EXCEPT !.keys = @ \ mine,
                                 !.read = @ \cup {Row(c, k[2], Ledger[k]) : k \in mine}])

NumbersRead ==
  /\ At("get") /\ query.keys = {} /\ Numbers
  /\ Continues([query EXCEPT !.rows = <<query.read>>, !.stage = "connections"])

fleet_connections ==
  /\ At("connections")
  /\ LET live == {c \in Connections : InScope(Scope(query), c) /\ connections[c] # "Revoked"}
         q    == [query EXCEPT !.realms = [c \in live |-> connections[c]],
                               !.asked = {Assigned[c].organization : c \in live}]
         all  == UNION {{<<i, r>> : r \in q.rows[i]} : i \in DOMAIN q.rows}
         reporting == {c \in live : analytics_reporting_status(q, c)}
     IN  IF ~Older THEN Continues([q EXCEPT !.stage = "policies"])
         ELSE Continues([q EXCEPT !.stage = "answered",
                  !.answers = <<[points |-> Points(all, Bucket), totals |-> overview(all),
                                 enabled |-> Organizations,
                                 cover |-> [expected |-> Cardinality(live),
                                            reporting |-> Cardinality(reporting),
                                            stale |-> Cardinality(live \ reporting)]]>>])

fleet_analytics_policy ==
  /\ At("policies")
  /\ IF query.asked = {} THEN Continues([query EXCEPT !.stage = "scan"])
     ELSE LET o == CHOOSE o \in query.asked : TRUE
          IN  Continues([query EXCEPT !.asked = @ \ {o},
                                      !.enabled = IF o \in policies THEN @ \cup {o} ELSE @])

\* The coverage is the last read: the handler answers, or goes on with the next scope.
Answer ==
  /\ At("get") /\ query.keys = {} /\ ~Numbers
  /\ LET rows == Admitted(query)
         q    == [query EXCEPT !.answers = Append(@,
                    [points |-> Points(rows, query.range.step), totals |-> overview(rows),
                     enabled |-> query.enabled, cover |-> coverage(query, query.read)])]
     IN  Continues(IF q.index = Len(Request.scopes) THEN [q EXCEPT !.stage = "answered"]
                   ELSE data(q, q.index + 1))

QueryStep ==
  \/ Ask \/ query_rollups \/ query_canonical \/ ScanKeys \/ GetRecords \/ NumbersRead
  \/ fleet_connections \/ fleet_analytics_policy \/ Answer

-----------------------------------------------------------------------------
(* What goes on meanwhile. *)

QueryTick ==
  /\ time < MaxClock /\ time' = time + 1
  /\ UNCHANGED <<workload, connections, policies, tables, ingest, upkeep, past, query>>

\* A closed bucket of a connection is accepted into the ledger: a new revision, or again the one
\* that is there.
Accept(c, b, revision) ==
  /\ ingest = None /\ Spend("accepts")
  /\ b + Bucket <= time
  /\ connections[c] # "Revoked" /\ Assigned[c].organization \in policies
  /\ <<c, b>> \in DOMAIN tables.ledger => tables.ledger[<<c, b>>] <= revision
  /\ tables' = [tables EXCEPT !.ledger = With(@, <<c, b>>, revision)]
  /\ IF workload.source = "canonical"
     THEN ingest' = [key |-> <<c, b>>, revision |-> revision, stage |-> "upsert"] /\ UNCHANGED past
     ELSE /\ past' = [past EXCEPT !.acknowledged = With(@, <<c, b>>, revision)]
          /\ UNCHANGED ingest
  /\ UNCHANGED <<time, connections, policies, upkeep, query>>

upsert ==
  /\ ingest # None /\ ingest.stage = "upsert"
  /\ tables' = [tables EXCEPT !.canonical = With(@, ingest.key, ingest.revision),
                              !.dirty = @ \cup {Window(ingest.key)}]
  /\ ingest' = [ingest EXCEPT !.stage = "flush"]
  /\ UNCHANGED <<workload, time, connections, policies, upkeep, past, query>>

\* The flow of the canonical store: windows that changed are added up again.
Materialized ==
  LET Buckets(w) == {k \in DOMAIN tables.canonical : Window(k) = w}
  IN  [tables EXCEPT !.dirty = {},
         !.hourly = [w \in DOMAIN @ \cup {v \in tables.dirty : Buckets(v) # {}} |->
                       IF w \in tables.dirty THEN Added(Keep(Canonical, Buckets(w))) ELSE @[w]]]

FlowRuns ==
  /\ tables.dirty # {} /\ tables' = Materialized
  /\ UNCHANGED <<workload, time, connections, policies, ingest, upkeep, past, query>>

\* The flows are flushed before the batch is acknowledged.
flush_materializations ==
  /\ ingest # None /\ ingest.stage = "flush"
  /\ tables' = Materialized
  /\ past' = [past EXCEPT !.acknowledged = With(@, ingest.key, ingest.revision)]
  /\ ingest' = None
  /\ UNCHANGED <<workload, time, connections, policies, upkeep, query>>

IngestDropped ==
  /\ ingest # None /\ ingest' = None
  /\ UNCHANGED <<workload, time, connections, policies, tables, upkeep, past, query>>

\* update_analytics_policy: rows older than the retention are deleted, from one table and then
\* the other, before the policy is stored.
EditPolicy(o, enabled) ==
  /\ upkeep = None /\ Spend("edits")
  /\ LET cutoff == HigherOf(0, time - workload.retention)
     IN  /\ upkeep' = [what |-> "policy", organization |-> o, enabled |-> enabled, cutoff |-> cutoff,
                       stage |-> IF workload.source = "canonical" THEN "canonical" ELSE "store"]
         /\ past' = [past EXCEPT !.cut[o] = HigherOf(@, cutoff)]
  /\ UNCHANGED <<time, connections, policies, tables, ingest, query>>

\* revoke_connection: the record first, then the rows of the connection.
RevokeConnection(c) ==
  /\ upkeep = None /\ Spend("revokes") /\ connections[c] # "Revoked"
  /\ connections' = [connections EXCEPT ![c] = "Revoked"]
  /\ upkeep' = IF workload.source = "canonical"
               THEN [what |-> "purge", connection |-> c, stage |-> "canonical"] ELSE None
  /\ UNCHANGED <<time, policies, tables, ingest, past, query>>

Doomed(k) ==
  IF upkeep.what = "purge" THEN k[1] = upkeep.connection
  ELSE Assigned[k[1]].organization = upkeep.organization /\ k[2] < upkeep.cutoff

DeleteRows ==
  /\ upkeep # None
  /\ \/ /\ upkeep.stage = "canonical"
        /\ tables' = [tables EXCEPT !.canonical = Keep(@, {k \in DOMAIN @ : ~Doomed(k)})]
        /\ upkeep' = [upkeep EXCEPT !.stage = "hourly"]
     \/ /\ upkeep.stage = "hourly"
        /\ tables' = [tables EXCEPT !.hourly = Keep(@, {k \in DOMAIN @ : ~Doomed(k)})]
        /\ upkeep' = IF upkeep.what = "purge" THEN None ELSE [upkeep EXCEPT !.stage = "store"]
  /\ UNCHANGED <<workload, time, connections, policies, ingest, past, query>>

\* A deletion that fails ends the call: rows and policy stay as they are.
UpkeepFails ==
  /\ upkeep # None /\ upkeep' = None
  /\ UNCHANGED <<workload, time, connections, policies, tables, ingest, past, query>>

StorePolicy ==
  /\ upkeep # None /\ upkeep.stage = "store"
  /\ policies' = IF upkeep.enabled THEN policies \cup {upkeep.organization}
                 ELSE policies \ {upkeep.organization}
  /\ query' = IF query # None /\ query # Refused THEN [query EXCEPT !.ever = @ \cup policies'] ELSE query
  /\ upkeep' = None
  /\ UNCHANGED <<workload, time, connections, tables, ingest, past>>

\* The connector reports the realm's state, or the stream ends.
ConnectionState(c, state) ==
  /\ Spend("states") /\ connections[c] \notin {"Revoked", state}
  /\ connections' = [connections EXCEPT ![c] = state]
  /\ UNCHANGED <<time, policies, tables, ingest, upkeep, past, query>>

\* A behaviour ends with the answer.
Ended == query # None /\ query.stage \in {"answered", "refused"}

QueriesNext ==
  /\ ~Ended
  /\ \/ QueryStep \/ QueryTick
     \/ \E c \in Connections, b \in 0 .. MaxClock, r \in DOMAIN Revisions : Accept(c, b, r)
     \/ upsert \/ FlowRuns \/ flush_materializations \/ IngestDropped
     \/ \E o \in Organizations, enabled \in BOOLEAN : EditPolicy(o, enabled)
     \/ \E c \in Connections : RevokeConnection(c)
     \/ DeleteRows \/ UpkeepFails \/ StorePolicy
     \/ \E c \in Connections, state \in {"Healthy", "Degraded", "Offline"} : ConnectionState(c, state)

-----------------------------------------------------------------------------
(* What an answer says. *)

Answered == query # None /\ query.stage = "answered"

\* Buckets that the i-th answer is about, in the window at w.
InWindow(i, w) ==
  {k \in DOMAIN tables.ledger :
     /\ InScope(Request.scopes[i].ids, k[1]) /\ align(k[2], query.range.step) = w
     /\ query.range.starts <= k[2] /\ k[2] < query.range.ends}

\* What nothing may have removed: a connection that was not revoked, in a window that no
\* retention reached.
Kept(k) == /\ connections[k[1]] # "Revoked"
           /\ past.cut[Assigned[k[1]].organization] <= align(k[2], query.range.step)

\* A point is at least what was acknowledged before the request, of organizations whose policy
\* is enabled, and at most what is accepted by now of organizations enabled meanwhile:
\* windows that are read from the hourly table and from the buckets are neither counted twice
\* nor left out, whatever ends, arrives or is corrected between the reads.
NumbersBracketed ==
  Answered => \A i \in DOMAIN query.answers, f \in Families :
    LET answer     == query.answers[i]
        Point(w)   == IF w \in DOMAIN answer.points THEN answer.points[w][f] ELSE 0
        Before     == [k \in DOMAIN query.before |-> Revisions[query.before[k]]]
        Least(w)   == SumOf(f, Keep(Before, {k \in InWindow(i, w) :
                                  Kept(k) /\ Assigned[k[1]].organization \in answer.enabled}))
        Most(w)    == SumOf(f, Keep(Ledger, {k \in InWindow(i, w) :
                                  Older \/ Assigned[k[1]].organization \in query.ever}))
        windows    == {align(k[2], query.range.step) : k \in DOMAIN tables.ledger}
                        \cup DOMAIN answer.points
    IN  /\ \A w \in windows : Least(w) <= Point(w) /\ Point(w) <= Most(w)
        /\ answer.totals[f] = MapThenSumSet(Point, DOMAIN answer.points)

\* Every connection is counted once; one is reporting only if the ledger has a fresh bucket of it;
\* an answer without a warning is about connections that all reported, and its last complete
\* window is one that each of them has reached.
CoverageAddsUp ==
  Answered /\ ~Older => \A i \in DOMAIN query.answers, f \in Families :
    LET cover == query.answers[i].cover[f]
        Reached(c) == {k[2] : k \in {l \in DOMAIN tables.ledger : l[1] = c /\ f \in DOMAIN Ledger[l]}}
        fresh == {c \in Connections : /\ InScope(Request.scopes[i].ids, c)
                                      /\ \E b \in Reached(c) : b >= query.range.ends - FreshFor}
        live  == {c \in Connections : InScope(Request.scopes[i].ids, c) /\ connections[c] # "Revoked"}
    IN  /\ cover.total = cover.reporting + cover.stale + cover.disabled + cover.unsupported
        /\ cover.reporting <= Cardinality(fresh)
        /\ cover.reporting > 0 => \E c \in fresh : cover.last \in Reached(c)
        /\ warnings(query.answers[i].cover) = {} =>
             \A c \in live : \E b \in Reached(c) : b >= cover.last /\ b >= query.range.ends - FreshFor

AnswersSound == NumbersBracketed /\ CoverageAddsUp
=============================================================================
