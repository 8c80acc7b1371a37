----------------------------- MODULE RealmMetrics -----------------------------
(***************************************************************************)
(* The metrics that a realm serves about itself (metrics_rpc.rs): an       *)
(* overview, a series, the funnel and the failures, each added up on its   *)
(* own from the local buckets that a range touches and from the webhook    *)
(* deliveries that were created in it.  Events fill the buckets as in      *)
(* AnalyticsContract, here of few types; counts do not reach 2^64, where   *)
(* they would stay.                                                        *)
(***************************************************************************)
EXTENDS Integers, FiniteSets, FiniteSetsExt

CONSTANTS
  Subjects,         \* accounts
  Classes,          \* FAILURE_NAMES
  DeliveryIds,
  Latencies,        \* of deliveries, in milliseconds
  Width,            \* BUCKET_WIDTH_SECONDS_V1
  MaxRangeSeconds,  \* MAX_QUERY_SECONDS
  MaxTime,          \* bound: times at which something happens
  Requests,         \* what is asked: [starts, ends, width]
  MaxEvents         \* bound: events and deliveries

VARIABLES
  request,          \* one of Requests, whose width is a multiple of Width
  buckets,          \* the local buckets, by their start
  deliveries,       \* webhook deliveries: [created, status, latency]
  events            \* how much happened

Sum(S, value(_)) == MapThenSumSet(value, S)
aligned(t, width) == t - (t % width)

NoCounts ==
  [options |-> 0, registrations |-> 0, attempts |-> 0, successes |-> 0, failures |-> 0,
   classes |-> [c \in Classes |-> 0], subjects |-> {}]

MetricsInit == request \in Requests /\ buckets = <<>> /\ deliveries = <<>> /\ events = 0

-----------------------------------------------------------------------------
(* What happens in the realm. *)

\* An event has the account that it is about, or the class of the failure.
Types == {<<"options">>} \cup ({"register", "success"} \X Subjects) \cup ({"failure"} \X Classes)

Counted(bucket, event) ==
  CASE event[1] = "options"  -> [bucket EXCEPT !.options = @ + 1]
    [] event[1] = "register" -> [bucket EXCEPT !.registrations = @ + 1, !.subjects = @ \cup {event[2]}]
    [] event[1] = "success"  -> [bucket EXCEPT !.attempts = @ + 1, !.successes = @ + 1,
                                               !.subjects = @ \cup {event[2]}]
    [] OTHER                 -> [bucket EXCEPT !.attempts = @ + 1, !.failures = @ + 1,
                                               !.classes[event[2]] = @ + 1]

Project(event, time) ==
  LET start == aligned(time, Width)
      old   == IF start \in DOMAIN buckets THEN buckets[start] ELSE NoCounts
  IN  /\ events < MaxEvents /\ events' = events + 1
      /\ buckets' = [s \in DOMAIN buckets \cup {start} |->
                       IF s = start THEN Counted(old, event) ELSE buckets[s]]
      /\ UNCHANGED <<request, deliveries>>

CreateDelivery(d, time) ==
  /\ d \notin DOMAIN deliveries
  /\ events < MaxEvents /\ events' = events + 1
  /\ deliveries' = [e \in DOMAIN deliveries \cup {d} |->
                      IF e = d THEN [created |-> time, status |-> "Pending", latency |-> 0]
                      ELSE deliveries[e]]
  /\ UNCHANGED <<request, buckets>>

AttemptDelivery(d, status, latency) ==
  /\ d \in DOMAIN deliveries /\ deliveries[d].status \in {"Pending", "Retrying"}
  /\ deliveries' = [deliveries EXCEPT ![d].status = status, ![d].latency = latency]
  /\ UNCHANGED <<request, buckets, events>>

MetricsNext ==
  \/ \E event \in Types, time \in 0 .. MaxTime : Project(event, time)
  \/ \E d \in DeliveryIds, time \in 0 .. MaxTime : CreateDelivery(d, time)
  \/ \E d \in DeliveryIds, status \in {"Retrying", "Succeeded", "Failed"}, latency \in Latencies :
       AttemptDelivery(d, status, latency)

-----------------------------------------------------------------------------
(* The four views. *)

validated_range(range) ==
  range.ends > range.starts /\ range.ends - range.starts <= MaxRangeSeconds

\* The buckets that the range touches: also the one in which it starts.
analytics_buckets(range) ==
  {s \in DOMAIN buckets : aligned(range.starts, Width) <= s /\ s <= aligned(range.ends - 1, Width)}

CreatedIn(range) ==
  {d \in DOMAIN deliveries : range.starts <= deliveries[d].created /\ deliveries[d].created < range.ends}

With(status) == {d \in DOMAIN deliveries : deliveries[d].status \in status}
Total(read, counter) == Sum(read, LAMBDA s : buckets[s][counter])
ActiveIn(read) == UNION {buckets[s].subjects : s \in read}

overview(range) ==
  LET read == analytics_buckets(range)
  IN  [active        |-> Cardinality(ActiveIn(read)),
       registrations |-> Total(read, "registrations"),
       attempts      |-> Total(read, "attempts"),
       successes     |-> Total(read, "successes"),
       completed     |-> Cardinality(CreatedIn(range) \cap With({"Succeeded", "Failed"})),
       succeeded     |-> Cardinality(CreatedIn(range) \cap With({"Succeeded"})),
       backlog       |-> Cardinality(With({"Pending", "Retrying"}))]

\* The latency that 95 % of the deliveries do not exceed.
p95(done) ==
  LET rank == (Cardinality(done) * 95 + 99) \div 100
      UpTo(l) == Cardinality({d \in done : deliveries[d].latency <= l})
  IN  IF done = {} THEN 0
      ELSE Min({deliveries[d].latency : d \in {e \in done : UpTo(deliveries[e].latency) >= rank}})

\* SeriesAggregate::value, of the buckets and the deliveries of one point.
Value(metric, read, delivered) ==
  CASE metric = "active"     -> Cardinality(ActiveIn(read))
    [] metric = "deliveries" -> Cardinality(delivered)
    [] metric = "failed"     -> Cardinality(delivered \cap With({"Failed"}))
    [] metric = "latency"    -> p95(delivered \cap With({"Succeeded", "Failed"}))
    [] OTHER                 -> Total(read, metric)

query_series(range, width, metric) ==
  LET read   == analytics_buckets(range)
      made   == CreatedIn(range)
      points == {s \in aligned(range.starts, width) .. range.ends - 1 : s % width = 0}
                  \cup {aligned(s, width) : s \in read} \cup {aligned(deliveries[d].created, width) : d \in made}
  IN  [p \in {q \in points : q < range.ends} |->
         Value(metric, {s \in read : aligned(s, width) = p},
                       {d \in made : aligned(deliveries[d].created, width) = p})]

funnel(range) ==
  LET read == analytics_buckets(range)
  IN  [options |-> Total(read, "options"), registrations |-> Total(read, "registrations"),
       completed |-> Total(read, "successes")]

failure_breakdown(range) ==
  LET count == [c \in Classes |-> Sum(analytics_buckets(range), LAMBDA s : buckets[s].classes[c])]
  IN  [c \in {d \in Classes : count[d] > 0} |-> count[c]]

-----------------------------------------------------------------------------
\* The points of a series follow each other without a gap from the start of the range to its
\* end, they add up to what the overview, the funnel and the failures say of the same range,
\* and no point has more active accounts than the overview.
ViewsAgree ==
  LET Series(m) == query_series(request, request.width, m)
      Adds(m)   == LET s == Series(m) IN Sum(DOMAIN s, LAMBDA p : s[p])
      view   == overview(request)
      broken == failure_breakdown(request)
      active == Series("active")
  IN  validated_range(request) =>
        /\ DOMAIN active = {s \in 0 .. request.ends - 1 : /\ s % request.width = 0
                                                          /\ s + request.width > request.starts}
        /\ Adds("attempts") = view.attempts /\ Adds("successes") = view.successes
        /\ Adds("registrations") = view.registrations
        /\ funnel(request).registrations = view.registrations
        /\ funnel(request).completed = view.successes
        /\ Sum(DOMAIN broken, LAMBDA c : broken[c]) = view.attempts - view.successes
        /\ Sum(DOMAIN active, LAMBDA p : active[p]) >= view.active
        /\ \A p \in DOMAIN active : active[p] <= view.active
        /\ Adds("failed") = view.completed - view.succeeded
        /\ Adds("deliveries") = Cardinality(CreatedIn(request))
=============================================================================
