-------------------------- MODULE AnalyticsContract --------------------------
(***************************************************************************)
(* The V1 metric contract shared by realm and Fleet: the local five-minute *)
(* bucket (store/analytics_store.rs), the telemetry bucket sent over the   *)
(* wire and its validation (analytics.rs).                                 *)
(*                                                                         *)
(* An event is a record [type, at, latency, count, backlog, subjects];     *)
(* `None' is an absent JSON field.  A counter that no                      *)
(* event of the model can touch is left out of a bucket's `counts', where  *)
(* `Of' reads it as 0.  Latency is a number of histogram units and         *)
(* `Bounds' the fixed upper bounds; both profiles use the same operators.  *)
(***************************************************************************)
EXTENDS Integers, Sequences, FiniteSetsExt, SequencesExt

CONSTANTS None,        \* an absent value
          Width,       \* BUCKET_WIDTH_SECONDS_V1
          Bounds,      \* *_LATENCY_BOUNDS_MILLISECONDS_V1
          MaxCounter,  \* MAX_COUNTER_PER_BUCKET
          Types        \* the event types that occur

Authentications == {"authentication.completed", "authentication.failed", "authentication.denied"}
Deliveries == {"analytics.webhook.delivery.succeeded", "analytics.webhook.delivery.failed"}

\* The counters `apply' increments for an event of the given type.
Increments(type) ==
    CASE type = "authentication.options.started" -> {"auth_options_started"}
      [] type = "authentication.completed" -> {"attempts", "successes"}
      [] type = "authentication.failed" -> {"attempts", "failures"}
      [] type = "authentication.denied" -> {"attempts", "denials"}
      [] type = "registration.options.started" -> {"options_started"}
      [] type = "registration.ceremony.opened" -> {"ceremonies_opened"}
      [] type = "registration.response.returned" -> {"responses_returned"}
      [] type = "registration.challenge.expired" -> {"challenges_expired"}
      [] type = "registration.completed" -> {"registrations_completed"}
      [] type = "session.created" -> {"sessions_created"}
      [] type = "session.revoked_all" -> {"sessions_revoked"}
      [] type = "token.user.issued" -> {"user_tokens_issued"}
      [] type = "service_account.token.issued" ->
             {"service_tokens_issued", "sa_calls", "sa_successes"}
      [] type = "service_account.token.failed" -> {"sa_calls", "sa_failures"}
      [] type = "service_account.token.denied" -> {"sa_calls", "sa_denials"}
      [] type = "service_account.credential.created" -> {"sa_rotations"}
      [] type = "analytics.webhook.delivery.queued" -> {"wh_observed"}
      [] type = "analytics.webhook.delivery.succeeded" -> {"deliveries", "wh_successes"}
      [] type = "analytics.webhook.delivery.failed" -> {"deliveries", "wh_failures"}
      [] OTHER -> {}

Counters == UNION {Increments(t) : t \in Types}
Of(bucket, c) == IF c \in DOMAIN bucket.counts THEN bucket.counts[c] ELSE 0

-----------------------------------------------------------------------------
(* Histograms: one count per bound and a last one for +Inf.                *)

NoLatency == [count |-> 0, sum |-> 0, cumulative |-> [i \in 1 .. Len(Bounds) + 1 |-> 0]]

Observe(h, value) ==
    [count |-> h.count + 1, sum |-> h.sum + value,
     cumulative |-> [i \in DOMAIN h.cumulative |->
         IF i = Len(Bounds) + 1 \/ value <= Bounds[i] THEN h.cumulative[i] + 1
                                                      ELSE h.cumulative[i]]]

-----------------------------------------------------------------------------
(* The local bucket.                                                       *)

aligned_bucket_start(timestamp) == timestamp - (timestamp % Width)

NewBucket(start) ==
    [start |-> start, revision |-> 1, first |-> 0, last |-> 0, closed |-> FALSE,
     counts |-> [c \in Counters |-> 0], latency |-> NoLatency, webhook |-> NoLatency,
     classes |-> 0, backlog |-> 0, subjects |-> {}]

event_observes_active_account(type) ==
    \/ type \in Authentications \cup {"authentication.options.started"}
    \/ type \in {"registration.options.started", "registration.ceremony.opened",
                 "registration.response.returned", "registration.challenge.expired",
                 "registration.completed"}
    \/ type \in {"session.created", "session.revoked_all", "token.user.issued"}

contributes(event) == Increments(event.type) # {}

\* `apply': the counters of the event's type (a token event carries its own
\* count), the histogram of its family, the failure class of a rejection, the
\* sequence range and the active subjects.  An unknown type changes nothing.
apply(bucket, event, sequence) ==
    IF ~contributes(event) THEN bucket ELSE
    [bucket EXCEPT
       !.counts = [c \in Counters |->
           bucket.counts[c] + (IF c \notin Increments(event.type) THEN 0
                               ELSE IF event.type = "token.user.issued" THEN event.count
                               ELSE 1)],
       !.latency = IF event.type \in Authentications /\ event.latency # None
                   THEN Observe(@, event.latency) ELSE @,
       !.webhook = IF event.type \in Deliveries /\ event.latency # None
                   THEN Observe(@, event.latency) ELSE @,
       !.classes = IF event.type \in {"authentication.failed", "authentication.denied"}
                   THEN @ + 1 ELSE @,
       !.backlog = IF event.type \in Deliveries \cup {"analytics.webhook.delivery.queued"}
                      /\ event.backlog # None THEN event.backlog ELSE @,
       !.first = IF @ = 0 THEN sequence ELSE Min({@, sequence}),
       !.last = Max({@, sequence}),
       !.subjects = IF event_observes_active_account(event.type)
                    THEN @ \cup event.subjects ELSE @]

-----------------------------------------------------------------------------
(* The wire bucket.  Subjects stay inside the realm: only their number is  *)
(* sent.  A family that was never observed is absent.                      *)

sa_observed(bucket) ==
    \E c \in {"sa_calls", "sa_rotations"} : Of(bucket, c) > 0
wh_observed(bucket) ==
    \E c \in {"wh_observed", "deliveries"} : Of(bucket, c) > 0

to_telemetry_bucket(bucket, assignment_epoch) ==
    [epoch |-> assignment_epoch, start |-> bucket.start,
     revision |-> Max({bucket.revision, 1}), first |-> bucket.first, last |-> bucket.last,
     closed |-> bucket.closed, counts |-> bucket.counts,
     latency |-> bucket.latency, webhook |-> bucket.webhook, backlog |-> bucket.backlog,
     classes |-> bucket.classes, active |-> Cardinality(bucket.subjects),
     families |-> {"authentication", "registration", "sessions_and_tokens"}
         \cup (IF sa_observed(bucket) THEN {"service_accounts"} ELSE {})
         \cup (IF wh_observed(bucket) THEN {"webhooks"} ELSE {})]

validate_histogram(h, expected_count) ==
    /\ h.count = expected_count
    /\ h.count <= MaxCounter
    /\ Len(h.cumulative) = Len(Bounds) + 1
    /\ \A i \in 1 .. Len(h.cumulative) - 1 : h.cumulative[i] <= h.cumulative[i + 1]
    /\ h.cumulative[Len(h.cumulative)] = h.count

validate_authentication(b) ==
    /\ \A c \in {"attempts", "successes", "failures", "denials"} : Of(b, c) <= MaxCounter
    /\ b.active <= MaxCounter
    /\ Of(b, "attempts") = Of(b, "successes") + Of(b, "failures") + Of(b, "denials")
    /\ validate_histogram(b.latency, Of(b, "attempts"))
    /\ b.classes = Of(b, "failures") + Of(b, "denials")

\* "funnel stages must be monotonically non-increasing"
validate_registration(b) ==
    /\ \A c \in {"options_started", "ceremonies_opened", "responses_returned",
                 "registrations_completed", "challenges_expired"} : Of(b, c) <= MaxCounter
    /\ Of(b, "options_started") >= Of(b, "ceremonies_opened")
    /\ Of(b, "ceremonies_opened") >= Of(b, "responses_returned")
    /\ Of(b, "responses_returned") >= Of(b, "registrations_completed")

validate_service_accounts(b) ==
    /\ \A c \in {"sa_calls", "sa_rotations"} : Of(b, c) <= MaxCounter
    /\ Of(b, "sa_calls") = Of(b, "sa_successes") + Of(b, "sa_failures") + Of(b, "sa_denials")

validate_webhooks(b) ==
    /\ Of(b, "deliveries") <= MaxCounter /\ b.backlog <= MaxCounter
    /\ Of(b, "deliveries") = Of(b, "wh_successes") + Of(b, "wh_failures")
    /\ validate_histogram(b.webhook, Of(b, "deliveries"))

validate_sessions(b) ==
    \A c \in {"sessions_created", "sessions_revoked", "user_tokens_issued",
              "service_tokens_issued"} : Of(b, c) <= MaxCounter

validate_sequence_range(first, last) ==
    (first = 0 /\ last = 0) \/ (first > 0 /\ last >= first)

validate_bucket(b) ==
    /\ b.epoch > 0
    /\ b.start >= 0 /\ b.start % Width = 0
    /\ b.revision > 0
    /\ validate_sequence_range(b.first, b.last)
    /\ b.closed
    /\ b.families # {}
    /\ "authentication" \in b.families => validate_authentication(b)
    /\ "registration" \in b.families => validate_registration(b)
    /\ "sessions_and_tokens" \in b.families => validate_sessions(b)
    /\ "service_accounts" \in b.families => validate_service_accounts(b)
    /\ "webhooks" \in b.families => validate_webhooks(b)

\* A batch holds at least one bucket and one snapshot per bucket key.
validate_batch(batch) ==
    /\ batch # <<>>
    /\ \A i \in DOMAIN batch : validate_bucket(batch[i])
    /\ \A i, j \in DOMAIN batch :
         batch[i].epoch = batch[j].epoch /\ batch[i].start = batch[j].start => i = j

\* A result names a positive revision, a known status, and carries a rejection
\* reason exactly when it is a rejection.
validate_acknowledgement(ack) ==
    /\ ack.epoch > 0 /\ ack.revision > 0 /\ ack.start % Width = 0
    /\ ack.status \in {"Accepted", "AlreadyAccepted", "Rejected", "Quarantined"}
    /\ (ack.status \in {"Rejected", "Quarantined"}) <=> (ack.reason # None)
=============================================================================
