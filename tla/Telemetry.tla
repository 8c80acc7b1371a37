------------------------------ MODULE Telemetry ------------------------------
(***************************************************************************)
(* Fleet analytics from the realm's event log to the analytical mirror:    *)
(* the projector that folds events into five-minute buckets, the outbox,   *)
(* the connector session that exports it, Fleet's acceptance of a batch    *)
(* (policy, quota, revision ledger), the GreptimeDB mirror, policy changes,*)
(* the purge after a revocation, and the archive import that feeds the     *)
(* same ledger (store/analytics_store.rs, telemetry.rs,                    *)
(* store/fleet_analytics.rs, store/fleet_analytics_control.rs,             *)
(* analytics_archive.rs, analytics_store.rs).                              *)
(*                                                                         *)
(* Work done under Store::mutation is one step.  Reads and writes outside  *)
(* it are steps of their own, so a handler whose stream is gone may still  *)
(* be between two of them when the realm's next session sends again.       *)
(***************************************************************************)
EXTENDS AnalyticsContract

CONSTANTS Grace,        \* CLOSE_GRACE_SECONDS
          Limit,        \* the projection limit of one pass
          MaxOutbox,    \* MAX_OUTBOX_RECORDS
          FutureSlack,  \* the ten minutes a bucket may lie ahead of Fleet's clock
          Handlers,     \* concurrent Fleet handlers: one per stream, one import
          Start,        \* the clock when the realm starts
          Workloads     \* what the environment does in one behaviour (bounds)

VARIABLES workload,     \* the behaviour's environment and its remaining budget
          clock,
          log,          \* the event log: a sequence of events
          cursor,       \* analytics:projector-cursor, None before the first pass
          closure,      \* analytics:closure-cursor
          buckets,      \* analytics:bucket:<start>
          outbox,       \* analytics:outbox:<start>:<revision>
          batches,      \* batch ids drawn so far
          grant,        \* assignment epoch of the realm's newest export grant, 0 none
          session,      \* the connector session: None or [epoch, pending]
          handlers,     \* Fleet handlers of accept_fleet_telemetry_batch_internal
          policy,       \* the organization's analytics policy
          requests,     \* policy idempotency records: request -> policy
          quota,        \* [used: minute -> count, marker: batch -> [state, at]]
          ledger,       \* fleet telemetry records by <<epoch, start>>
          mirror,       \* canonical GreptimeDB rows by <<epoch, start>>
          editing,      \* None or the policy request being applied
          archive,      \* None or the rows of a built archive
          manifest,     \* None, "Pending", "Complete"
          mirrored,     \* history: <<epoch, start, revision>> ever mirrored
          forfeited,    \* history: outbox keys trimmed or of an older assignment
          charged       \* history: batches charged per minute

realm == <<log, cursor, closure, buckets, outbox, batches, grant>>
fleet == <<policy, requests, quota, ledger, mirror, editing, archive, manifest>>
history == <<mirrored, forfeited, charged>>
vars == <<workload, clock, realm, session, handlers, fleet, history>>

Empty == [x \in {} |-> None]
With(f, x, v) == [y \in DOMAIN f \cup {x} |-> IF y = x THEN v ELSE f[y]]
Keep(f, S) == [y \in DOMAIN f \cap S |-> f[y]]
Less(k, l) == k[1] < l[1] \/ (k[1] = l[1] /\ k[2] < l[2])
Spend(field) == workload[field] > 0 /\ workload' = [workload EXCEPT ![field] = @ - 1]

\* FleetAnalyticsPolicyRecord::default_disabled
DefaultPolicy == [enabled |-> FALSE, retention |-> 35, quota |-> 288, archives |-> FALSE]

Init ==
    /\ workload \in Workloads
    /\ clock = Start
    /\ log = <<>> /\ cursor = None /\ closure = None
    /\ buckets = Empty /\ outbox = Empty /\ batches = 0
    /\ grant = 0 /\ session = None
    /\ handlers = [h \in Handlers |-> None]
    /\ policy = workload.policy /\ requests = Empty
    /\ quota = [used |-> Empty, marker |-> Empty]
    /\ ledger = Empty /\ mirror = Empty /\ editing = None
    /\ archive = None /\ manifest = None
    /\ mirrored = {} /\ forfeited = {} /\ charged = Empty

-----------------------------------------------------------------------------
(* The realm's events and its assignment.                                  *)

Tick == /\ Spend("ticks") /\ clock' = clock + 1
        /\ UNCHANGED <<realm, session, handlers, fleet, history>>

\* A registration logs its events in this order (auth/registration.rs).
RegistrationStages == <<"registration.options.started", "registration.ceremony.opened",
                        "registration.response.returned">>
InOrder(type) ==
    \A i \in 2 .. 3 : type = RegistrationStages[i] =>
      \E j \in DOMAIN log : log[j].type = RegistrationStages[i - 1]

append_event ==
    /\ Spend("events")
    /\ \E e \in workload.types :
         InOrder(e.type) /\ log' = Append(log, [e EXCEPT !.at = clock])
    /\ UNCHANGED <<clock, cursor, closure, buckets, outbox, batches, grant, session, handlers,
                   fleet, history>>

\* Pairing gives the realm a grant of a higher epoch; the revocation of the
\* previous connection purges its rows from the mirror (revoke_connection).
Pair ==
    /\ Spend("pairings")
    /\ grant' = grant + 1
    /\ mirror' = Keep(mirror, {k \in DOMAIN mirror : k[1] > grant})
    /\ UNCHANGED <<clock, log, cursor, closure, buckets, outbox, batches, session, handlers,
                   policy, requests, quota, ledger, editing, archive, manifest, history>>

-----------------------------------------------------------------------------
(* The projector.                                                          *)

Monus(a, b) == IF a > b THEN a - b ELSE 0
\* The cursor a pass starts from; the retained log begins at sequence 1.
From == IF cursor = None THEN 0 ELSE cursor
BugScanned == {i \in DOMAIN log : From <= i /\ i <= From + Limit}
Scanned == {i \in DOMAIN log : From < i /\ i <= From + Limit}
closure_before == Monus(clock, Grace)
latest_closable == aligned_bucket_start(Monus(closure_before, Width))
closure_from == IF closure = None THEN Monus(latest_closable, Width) ELSE closure
Candidates == {s \in closure_from + Width .. latest_closable : s % Width = 0}

Correct(bucket, i) ==
    LET after == apply(bucket, log[i], i)
    IN  IF bucket.closed /\ contributes(log[i])
        THEN [after EXCEPT !.revision = Max({@ + 1, 2})] ELSE after
Projected(start) ==
    FoldLeft(Correct,
             IF start \in DOMAIN buckets THEN buckets[start] ELSE NewBucket(start),
             SetToSortSeq({i \in Scanned : aligned_bucket_start(log[i].at) = start}, <))

Closing(bucket) ==
    IF bucket.start + Width <= closure_before THEN [bucket EXCEPT !.closed = TRUE] ELSE bucket

Touched == {aligned_bucket_start(log[i].at) : i \in Scanned}
           \cup (Candidates \cap DOMAIN buckets)

outbox_keys_to_trim(keys) ==
    {k \in keys : Cardinality({l \in keys : Less(k, l)}) >= MaxOutbox}

Superseded(send) == {k \in DOMAIN outbox : k[1] \in send}

\* Whether a pass has anything to write.
Due == Scanned # {} \/ cursor = None \/ closure # latest_closable

\* One pass: the scanned events, the buckets whose window and grace are over,
\* their full snapshots queued under the realm's current assignment, all in
\* one transaction.  A snapshot that fails its contract fails the pass.
project_analytics_events ==
    /\ Due
    /\ buckets' = [s \in DOMAIN buckets \cup Touched |->
                      IF s \in Touched THEN Closing(Projected(s)) ELSE buckets[s]]
    /\ LET epoch == IF grant = 0 THEN 1 ELSE grant
           key(s) == <<s, buckets'[s].revision>>
           send == {s \in Touched : buckets'[s].closed /\ key(s) \notin DOMAIN outbox}
           fresh == {key(s) : s \in send}
           rank(k) == Cardinality({l \in fresh : Less(l, k)})
           kept == (DOMAIN outbox \ Superseded(send)) \cup fresh
           trimmed == outbox_keys_to_trim(kept)
       IN  /\ \A s \in send : validate_batch(<<to_telemetry_bucket(buckets'[s], epoch)>>)
           /\ outbox' = [k \in kept \ trimmed |->
                  IF k \in DOMAIN outbox THEN outbox[k]
                  ELSE [batch |-> batches + rank(k) + 1, deferred |-> FALSE,
                        bucket |-> to_telemetry_bucket(buckets'[k[1]], epoch)]]
           /\ batches' = batches + Cardinality(fresh)
           /\ forfeited' = forfeited \cup trimmed
    /\ cursor' = IF Scanned = {} THEN From ELSE Max(Scanned)
    /\ closure' = Max(Candidates \cup {closure_from})
    /\ UNCHANGED <<workload, clock, log, grant, session, handlers, fleet, mirrored, charged>>

-----------------------------------------------------------------------------
(* The connector session of the realm.                                     *)

Deferred(key) == [k \in DOMAIN outbox |->
                     IF k = key THEN [outbox[k] EXCEPT !.deferred = TRUE] ELSE outbox[k]]
Detached == [h \in Handlers |-> IF handlers[h] = None THEN None
                                ELSE [handlers[h] EXCEPT !.attached = FALSE]]

\* run_connector_session opens a stream under the grant it was started with.
run_connector_session ==
    /\ session = None /\ grant > 0
    /\ session' = [epoch |-> grant, pending |-> None]
    /\ UNCHANGED <<workload, clock, realm, handlers, fleet, history>>

\* The stream ends: an error, a closed peer, a rotation or a shutdown.  The
\* pending record is deferred except at a shutdown or an error of the realm's
\* own.  A handler left behind may go on or be dropped.
SessionEnds ==
    /\ session # None /\ Spend("breaks")
    /\ session' = None /\ handlers' = Detached
    /\ \E deferring \in BOOLEAN :
         outbox' = IF deferring /\ session.pending # None THEN Deferred(session.pending.key)
                                                        ELSE outbox
    /\ UNCHANGED <<clock, log, cursor, closure, buckets, batches, grant, fleet, history>>

\* retry_delay_seconds is over.
RetryDue ==
    /\ \E k \in DOMAIN outbox :
         /\ outbox[k].deferred
         /\ outbox' = [outbox EXCEPT ![k].deferred = FALSE]
    /\ UNCHANGED <<workload, clock, log, cursor, closure, buckets, batches, grant, session,
                   handlers, fleet, history>>

\* The next record is the oldest one and no other: a deferred one makes every
\* later record wait, one of a newer assignment ends the session, one of an
\* older assignment is dropped, any other is sent and becomes pending.
Oldest == CHOOSE k \in DOMAIN outbox : \A l \in DOMAIN outbox : ~Less(l, k)

BugNextTelemetryRecord ==
    /\ session # None /\ session.pending = None /\ DOMAIN outbox # {}
    /\ ~outbox[Oldest].deferred
    /\ \/ /\ outbox[Oldest].bucket.epoch # session.epoch
          /\ session' = None /\ UNCHANGED handlers
       \/ /\ outbox[Oldest].bucket.epoch = session.epoch
          /\ session' = [session EXCEPT !.pending =
                            [key |-> Oldest, batch |-> outbox[Oldest].batch,
                             bucket |-> outbox[Oldest].bucket]]
          /\ \E h \in Handlers :
               /\ handlers[h] = None
               /\ handlers' = [handlers EXCEPT ![h] =
                     [stage |-> "policy", live |-> TRUE, attached |-> TRUE,
                      batch |-> outbox[Oldest].batch, rows |-> <<outbox[Oldest].bucket>>,
                      policy |-> None, minute |-> None, allowed |-> FALSE,
                      acks |-> <<>>, records |-> {}]]
    /\ UNCHANGED <<workload, clock, realm, fleet, history>>
next_telemetry_record ==
    /\ session # None /\ session.pending = None /\ DOMAIN outbox # {}
    /\ ~outbox[Oldest].deferred
    /\ \/ /\ outbox[Oldest].bucket.epoch > session.epoch
          /\ session' = None
          /\ UNCHANGED <<outbox, handlers, forfeited>>
       \/ /\ outbox[Oldest].bucket.epoch < session.epoch
          /\ outbox' = Keep(outbox, DOMAIN outbox \ {Oldest})
          /\ forfeited' = forfeited \cup {Oldest}
          /\ UNCHANGED <<session, handlers>>
       \/ /\ outbox[Oldest].bucket.epoch = session.epoch
          /\ session' = [session EXCEPT !.pending =
                            [key |-> Oldest, batch |-> outbox[Oldest].batch,
                             bucket |-> outbox[Oldest].bucket]]
          /\ \E h \in Handlers :
               /\ handlers[h] = None
               /\ handlers' = [handlers EXCEPT ![h] =
                     [stage |-> "policy", live |-> TRUE, attached |-> TRUE,
                      batch |-> outbox[Oldest].batch, rows |-> <<outbox[Oldest].bucket>>,
                      policy |-> None, minute |-> None, allowed |-> FALSE,
                      acks |-> <<>>, records |-> {}]]
          /\ UNCHANGED <<outbox, forfeited>>
    /\ UNCHANGED <<workload, clock, log, cursor, closure, buckets, batches, grant, fleet,
                   mirrored, charged>>

\* apply_acknowledgement: an accepted revision, and one Fleet already holds a
\* newer revision of, leave the outbox by their exact key; any other answer
\* keeps and defers it.
BugSettles(ack) == ack.status \in {"Accepted", "AlreadyAccepted", "Rejected"}
Settles(ack) == \/ ack.status \in {"Accepted", "AlreadyAccepted"}
                \/ ack.status = "Rejected" /\ ack.reason = "StaleRevision"

Removed(key) == {key}

apply_acknowledgement ==
    \E h \in Handlers :
      /\ handlers[h] # None /\ handlers[h].stage = "ack"
      /\ handlers[h].live /\ handlers[h].attached
      /\ LET ack == handlers[h].acks[1]
             key == session.pending.key
         IN  /\ handlers[h].batch = session.pending.batch /\ ack.revision = key[2]
             /\ outbox' = IF Settles(ack) THEN Keep(outbox, DOMAIN outbox \ Removed(key))
                                          ELSE Deferred(key)
      /\ session' = [session EXCEPT !.pending = None]
      /\ handlers' = [handlers EXCEPT ![h] = None]
      /\ UNCHANGED <<workload, clock, log, cursor, closure, buckets, batches, grant, fleet,
                     history>>

-----------------------------------------------------------------------------
(* Fleet: accept_fleet_telemetry_batch_internal, then the mirror, then the *)
(* acknowledgement (live) or the completed manifest (archive import).      *)

At(h, stage) == handlers[h] # None /\ handlers[h].stage = stage
Moves(h, record) == handlers' = [handlers EXCEPT ![h] = record]
fleet_now == clock + workload.skew
quota_minute == fleet_now \div workload.minute

Ack(bucket, status, reason) ==
    [epoch |-> bucket.epoch, start |-> bucket.start, revision |-> bucket.revision,
     status |-> status, reason |-> reason]
rejection_acknowledgement(rows, reason) ==
    [i \in DOMAIN rows |-> Ack(rows[i], "Rejected", reason)]

\* The policy is read once, before the lock; a disabled one rejects the batch.
ReadPolicy(h) ==
    /\ At(h, "policy")
    /\ Moves(h, IF policy.enabled
                THEN [handlers[h] EXCEPT !.stage = IF handlers[h].live THEN "claim" ELSE "accept",
                                         !.policy = policy]
                ELSE [handlers[h] EXCEPT !.stage = IF handlers[h].live THEN "ack" ELSE "bail",
                        !.acks = rejection_acknowledgement(handlers[h].rows, "PolicyDisabled")])
    /\ UNCHANGED <<workload, clock, realm, session, fleet, history>>

QuotaAnswer(record, allowed) ==
    IF allowed THEN [record EXCEPT !.stage = "accept"]
    ELSE [record EXCEPT !.stage = "ack",
                        !.acks = rejection_acknowledgement(record.rows, "ResourceLimit")]

\* consume_fleet_analytics_quota: SET NX claims the batch; a batch claimed
\* before is allowed only if its marker says so.
BugClaim(h) ==
    /\ At(h, "claim")
    /\ LET b == handlers[h].batch
       IN  /\ Moves(h, [handlers[h] EXCEPT !.stage = "count", !.minute = quota_minute])
           /\ quota' = [quota EXCEPT !.marker =
                           With(@, b, [state |-> "pending", at |-> quota_minute])]
    /\ UNCHANGED <<workload, clock, realm, session, policy, requests, ledger, mirror, editing, archive,
                   manifest, history>>
ClaimQuota(h) ==
    /\ At(h, "claim")
    /\ LET b == handlers[h].batch
       IN  IF b \in DOMAIN quota.marker
           THEN /\ Moves(h, QuotaAnswer(handlers[h], quota.marker[b].state = "allowed"))
                /\ UNCHANGED quota
           ELSE /\ Moves(h, [handlers[h] EXCEPT !.stage = "count", !.minute = quota_minute])
                /\ quota' = [quota EXCEPT !.marker =
                                With(@, b, [state |-> "pending", at |-> quota_minute])]
    /\ UNCHANGED <<workload, clock, realm, session, policy, requests, ledger, mirror, editing, archive,
                   manifest, history>>

Used(minute) == IF minute \in DOMAIN quota.used THEN quota.used[minute] ELSE 0
ChargedIn(minute) == IF minute \in DOMAIN charged THEN charged[minute] ELSE {}

\* INCR of the minute's counter by the number of buckets.
CountQuota(h) ==
    /\ At(h, "count")
    /\ LET used == Used(handlers[h].minute) + Len(handlers[h].rows)
       IN  /\ quota' = [quota EXCEPT !.used = With(@, handlers[h].minute, used)]
           /\ Moves(h, [handlers[h] EXCEPT !.stage = "mark",
                           !.allowed = used <= handlers[h].policy.quota])
    /\ charged' = With(charged, handlers[h].minute,
                       ChargedIn(handlers[h].minute) \cup {handlers[h].batch})
    /\ UNCHANGED <<workload, clock, realm, session, policy, requests, ledger, mirror, editing, archive,
                   manifest, mirrored, forfeited>>

MarkQuota(h) ==
    /\ At(h, "mark")
    /\ quota' = [quota EXCEPT !.marker =
          With(@, handlers[h].batch,
               [state |-> IF handlers[h].allowed THEN "allowed" ELSE "rejected",
                at |-> quota_minute])]
    /\ Moves(h, QuotaAnswer(handlers[h], handlers[h].allowed))
    /\ UNCHANGED <<workload, clock, realm, session, policy, requests, ledger, mirror, editing, archive,
                   manifest, history>>

\* The marker lives 120 seconds, two quota windows.  Past the model's horizon
\* every marker and counter is forgotten together.
MarkerExpires ==
    /\ \E b \in DOMAIN quota.marker :
         /\ quota.marker[b].at + 2 <= quota_minute
         /\ quota' = [quota EXCEPT !.marker = Keep(@, DOMAIN @ \ {b})]
    /\ UNCHANGED <<workload, clock, realm, session, handlers, policy, requests, ledger, mirror,
                   editing, archive, manifest, history>>
QuotaForgotten ==
    /\ workload.ticks = 0 /\ DOMAIN quota.marker # {}
    /\ \A h \in Handlers : ~At(h, "count") /\ ~At(h, "mark")
    /\ quota' = [used |-> Empty, marker |-> Empty] /\ charged' = Empty
    /\ UNCHANGED <<workload, clock, realm, session, handlers, policy, requests, ledger, mirror,
                   editing, archive, manifest, mirrored, forfeited>>

acceptance_decision(key, incoming) ==
    IF key \notin DOMAIN ledger THEN <<"Accepted", None>>
    ELSE IF incoming.revision < ledger[key].revision THEN <<"Rejected", "StaleRevision">>
    ELSE IF incoming.revision = ledger[key].revision
         THEN IF incoming = ledger[key] THEN <<"AlreadyAccepted", None>>
                                        ELSE <<"Quarantined", "InvalidContract">>
    ELSE IF incoming.last < ledger[key].last THEN <<"Rejected", "SequenceRegression">>
    ELSE <<"Accepted", None>>

Decision(record, bucket) ==
    IF bucket.start > fleet_now + FutureSlack THEN <<"Quarantined", "ClockSkew">>
    ELSE IF bucket.start + Width < fleet_now - record.policy.retention
         THEN <<"Rejected", "ResourceLimit">>
    ELSE acceptance_decision(<<bucket.epoch, bucket.start>>, bucket)

\* Under the mutation lock every row is decided against the ledger and the
\* accepted ones are committed together.  Rows held already are mirrored again.
AcceptBatch(h) ==
    /\ At(h, "accept")
    /\ LET rows == handlers[h].rows
           decide(i) == Decision(handlers[h], rows[i])
           new == {i \in DOMAIN rows : decide(i)[1] = "Accepted"}
           held == {i \in DOMAIN rows : decide(i)[1] = "AlreadyAccepted"}
           keys == {<<rows[i].epoch, rows[i].start>> : i \in new}
           row(k) == CHOOSE b \in {rows[i] : i \in new} : b.epoch = k[1] /\ b.start = k[2]
       IN  /\ ledger' = [k \in DOMAIN ledger \cup keys |->
                             IF k \in keys THEN row(k) ELSE ledger[k]]
           /\ Moves(h, [handlers[h] EXCEPT
                 !.stage = IF handlers[h].live \/ new \cup held = DOMAIN rows
                           THEN "mirror" ELSE "bail",
                 !.acks = [i \in DOMAIN rows |-> Ack(rows[i], decide(i)[1], decide(i)[2])],
                 !.records = {rows[i] : i \in new \cup held}])
    /\ UNCHANGED <<workload, clock, realm, session, policy, requests, quota, mirror, editing, archive,
                   manifest, history>>

upsert(h) ==
    /\ At(h, "mirror")
    /\ LET rows == handlers[h].records
           keys == {<<b.epoch, b.start>> : b \in rows}
       IN  /\ mirror' = [k \in DOMAIN mirror \cup keys |->
                  IF k \in keys THEN CHOOSE b \in rows : b.epoch = k[1] /\ b.start = k[2]
                                ELSE mirror[k]]
           /\ mirrored' = mirrored \cup {<<b.epoch, b.start, b.revision>> : b \in rows}
    /\ \A i \in DOMAIN handlers[h].acks : validate_acknowledgement(handlers[h].acks[i])
    /\ Moves(h, [handlers[h] EXCEPT !.stage = "ack"])
    /\ UNCHANGED <<workload, clock, realm, session, policy, requests, quota, ledger, editing, archive,
                   manifest, forfeited, charged>>

\* A handler whose stream is gone is dropped with its acknowledgement; an
\* import stops at a refused row, a timeout or a restart, its manifest pending.
HandlerDropped(h) ==
    /\ handlers[h] # None /\ ~(handlers[h].live /\ handlers[h].attached)
    /\ Moves(h, None)
    /\ UNCHANGED <<workload, clock, realm, session, fleet, history>>

-----------------------------------------------------------------------------
(* Policy changes and archive imports.                                     *)

\* update_analytics_policy first deletes the mirror's rows outside the
\* requested retention, then applies the request unless its id is known.
enforce_organization_retention ==
    /\ editing = None /\ Spend("edits")
    /\ \E r \in DOMAIN workload.requests :
         /\ editing' = r
         /\ mirror' = Keep(mirror, {k \in DOMAIN mirror :
                               k[2] >= fleet_now - workload.requests[r].retention})
    /\ UNCHANGED <<clock, realm, session, handlers, policy, requests, quota, ledger, archive,
                   manifest, history>>

update_fleet_analytics_policy ==
    /\ editing # None /\ editing' = None
    /\ IF editing \in DOMAIN requests THEN UNCHANGED <<policy, requests>>
       ELSE /\ policy' = workload.requests[editing]
            /\ requests' = With(requests, editing, policy')
    /\ UNCHANGED <<workload, clock, realm, session, handlers, quota, ledger, mirror, archive,
                   manifest, history>>

\* build_metric_bucket_archive_v1 over the realm's closed buckets: one realm
\* assignment per archive, one row per bucket.
build_metric_bucket_archive_v1 ==
    LET closed == SetToSortSeq({s \in DOMAIN buckets : buckets[s].closed}, <)
    IN  /\ Spend("archives") /\ archive = None /\ grant > 0 /\ closed # <<>>
        /\ archive' = [i \in DOMAIN closed |-> to_telemetry_bucket(buckets[closed[i]], grant)]
        /\ validate_batch(archive')
        /\ UNCHANGED <<clock, realm, session, handlers, policy, requests, quota, ledger, mirror,
                       editing, manifest, history>>

\* import_metric_bucket_archive_v1 up to the registered manifest: the archive
\* must belong to the connection's assignment and the policy must allow
\* archives; a completed manifest ends the import.
import_metric_bucket_archive_v1(h) ==
    /\ archive # None /\ handlers[h] = None /\ Spend("archives")
    /\ ~\E g \in Handlers : handlers[g] # None /\ ~handlers[g].live
    /\ archive[1].epoch = grant
    /\ policy.enabled /\ policy.archives
    /\ manifest # "Complete"
    /\ manifest' = "Pending"
    /\ Moves(h, [stage |-> "policy", live |-> FALSE, attached |-> FALSE, batch |-> 0,
                 rows |-> archive, policy |-> None, minute |-> None, allowed |-> FALSE,
                 acks |-> <<>>, records |-> {}])
    /\ UNCHANGED <<clock, realm, session, policy, requests, quota, ledger, mirror,
                   editing, archive, history>>

complete_fleet_analytics_manifest(h) ==
    /\ At(h, "ack") /\ ~handlers[h].live
    /\ manifest' = "Complete"
    /\ Moves(h, None)
    /\ UNCHANGED <<workload, clock, realm, session, policy, requests, quota, ledger, mirror,
                   editing, archive, history>>

-----------------------------------------------------------------------------
HandlerStep(h) ==
    \/ ReadPolicy(h) \/ ClaimQuota(h) \/ CountQuota(h) \/ MarkQuota(h)
    \/ AcceptBatch(h) \/ upsert(h) \/ HandlerDropped(h)
    \/ complete_fleet_analytics_manifest(h)

Next ==
    \/ Tick \/ append_event \/ Pair
    \/ project_analytics_events
    \/ run_connector_session \/ SessionEnds \/ RetryDue
    \/ next_telemetry_record \/ apply_acknowledgement
    \/ \E h \in Handlers : HandlerStep(h) \/ import_metric_bucket_archive_v1(h)
    \/ MarkerExpires \/ QuotaForgotten
    \/ enforce_organization_retention \/ update_fleet_analytics_policy
    \/ build_metric_bucket_archive_v1

Spec == Init /\ [][Next]_vars

\* The projector wakes every second, the exporter reopens its session and
\* ticks every second, time passes, the Fleet handlers run to their end and
\* quota state expires.  (Stated for the workloads that `drain', the only ones
\* that claim progress.)
System ==
    \/ run_connector_session \/ RetryDue \/ apply_acknowledgement
    \/ next_telemetry_record \/ project_analytics_events
FairSpec ==
    /\ Spec
    /\ WF_vars(workload.drains /\ Tick) /\ WF_vars(workload.drains /\ System)
    /\ WF_vars(workload.drains /\ QuotaForgotten)
    /\ \A h \in Handlers : WF_vars(workload.drains /\ HandlerStep(h))

-----------------------------------------------------------------------------
(* Properties.                                                             *)

\* Restart-safe projection: whatever passes were cut by their limit, whatever
\* buckets were closed and corrected, a bucket counts exactly the events of its
\* window up to the cursor, each once.
CountedOnce ==
    \A s \in DOMAIN buckets : \A c \in Counters :
      LET own == {i \in DOMAIN log : i <= From /\ aligned_bucket_start(log[i].at) = s
                                      /\ c \in Increments(log[i].type)}
      IN  buckets[s].counts[c] = Cardinality(own)

\* Every copy of a closed bucket that is on its way or has arrived.
Copies ==
    {outbox[k].bucket : k \in DOMAIN outbox}
    \cup UNION {{handlers[h].rows[i] : i \in DOMAIN handlers[h].rows} :
                  h \in {g \in Handlers : handlers[g] # None}}
    \cup {ledger[k] : k \in DOMAIN ledger} \cup {mirror[k] : k \in DOMAIN mirror}

\* A closed bucket is a promise: until Fleet has taken its current revision
\* into the ledger and the mirror, or the record was trimmed by the bounded
\* outbox or belonged to an earlier assignment, the record is in the outbox.
\* Lost answers, late answers and replays do not break it, and the outbox keeps
\* to its limit, with one revision per window.  And a revision names one
\* snapshot: wherever the same assignment, window and revision appear (outbox,
\* a request in flight, ledger, mirror), they carry the same numbers, so a
\* replay is recognised as one.
NothingAcknowledgedIsLost ==
    /\ Cardinality(DOMAIN outbox) <= MaxOutbox
    /\ \A k, l \in DOMAIN outbox : k[1] = l[1] => k = l
    /\ \A s \in DOMAIN buckets : buckets[s].closed =>
         LET r == buckets[s].revision
         IN  \/ <<s, r>> \in DOMAIN outbox
             \/ <<s, r>> \in forfeited
             \/ \E e \in 1 .. grant : /\ <<e, s>> \in DOMAIN ledger
                                      /\ ledger[<<e, s>>].revision >= r
                                      /\ <<e, s, r>> \in mirrored
    /\ \A a, b \in Copies :
         a.epoch = b.epoch /\ a.start = b.start /\ a.revision = b.revision => a = b

\* The realm's minute budget counts a batch once, however often the realm
\* retries it and however its handlers interleave.
ChargedOnce == \A m \in DOMAIN quota.used : quota.used[m] = Cardinality(ChargedIn(m))

\* Once paired, with a reachable Fleet, an enabled policy and clocks that agree, the outbox
\* drains whenever the realm goes quiet: nothing waits for ever behind a lost
\* answer, a dropped stream or a correction.
Drains == workload.drains /\ <>(grant > 0) => []<>(DOMAIN outbox = {})

\* The projector reads every event of the log in the end.
ProjectorKeepsUp == []<>(From = Len(log))
=============================================================================
