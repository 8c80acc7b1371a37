------------------------------ MODULE EventLog ------------------------------
(***************************************************************************)
(* The auth event log of store/events.rs with the processes that use it:   *)
(*                                                                         *)
(*  - request handlers, which append events (alone or with a webhook       *)
(*    record) under the snapshot gate and the mutation mutex;              *)
(*  - the retention worker, which prunes a prefix under the gate's write   *)
(*    side and the mutex;                                                  *)
(*  - the analytics projector, a consumer that runs under both locks;      *)
(*  - the webhook dispatcher and the event streams, consumers that take    *)
(*    no lock at all.                                                      *)
(*                                                                         *)
(* A step is one datastore round trip (or one lock operation): everything  *)
(* between two awaits.  Event payloads are abstracted to the sequence the  *)
(* record carries and its occurred_at time.                                *)
(***************************************************************************)
EXTENDS Integers

CONSTANTS
  Handlers,        \* concurrent HTTP and RPC requests
  Operations,      \* what those requests do: a subset of AllOperations
  Workers,         \* the workers that run: a subset of {Pruner, Projector}
  Streams,         \* event streams (AuthEventService.Subscribe)
  Webhooks,        \* webhook ids; naturals, because a pass visits them in id order
  Batches,         \* sizes of an append
  StreamLimit,     \* EVENT_BATCH_SIZE of a stream
  ProjectionLimit, \* PROJECTION_BATCH of the projector
  PruneMaximum,    \* RETENTION_BATCH of the retention worker
  Retention,       \* event_retention_seconds
  RequestTimeout,  \* REQUEST_TIMEOUT_SECONDS of the transport's TimeoutLayer
  MaxSequence,     \* the largest sequence number: u64::MAX
  MaxTime,         \* bound on the clock
  Pruner, Projector, Dispatcher, Nobody

AllOperations == {"append", "create", "update", "remove"}
Tasks   == Handlers \cup {Pruner, Projector}
Callers == Streams \cup {Dispatcher}

ASSUME LogConstants ==
  /\ Operations \subseteq AllOperations /\ Workers \subseteq {Pruner, Projector}
  /\ Webhooks \subseteq Nat
  /\ Batches \subseteq Nat \ {0}
  /\ StreamLimit \in Nat \ {0} /\ ProjectionLimit \in Nat \ {0} /\ PruneMaximum \in Nat \ {0}
  /\ Retention \in Nat /\ RequestTimeout \in Nat /\ MaxSequence \in Nat /\ MaxTime \in Nat

\* config.rs bounds the retention from below by a day; a request lives 30 seconds.
ASSUME RetentionOutlivesRequests == Retention >= 2 * RequestTimeout

ASSUME DistinctTasks ==
  /\ Pruner # Projector /\ Pruner # Dispatcher /\ Projector # Dispatcher
  /\ {Pruner, Projector, Dispatcher} \cap (Handlers \cup Streams) = {}
  /\ Nobody \notin Tasks

VARIABLES
  latest,     \* auth:event-sequence, 0 when absent
  minimum,    \* auth:event-min-sequence, 1 when absent
  log,        \* auth:event:<n>, a function on the sequences that have a record
  hooks,      \* ids with an auth:webhook:<id> record
  cursor,     \* auth:webhook-cursor:<id>, 0 when absent
  projector,  \* analytics:projector-cursor, NoCursor when absent
  clock,      \* store::now()
  mutation,   \* holder of Store::mutation, or Nobody
  readers,    \* tasks that hold a read guard of Store::snapshot_gate
  writer,     \* write side of the gate: "none", "queued" or "held"
  pc,         \* where each task is
  req,        \* locals of each request
  prune,      \* locals of the retention worker
  rd,         \* locals of Store::events in each of its callers
  dispatch,   \* locals of the dispatcher's pass
  scan,       \* scan_cursor of each stream, Closed when there is no stream
  created,    \* ids handed out by create_dashboard_webhook (fresh UUIDs)
  removed     \* history: ids that remove_webhook has deleted

durable == <<latest, minimum, log, hooks, cursor, projector>>
locks   == <<mutation, readers, writer>>
history == <<created, removed>>
vars == <<durable, clock, locks, pc, req, prune, rd, dispatch, scan, history>>

NoCursor == -1
Closed   == -1

Event   == [sequence : Nat, at : Nat]
Request == [op : AllOperations, hook : Webhooks \cup {Nobody},
            size : Nat, seq : Nat, at : Nat, deadline : Nat]
Read    == [phase : {"idle", "minimum", "latest", "fetch", "done"},
            after : Nat, limit : Nat, end : Nat,
            out : {"none", "empty", "events", "expired", "missing", "unexpected"}]
NoReq   == [op |-> "append", hook |-> Nobody, size |-> 0, seq |-> 0, at |-> 0, deadline |-> 0]
NoRead  == [phase |-> "idle", after |-> 0, limit |-> 0, end |-> 0, out |-> "none"]
Pass(at, todo, hook) == [at |-> at, todo |-> todo, hook |-> hook]
NoPass  == Pass("idle", {}, Nobody)
NoPrune == [cutoff |-> 0, safe |-> 0, todo |-> {}]

AtMost(a, b) == IF a <= b THEN a ELSE b

Init ==
  /\ latest = 0 /\ minimum = 1 /\ log = [s \in {} |-> [sequence |-> s, at |-> 0]]
  /\ hooks = {} /\ cursor = [w \in Webhooks |-> 0] /\ projector = NoCursor
  /\ clock = 0
  /\ mutation = Nobody /\ readers = {} /\ writer = "none"
  /\ pc = [t \in Tasks |-> "idle"]
  /\ req = [h \in Handlers |-> NoReq]
  /\ prune = NoPrune
  /\ rd = [c \in Callers |-> NoRead]
  /\ dispatch = NoPass
  /\ scan = [s \in Streams |-> Closed]
  /\ created = {} /\ removed = {}

-----------------------------------------------------------------------------
(***************************************************************************)
(* Locks.  The gate is a tokio RwLock: fair, so a queued writer keeps new  *)
(* readers out.  The mutation lock is a tokio Mutex.                       *)
(***************************************************************************)

\* (Bugs: an operator named Bug... is a wrong variant of the definition after it, kept
\* to show that the properties can tell the difference.)

\* The mutex is taken with the gate, and then once more.
BugEnterGate(t) ==
  /\ pc[t] = "gate" /\ t # Pruner /\ writer = "none" /\ mutation = Nobody
  /\ readers' = readers \cup {t}
  /\ mutation' = t
  /\ pc' = [pc EXCEPT ![t] = "lock"]
  /\ UNCHANGED <<durable, clock, writer, req, prune, rd, dispatch, scan, history>>

\* `let _snapshot = self.snapshot_gate.read().await`
EnterGate(t) ==
  /\ pc[t] = "gate" /\ t # Pruner /\ writer = "none"
  /\ readers' = readers \cup {t}
  /\ pc' = [pc EXCEPT ![t] = "lock"]
  /\ UNCHANGED <<durable, clock, mutation, writer, req, prune, rd, dispatch, scan, history>>

\* No mutual exclusion.
BugLock(t) ==
  /\ pc[t] = "lock"
  /\ mutation' = t
  /\ pc' = [pc EXCEPT ![t] = "body"]
  /\ UNCHANGED <<durable, clock, readers, writer, req, prune, rd, dispatch, scan, history>>

\* `let _guard = self.mutation.lock().await`
Lock(t) ==
  /\ pc[t] = "lock" /\ mutation = Nobody
  /\ mutation' = t
  /\ pc' = [pc EXCEPT ![t] = "body"]
  /\ UNCHANGED <<durable, clock, readers, writer, req, prune, rd, dispatch, scan, history>>

\* Dropping both guards: at the end of the scope, on an early return, or
\* because the future that owns them is dropped.
Release(t) ==
  /\ mutation' = IF mutation = t THEN Nobody ELSE mutation
  /\ readers' = readers \ {t}
  /\ writer' = IF t = Pruner THEN "none" ELSE writer

-----------------------------------------------------------------------------
(***************************************************************************)
(* Requests.  All four operations end in one append; the webhook ones      *)
(* change the destination's record first, under the same locks.            *)
(***************************************************************************)

Begin(h, op, hook, size, at) ==
  /\ pc[h] = "idle" /\ op \in Operations
  /\ req' = [req EXCEPT ![h] = [op |-> op, hook |-> hook, size |-> size, seq |-> 0, at |-> 0,
                                deadline |-> clock + RequestTimeout]]
  /\ pc' = [pc EXCEPT ![h] = at]
  /\ UNCHANGED <<durable, clock, locks, prune, rd, dispatch, scan, removed>>

\* append_event, append_event_with_data, append_telemetry_events and every
\* account mutation that queues n events in its own pipeline.
BeginAppend(h) ==
  /\ \E n \in Batches : Begin(h, "append", Nobody, n, "gate")
  /\ UNCHANGED created

\* create_dashboard_webhook: the id is a new UUID.
CreateWebhook(h) ==
  \E w \in Webhooks \ created :
    /\ Begin(h, "create", w, 1, "latest")
    /\ created' = created \cup {w}

\* update_webhook and rotate_signing_secret read the record without a lock and
\* put it back under the locks.
UpdateWebhook(h) ==
  /\ \E w \in hooks : Begin(h, "update", w, 1, "gate")
  /\ UNCHANGED created

\* delete_webhook: a record that is not there is not found.
DeleteWebhook(h) ==
  /\ \E w \in hooks : Begin(h, "remove", w, 1, "gate")
  /\ UNCHANGED created

\* The argument of set_webhook_cursor: the log's end, read without a lock.
ReadLatest(h) ==
  /\ pc[h] = "latest"
  /\ req' = [req EXCEPT ![h].seq = latest]
  /\ pc' = [pc EXCEPT ![h] = "cursor"]
  /\ UNCHANGED <<durable, clock, locks, prune, rd, dispatch, scan, history>>

\* A destination starts without a cursor.
BugStartCursor(h) ==
  /\ pc[h] = "cursor"
  /\ pc' = [pc EXCEPT ![h] = "gate"]
  /\ UNCHANGED <<durable, clock, locks, req, prune, rd, dispatch, scan, history>>

StartCursor(h) ==
  /\ pc[h] = "cursor"
  /\ cursor' = [cursor EXCEPT ![req[h].hook] = req[h].seq]
  /\ pc' = [pc EXCEPT ![h] = "gate"]
  /\ UNCHANGED <<latest, minimum, log, hooks, projector, clock, locks, req, prune, rd,
                 dispatch, scan, history>>

\* put_webhook: the record is SET whether or not it is still there.
PutWebhook(h) ==
  /\ pc[h] = "body" /\ req[h].op \in {"create", "update"}
  /\ hooks' = hooks \cup {req[h].hook}
  /\ pc' = [pc EXCEPT ![h] = "append"]
  /\ UNCHANGED <<latest, minimum, log, cursor, projector, clock, locks, req, prune, rd,
                 dispatch, scan, history>>

\* remove_webhook: record and cursor go in one transaction.
RemoveWebhook(h) ==
  /\ pc[h] = "body" /\ req[h].op = "remove"
  /\ hooks' = hooks \ {req[h].hook}
  /\ cursor' = [cursor EXCEPT ![req[h].hook] = 0]
  /\ removed' = removed \cup {req[h].hook}
  /\ pc' = [pc EXCEPT ![h] = "append"]
  /\ UNCHANGED <<latest, minimum, log, projector, clock, locks, req, prune, rd, dispatch,
                 scan, created>>

EndRequest(h) ==
  /\ Release(h)
  /\ pc' = [pc EXCEPT ![h] = "idle"]
  /\ req' = [req EXCEPT ![h] = NoReq]

\* pending_events: the numbers follow the stored counter, the time is now().
\* An exhausted counter is an error, and the guards are dropped.
PendingEvents(h) ==
  /\ pc[h] = "append" \/ (pc[h] = "body" /\ req[h].op = "append")
  /\ IF latest + req[h].size > MaxSequence
     THEN EndRequest(h)
     ELSE /\ req' = [req EXCEPT ![h] = [@ EXCEPT !.seq = latest + 1, !.at = clock]]
          /\ pc' = [pc EXCEPT ![h] = "commit"]
          /\ UNCHANGED locks
  /\ UNCHANGED <<durable, clock, prune, rd, dispatch, scan, history>>

\* queue_events in one MSET: the records and the counter together.
QueueEvents(h) ==
  LET first == req[h].seq
      last  == first + req[h].size - 1
  IN  /\ log' = [s \in DOMAIN log \cup (first..last) |->
                   IF s \in first..last THEN [sequence |-> s, at |-> req[h].at] ELSE log[s]]
      /\ latest' = last

CommitEvents(h) ==
  /\ pc[h] = "commit"
  /\ QueueEvents(h)
  /\ EndRequest(h)
  /\ UNCHANGED <<minimum, hooks, cursor, projector, clock, prune, rd, dispatch, scan, history>>

\* The request is dropped: the TimeoutLayer fired, the client went away, or a
\* datastore call failed.  A transaction that was already sent is a CommitEvents
\* whose answer nobody reads.
DropRequest(h) ==
  /\ pc[h] # "idle"
  /\ EndRequest(h)
  /\ UNCHANGED <<durable, clock, prune, rd, dispatch, scan, history>>

-----------------------------------------------------------------------------
(***************************************************************************)
(* Store::events(after, limit): three unlocked reads, minimum, latest and  *)
(* the MGET of the batch.                                                  *)
(***************************************************************************)

StartRead(after, limit) ==
  [phase |-> "minimum", after |-> after, limit |-> limit, end |-> 0, out |-> "none"]

EventsMinimum(c) ==
  /\ rd[c].phase = "minimum"
  /\ rd' = [rd EXCEPT ![c] = IF rd[c].after + 1 < minimum
                             THEN [@ EXCEPT !.phase = "done", !.out = "expired"]
                             ELSE [@ EXCEPT !.phase = "latest"]]
  /\ UNCHANGED <<durable, clock, locks, pc, req, prune, dispatch, scan, history>>

\* The batch is not cut off at the log's end.
BugEventsLatest(c) ==
  LET end == rd[c].after + rd[c].limit
  IN  /\ rd[c].phase = "latest"
      /\ rd' = [rd EXCEPT ![c] = [@ EXCEPT !.phase = "fetch", !.end = end]]
      /\ UNCHANGED <<durable, clock, locks, pc, req, prune, dispatch, scan, history>>

EventsLatest(c) ==
  LET end == AtMost(latest, rd[c].after + rd[c].limit)
  IN  /\ rd[c].phase = "latest"
      /\ rd' = [rd EXCEPT ![c] = IF end <= rd[c].after
                                 THEN [@ EXCEPT !.phase = "done", !.out = "empty"]
                                 ELSE [@ EXCEPT !.phase = "fetch", !.end = end]]
      /\ UNCHANGED <<durable, clock, locks, pc, req, prune, dispatch, scan, history>>

EventsFetch(c) ==
  LET batch == rd[c].after + 1 .. rd[c].end
      out == IF ~ batch \subseteq DOMAIN log THEN "missing"
             ELSE IF \E s \in batch : log[s].sequence # s THEN "unexpected" ELSE "events"
  IN  /\ rd[c].phase = "fetch"
      /\ rd' = [rd EXCEPT ![c] = [@ EXCEPT !.phase = "done", !.out = out]]
      /\ UNCHANGED <<durable, clock, locks, pc, req, prune, dispatch, scan, history>>

Failed(c) == rd[c].out \in {"expired", "missing", "unexpected"}

-----------------------------------------------------------------------------
(***************************************************************************)
(* The retention worker: run_event_retention and prune_events_older_than.  *)
(***************************************************************************)

\* The hourly tick fixes the cutoff for all passes of its loop.
RetentionTick ==
  /\ pc[Pruner] = "idle" /\ Pruner \in Workers
  /\ prune' = [cutoff |-> IF clock > Retention THEN clock - Retention ELSE 0,
                safe |-> 0, todo |-> {}]
  /\ writer' = "queued"
  /\ pc' = [pc EXCEPT ![Pruner] = "gate"]
  /\ UNCHANGED <<durable, clock, mutation, readers, req, rd, dispatch, scan, history>>

\* `self.snapshot_gate.write().await`
PruneGate ==
  /\ pc[Pruner] = "gate" /\ readers = {}
  /\ writer' = "held"
  /\ pc' = [pc EXCEPT ![Pruner] = "lock"]
  /\ UNCHANGED <<durable, clock, mutation, readers, req, prune, rd, dispatch, scan, history>>

\* The first bound on what may go: the log's end and the projector.
PruneScan ==
  /\ pc[Pruner] = "body"
  /\ prune' = [prune EXCEPT !.safe = IF projector = NoCursor THEN latest
                                     ELSE AtMost(latest, projector),
                            !.todo = hooks]
  /\ pc' = [pc EXCEPT ![Pruner] = "cursors"]
  /\ UNCHANGED <<durable, clock, locks, req, rd, dispatch, scan, history>>

\* One round trip per destination.
PruneCursor ==
  /\ pc[Pruner] = "cursors"
  /\ \E w \in prune.todo :
       prune' = [prune EXCEPT !.safe = AtMost(@, cursor[w]), !.todo = @ \ {w}]
  /\ UNCHANGED <<durable, clock, locks, pc, req, rd, dispatch, scan, history>>

PruneEnd == AtMost(prune.safe, minimum + PruneMaximum - 1)

\* The events up to s are all older than the cutoff.
Prunable(s) == \A q \in minimum..s : log[q].at < prune.cutoff

\* A missing or misnumbered record that the pass meets before it would stop.
BadRecord ==
  \E q \in minimum..PruneEnd :
    /\ minimum..(q - 1) \subseteq DOMAIN log /\ Prunable(q - 1)
    /\ q \notin DOMAIN log \/ log[q].sequence # q

EndPrune ==
  /\ Release(Pruner)
  /\ pc' = [pc EXCEPT ![Pruner] = "idle"]
  /\ prune' = NoPrune

\* Deletes the prefix that ends in `last` and moves the minimum past it.
PruneApply ==
  /\ pc[Pruner] = "cursors" /\ prune.todo = {}
  /\ ~ BadRecord
  /\ \E last \in minimum..PruneEnd :
       /\ Prunable(last) /\ (last < PruneEnd => ~ Prunable(last + 1))
       /\ log' = [s \in DOMAIN log \ (minimum..last) |-> log[s]]
       /\ minimum' = last + 1
       /\ IF last - minimum + 1 = PruneMaximum
          THEN /\ mutation' = Nobody /\ writer' = "queued"
               /\ pc' = [pc EXCEPT ![Pruner] = "gate"]
               /\ UNCHANGED <<readers, prune>>
          ELSE EndPrune
  /\ UNCHANGED <<latest, hooks, cursor, projector, clock, req, rd, dispatch, scan, history>>

\* The loop goes on although nothing was removed.
BugPruneNothing ==
  /\ pc[Pruner] = "cursors" /\ prune.todo = {}
  /\ ~ (minimum <= PruneEnd /\ ~ BadRecord /\ Prunable(minimum))
  /\ mutation' = Nobody /\ writer' = "queued"
  /\ pc' = [pc EXCEPT ![Pruner] = "gate"]
  /\ UNCHANGED <<durable, clock, readers, req, prune, rd, dispatch, scan, history>>

\* Nothing old enough, nothing every consumer has passed, or a bad record.
PruneNothing ==
  /\ pc[Pruner] = "cursors" /\ prune.todo = {}
  /\ ~ (minimum <= PruneEnd /\ ~ BadRecord /\ Prunable(minimum))
  /\ EndPrune
  /\ UNCHANGED <<durable, clock, req, rd, dispatch, scan, history>>

-----------------------------------------------------------------------------
(***************************************************************************)
(* The analytics projector, as far as the log is concerned.                *)
(***************************************************************************)

ProjectorTick ==
  /\ pc[Projector] = "idle" /\ Projector \in Workers
  /\ pc' = [pc EXCEPT ![Projector] = "gate"]
  /\ UNCHANGED <<durable, clock, locks, req, prune, rd, dispatch, scan, history>>

EndProjection ==
  /\ Release(Projector)
  /\ pc' = [pc EXCEPT ![Projector] = "idle"]

\* project_analytics_events reads the cursor, then events(cursor, limit), and
\* commits the buckets with the new cursor.  It holds both locks, so nothing it
\* reads can change meanwhile.  Without a cursor it begins at the oldest retained
\* event; if events fails it changes nothing.
ProjectEvents ==
  LET after == IF projector = NoCursor THEN minimum - 1 ELSE projector
      end   == AtMost(latest, after + ProjectionLimit)
  IN  /\ pc[Projector] = "body"
      /\ projector' = IF after + 1 < minimum \/ ~ (after + 1 .. end) \subseteq DOMAIN log
                      THEN projector
                      ELSE IF end > after THEN end ELSE after
      /\ EndProjection
      /\ UNCHANGED <<latest, minimum, log, hooks, cursor, clock, req, prune, rd, dispatch, scan,
                     history>>

-----------------------------------------------------------------------------
(***************************************************************************)
(* The webhook dispatcher: dispatch_once and dispatch_webhook.  Delivery   *)
(* records are left out: an attempt ends or does not end the event's       *)
(* delivery.  The analytics events a delivery appends are appends like     *)
(* those of the handlers.                                                  *)
(***************************************************************************)

\* On to the next destination of the pass.
NextHook ==
  /\ dispatch' = Pass("next", dispatch.todo, Nobody)
  /\ rd' = [rd EXCEPT ![Dispatcher] = NoRead]

EndPass ==
  /\ dispatch' = NoPass
  /\ rd' = [rd EXCEPT ![Dispatcher] = NoRead]

\* One pass over the destinations that are not paused.
DispatchOnce ==
  /\ dispatch.at = "idle"
  /\ \E active \in SUBSET hooks : dispatch' = Pass("next", active, Nobody)
  /\ UNCHANGED <<durable, clock, locks, pc, req, prune, rd, scan, history>>

\* The next destination in id order: its cursor, then events(cursor, 1).
DispatchWebhook ==
  /\ dispatch.at = "next"
  /\ \E w \in dispatch.todo :
       /\ \A v \in dispatch.todo : w <= v
       /\ dispatch' = Pass("events", dispatch.todo \ {w}, w)
       /\ rd' = [rd EXCEPT ![Dispatcher] = StartRead(cursor[w], 1)]
  /\ UNCHANGED <<durable, clock, locks, pc, req, prune, scan, history>>

DispatchDone ==
  /\ dispatch.at = "next" /\ dispatch.todo = {}
  /\ EndPass
  /\ UNCHANGED <<durable, clock, locks, pc, req, prune, scan, history>>

\* No event, or a delivery whose next attempt is not due: the next destination.
\* An internal or unsubscribed event, or one whose delivery is final, is
\* passed over; any other is attempted.
DispatchEvent ==
  /\ dispatch.at = "events" /\ rd[Dispatcher].phase = "done" /\ ~ Failed(Dispatcher)
  /\ \/ NextHook
     \/ /\ rd[Dispatcher].out = "events"
        /\ \E at \in {"advance", "send"} : dispatch' = [dispatch EXCEPT !.at = at]
        /\ UNCHANGED rd
  /\ UNCHANGED <<durable, clock, locks, pc, req, prune, scan, history>>

\* The attempt ends the delivery (it succeeded, or failed for good), or is to be
\* retried; then update_webhook_runtime, an unlocked SET of the record that
\* dispatch_once read.
DispatchRuntime ==
  /\ dispatch.at = "send"
  /\ hooks' = hooks \cup {dispatch.hook}
  /\ \/ NextHook
     \/ dispatch' = [dispatch EXCEPT !.at = "advance"] /\ UNCHANGED rd
  /\ UNCHANGED <<latest, minimum, log, cursor, projector, clock, locks, pc, req, prune, scan,
                 history>>

\* set_webhook_cursor(event.sequence), unlocked.
DispatchAdvance ==
  /\ dispatch.at = "advance"
  /\ cursor' = [cursor EXCEPT ![dispatch.hook] = rd[Dispatcher].after + 1]
  /\ NextHook
  /\ UNCHANGED <<latest, minimum, log, hooks, projector, clock, locks, pc, req, prune, scan,
                 history>>

\* `?` ends the whole pass: events failed, or any datastore call did.
DispatchAbort ==
  /\ dispatch.at # "idle"
  /\ EndPass
  /\ UNCHANGED <<durable, clock, locks, pc, req, prune, scan, history>>

-----------------------------------------------------------------------------
(***************************************************************************)
(* Event streams: EventRpc::subscribe and event_stream.                    *)
(***************************************************************************)

\* A cursor ahead of the log is refused.
Subscribe(s) ==
  /\ scan[s] = Closed
  /\ \E after \in 0..latest : scan' = [scan EXCEPT ![s] = after]
  /\ UNCHANGED <<durable, clock, locks, pc, req, prune, rd, dispatch, history>>

StreamPoll(s) ==
  /\ scan[s] # Closed /\ rd[s].phase = "idle"
  /\ rd' = [rd EXCEPT ![s] = StartRead(scan[s], StreamLimit)]
  /\ UNCHANGED <<durable, clock, locks, pc, req, prune, dispatch, scan, history>>

\* Yields the batch, or ends the stream with the error.  A checkpoint after an
\* idle poll ends it when the log's end is behind the stream.
StreamBatch(s) ==
  /\ rd[s].phase = "done"
  /\ scan' = [scan EXCEPT ![s] =
                CASE rd[s].out = "events" -> rd[s].end
                  [] rd[s].out = "empty" /\ latest >= @ -> @
                  [] OTHER -> Closed]
  /\ rd' = [rd EXCEPT ![s] = NoRead]
  /\ UNCHANGED <<durable, clock, locks, pc, req, prune, dispatch, history>>

\* The client disconnects.
StreamClose(s) ==
  /\ scan[s] # Closed
  /\ scan' = [scan EXCEPT ![s] = Closed]
  /\ rd' = [rd EXCEPT ![s] = NoRead]
  /\ UNCHANGED <<durable, clock, locks, pc, req, prune, dispatch, history>>

-----------------------------------------------------------------------------
\* Time passes, but no request outlives its timeout.
Tick ==
  /\ clock < MaxTime
  /\ \A h \in Handlers : pc[h] # "idle" => clock < req[h].deadline
  /\ clock' = clock + 1
  /\ UNCHANGED <<durable, locks, pc, req, prune, rd, dispatch, scan, history>>

\* The process stops and starts again; the datastore keeps what was committed.
Crash ==
  /\ mutation' = Nobody /\ readers' = {} /\ writer' = "none"
  /\ pc' = [t \in Tasks |-> "idle"]
  /\ req' = [h \in Handlers |-> NoReq]
  /\ prune' = NoPrune
  /\ rd' = [c \in Callers |-> NoRead]
  /\ dispatch' = NoPass
  /\ scan' = [s \in Streams |-> Closed]
  /\ UNCHANGED <<durable, clock, history>>

\* A datastore call of a worker fails: it logs the error and waits for its next tick.
WorkerFails ==
  /\ \/ pc[Pruner] # "idle" /\ EndPrune
     \/ pc[Projector] # "idle" /\ EndProjection /\ UNCHANGED prune
  /\ UNCHANGED <<durable, clock, req, rd, dispatch, scan, history>>

Handle(h) ==
  \/ EnterGate(h) \/ Lock(h) \/ ReadLatest(h) \/ StartCursor(h)
  \/ PutWebhook(h) \/ RemoveWebhook(h) \/ PendingEvents(h) \/ CommitEvents(h)

Prune ==
  \/ PruneGate \/ Lock(Pruner) \/ PruneScan \/ PruneCursor \/ PruneApply \/ PruneNothing

Project ==
  \/ EnterGate(Projector) \/ Lock(Projector) \/ ProjectEvents

ReadEvents(c) == EventsMinimum(c) \/ EventsLatest(c) \/ EventsFetch(c)

Dispatch ==
  \/ DispatchOnce \/ DispatchWebhook \/ DispatchDone \/ DispatchEvent
  \/ DispatchRuntime \/ DispatchAdvance \/ DispatchAbort

Next ==
  \/ \E h \in Handlers :
       \/ BeginAppend(h) \/ CreateWebhook(h) \/ UpdateWebhook(h) \/ DeleteWebhook(h)
       \/ Handle(h) \/ DropRequest(h)
  \/ RetentionTick \/ Prune
  \/ ProjectorTick \/ Project
  \/ \E c \in Callers : ReadEvents(c)
  \/ Dispatch
  \/ \E s \in Streams : Subscribe(s) \/ StreamPoll(s) \/ StreamBatch(s) \/ StreamClose(s)
  \/ WorkerFails
  \/ Tick \/ Crash

Spec == Init /\ [][Next]_vars

(***************************************************************************)
(* Fairness.  A task that holds or waits for a lock is polled again when   *)
(* it can go on, and tokio's Mutex and RwLock serve waiters in order, so a *)
(* waiter is not passed over for ever.  Nothing is assumed of the clients, *)
(* of failures or of the timeout.                                          *)
(***************************************************************************)
Fairness ==
  /\ \A h \in Handlers : WF_vars(Handle(h)) /\ SF_vars(EnterGate(h)) /\ SF_vars(Lock(h))
  /\ WF_vars(Prune)
  /\ WF_vars(Project) /\ SF_vars(EnterGate(Projector)) /\ SF_vars(Lock(Projector))

FairSpec == Spec /\ Fairness

-----------------------------------------------------------------------------
\* Types of the durable keys, the locks and the tasks' locals.
TypeOK ==
  /\ latest \in Nat /\ minimum \in Nat \ {0}
  /\ DOMAIN log \subseteq Nat /\ log \in [DOMAIN log -> Event]
  /\ hooks \subseteq Webhooks /\ cursor \in [Webhooks -> Nat] /\ projector \in Nat \cup {NoCursor}
  /\ clock \in Nat
  /\ mutation \in Tasks \cup {Nobody} /\ readers \subseteq Tasks
  /\ writer \in {"none", "queued", "held"}
  /\ pc \in [Tasks -> {"idle", "latest", "cursor", "gate", "lock", "body", "append", "commit",
                       "cursors"}]
  /\ req \in [Handlers -> Request]
  /\ \A h \in Handlers : req[h].op # "append" => req[h].hook \in Webhooks
  /\ prune \in [cutoff : Nat, safe : Nat, todo : SUBSET Webhooks]
  /\ rd \in [Callers -> Read]
  /\ dispatch \in [at : {"idle", "next", "events", "send", "advance"},
                   todo : SUBSET Webhooks, hook : Webhooks \cup {Nobody}]
  /\ dispatch.at \in {"events", "send", "advance"} => dispatch.hook \in Webhooks
  /\ scan \in [Streams -> Nat \cup {Closed}]
  /\ created \subseteq Webhooks /\ removed \subseteq Webhooks

\* "Append-only auth event log with gap-free sequencing" (store/events.rs): the
\* records are exactly those numbered minimum..latest, each under its own number,
\* whatever the interleaving of appends, prunes, drops and crashes.
LogIsGapFree ==
  /\ DOMAIN log = minimum..latest
  /\ \A s \in DOMAIN log : log[s].sequence = s

\* prune_events_older_than never removes an event that a webhook destination or the
\* projector has still to read.  A destination whose creation is under way when the
\* worker scans the destinations is included: its cursor is set before its record
\* exists.  (An id that was deleted may come back with no cursor, because
\* update_webhook_runtime and put_webhook SET the record blindly.)
RetentionKeepsUnread ==
  /\ \A w \in hooks \ removed : minimum <= cursor[w] + 1
  /\ projector # NoCursor => minimum <= projector + 1

\* The dispatcher never gets CursorExpired, MissingSequence or UnexpectedSequence from
\* events() for a destination that was not deleted, although it reads the cursor and
\* the log in four unlocked steps beside appends and prunes.  An error would end the
\* pass for every destination after the failing one.
DispatcherNeverFails ==
  dispatch.at = "events" /\ dispatch.hook \notin removed => ~ Failed(Dispatcher)

\* A stream never runs ahead of the log, so the "auth event sequence moved backwards"
\* error of event_stream is never raised, across crashes included.
StreamsBehindLog == \A s \in Streams : scan[s] <= latest

\* What is in the log stays as it is until it is pruned, the counters never go back,
\* and no step both appends and prunes: two appends never take the same number.
AppendOnly ==
  [][/\ latest <= latest' /\ minimum <= minimum'
     /\ \A s \in DOMAIN log : s >= minimum' => s \in DOMAIN log' /\ log'[s] = log[s]
     /\ latest # latest' => minimum = minimum']_vars

\* A destination's cursor only moves forward, one event at a time, and never past the
\* log's end, as long as the destination is not deleted.
CursorsAdvance ==
  [][\A w \in hooks \ removed' :
       /\ cursor'[w] \in {cursor[w], cursor[w] + 1}
       /\ cursor'[w] <= latest']_vars

\* A retention pass that waits for the gate ends: requests and the projector, which
\* hold read guards while they wait for the mutation lock, never block it for good.
RetentionPassEnds == pc[Pruner] = "gate" ~> pc[Pruner] = "idle"

\* A request that waits for the locks ends, without help from the timeout.
RequestsEnd == \A h \in Handlers : pc[h] = "gate" ~> pc[h] = "idle"
=============================================================================
