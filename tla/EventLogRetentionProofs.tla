------------------------ MODULE EventLogRetentionProofs ------------------------
(***************************************************************************)
(* Retention and the consumers of the log: proofs that prune_events_older_ *)
(* than keeps what destinations and the projector have still to read, that *)
(* the dispatcher is never refused an event, that no stream runs ahead of  *)
(* the log and that cursors advance one event at a time.                   *)
(*                                                                         *)
(* Retention reads the destinations' cursors in one pass and deletes in a  *)
(* later step; the dispatcher moves cursors without a lock; a destination  *)
(* is created with a cursor read before its record exists.  What saves the *)
(* last case is time: no request lives long enough for an event appended   *)
(* after it began to become old enough to prune.                           *)
(***************************************************************************)
EXTENDS EventLogProofs

USE LogConstants, DistinctTasks DEF NoCursor, Closed, Tasks, Callers, AllOperations

\* Ids that have a record or had one.
Known == hooks \cup removed

\* create_dashboard_webhook, before it has put the record.
Creating(h) ==
  pc[h] \in {"latest", "cursor", "gate", "lock", "body"} /\ req[h].op = "create"

\* The dispatcher is at work for a destination.
Serving == dispatch.at \in {"events", "send", "advance"}

\* A new id is its creator's alone until the record is put; all other users of an id know
\* it from a record.
KnownInv ==
  /\ Known \subseteq created
  /\ \A h \in Handlers : pc[h] # "idle" /\ req[h].op # "append" =>
       IF Creating(h) THEN req[h].hook \in created \ Known ELSE req[h].hook \in Known
  /\ \A g, h \in Handlers : Creating(g) /\ Creating(h) /\ req[g].hook = req[h].hook => g = h
  /\ \A h \in Handlers : pc[h] \in {"latest", "cursor"} => Creating(h)
  /\ dispatch.todo \subseteq Known
  /\ Serving => dispatch.hook \in Known

\* A read never reaches past the log's end, nor does a stream.
ReadInv ==
  /\ \A c \in Callers : /\ rd[c].end <= latest
                        /\ rd[c].phase = "fetch" \/ rd[c].out = "events" => rd[c].after < rd[c].end
                        /\ rd[c].out # "none" => rd[c].phase = "done"
  /\ dispatch.at \in {"send", "advance"} => rd[Dispatcher].out = "events"
  /\ \A s \in Streams : scan[s] <= latest

\* A request lives no longer than its timeout, numbers its events while it lives, and the
\* cutoff of a retention pass is as old as the retention says.
TimeInv ==
  /\ \A h \in Handlers : pc[h] # "idle" =>
       /\ clock <= req[h].deadline /\ req[h].deadline <= clock + RequestTimeout
       /\ pc[h] = "commit" => req[h].deadline <= req[h].at + RequestTimeout
  /\ pc[Pruner] # "idle" => prune.cutoff = 0 \/ prune.cutoff + Retention <= clock

\* The cursor of a destination that is being created: what was appended after it was read
\* is too young to be pruned while the request lives.
CreationInv ==
  \A h \in Handlers : Creating(h) /\ pc[h] # "latest" =>
    /\ minimum <= req[h].seq + 1 /\ req[h].seq <= latest
    /\ \A s \in DOMAIN log : s > req[h].seq => req[h].deadline <= log[s].at + 2 * RequestTimeout
    /\ pc[h] # "cursor" => cursor[req[h].hook] = req[h].seq

\* The dispatcher works from the stored cursor, as long as the destination is not removed.
CursorInv ==
  /\ \A w \in hooks \ removed : cursor[w] <= latest
  /\ Serving /\ dispatch.hook \notin removed =>
       /\ rd[Dispatcher].after = cursor[dispatch.hook] /\ rd[Dispatcher].limit = 1
       /\ ~ Failed(Dispatcher)

\* What a retention pass may delete is bounded by every cursor it has read.
PruneInv ==
  pc[Pruner] = "cursors" =>
    /\ \A w \in hooks \ removed : w \in prune.todo \/ prune.safe <= cursor[w]
    /\ projector # NoCursor => prune.safe <= projector

-----------------------------------------------------------------------------
\* For h, nothing has changed that KnownInv speaks of, or its request has ended.
Same(h) ==
  \/ pc'[h] = "idle"
  \/ /\ pc[h] # "idle" /\ req'[h].op = req[h].op /\ req'[h].hook = req[h].hook
     /\ Creating(h)' <=> Creating(h)
     /\ pc'[h] \in {"latest", "cursor"} => pc[h] \in {"latest", "cursor"}

LEMMA KnownFrame ==
  ASSUME KnownInv, UNCHANGED <<hooks, removed, created, dispatch>>, \A h \in Handlers : Same(h)
  PROVE  KnownInv'
<1>1. \A h \in Handlers : Creating(h)' => Creating(h) /\ req'[h].hook = req[h].hook
  BY Zenon DEF Same, Creating
<1>2. \A h \in Handlers : pc'[h] \in {"latest", "cursor"} => Creating(h)'
  BY Zenon DEF Same, KnownInv
<1> QED
  BY <1>1, <1>2, Zenon DEF KnownInv, Known, Serving, Same

\* Where requests stand is left alone by the workers' steps.
LEMMA WorkersKeepRequests ==
  ASSUME TypeOK,
         \/ RetentionTick \/ Prune \/ ProjectorTick \/ Project \/ WorkerFails
  PROVE  req' = req /\ \A h \in Handlers : pc'[h] = pc[h]
<1> USE DEF TypeOK, durable, locks, history
<1>1. CASE RetentionTick \/ PruneGate \/ PruneScan \/ PruneCursor \/ ProjectorTick
  BY <1>1, ZenonT(30) DEF RetentionTick, PruneGate, PruneScan, PruneCursor, ProjectorTick
<1>2. CASE Lock(Pruner) \/ Lock(Projector) \/ EnterGate(Projector)
  BY <1>2 DEF Lock, EnterGate
<1>3. CASE PruneApply
  <2>1. \E at \in {"gate", "idle"} : pc' = [pc EXCEPT ![Pruner] = at]
    BY <1>3, Zenon DEF PruneApply, EndPrune
  <2> QED
    BY <1>3, <2>1, Zenon DEF PruneApply
<1>4. CASE PruneNothing \/ ProjectEvents
  BY <1>4 DEF PruneNothing, ProjectEvents, EndPrune, EndProjection
<1>5. CASE WorkerFails
  BY <1>5, Zenon DEF WorkerFails, EndPrune, EndProjection
<1> QED
  BY <1>1, <1>2, <1>3, <1>4, <1>5, Zenon DEF Prune, Project

\* What the workers' steps leave alone.
LEMMA WorkersFrame ==
  ASSUME RetentionTick \/ Prune \/ ProjectorTick \/ Project \/ WorkerFails
  PROVE  UNCHANGED <<hooks, cursor, clock, rd, dispatch, scan, created, removed, latest>>
<1> USE DEF durable, locks, history
<1>1. CASE RetentionTick \/ PruneGate \/ PruneScan \/ PruneCursor \/ ProjectorTick
  BY <1>1, Zenon DEF RetentionTick, PruneGate, PruneScan, PruneCursor, ProjectorTick
<1>2. CASE Lock(Pruner) \/ Lock(Projector) \/ EnterGate(Projector)
  BY <1>2, Zenon DEF Lock, EnterGate
<1>3. CASE PruneApply \/ PruneNothing \/ ProjectEvents \/ WorkerFails
  BY <1>3, Zenon DEF PruneApply, PruneNothing, ProjectEvents, WorkerFails
<1> QED
  BY <1>1, <1>2, <1>3, Zenon DEF Prune, Project

\* Every step keeps new ids to their creators.
LEMMA KnownStep == TypeOK /\ KnownInv /\ [Next]_vars => KnownInv'
<1> SUFFICES ASSUME TypeOK, KnownInv, [Next]_vars PROVE KnownInv'
  BY Zenon
<1> USE DEF durable, locks, history
<1>a. DOMAIN pc = Tasks /\ DOMAIN req = Handlers /\ req \in [Handlers -> Request]
  BY Zenon DEF TypeOK
<1>1. ASSUME NEW h \in Handlers, BeginAppend(h) PROVE KnownInv'
  BY <1>a, <1>1, SMTT(30) DEF BeginAppend, Begin, KnownInv, Known, Creating, Serving
<1>2. ASSUME NEW h \in Handlers, CreateWebhook(h) PROVE KnownInv'
  BY <1>a, <1>2 DEF CreateWebhook, Begin, KnownInv, Known, Creating, Serving
<1>3. ASSUME NEW h \in Handlers, UpdateWebhook(h) \/ DeleteWebhook(h) PROVE KnownInv'
  BY <1>a, <1>3, SMTT(30) DEF UpdateWebhook, DeleteWebhook, Begin, KnownInv, Known, Creating, Serving
<1>4. ASSUME NEW h \in Handlers, EnterGate(h) \/ Lock(h) \/ StartCursor(h) PROVE KnownInv'
  <2>1. \A g \in Handlers : Same(g)
    BY <1>a, <1>4 DEF EnterGate, Lock, StartCursor, Same, Creating
  <2> QED
    BY <1>4, <2>1, KnownFrame, Zenon DEF EnterGate, Lock, StartCursor
<1>5. ASSUME NEW h \in Handlers, ReadLatest(h) PROVE KnownInv'
  <2>1. \A g \in Handlers : req'[g].op = req[g].op /\ req'[g].hook = req[g].hook
    BY <1>a, <1>5, SMTT(30) DEF ReadLatest, Request
  <2>2. \A g \in Handlers : Same(g)
    BY <1>a, <1>5, <2>1, Zenon DEF ReadLatest, Same, Creating
  <2> QED
    BY <1>5, <2>2, KnownFrame, Zenon DEF ReadLatest
<1>6. ASSUME NEW h \in Handlers, PutWebhook(h) PROVE KnownInv'
  <2>1. /\ pc[h] = "body" /\ pc' = [pc EXCEPT ![h] = "append"] /\ req' = req
        /\ hooks' = hooks \cup {req[h].hook} /\ req[h].op \in {"create", "update"}
        /\ UNCHANGED <<removed, created, dispatch>>
    BY <1>6, Zenon DEF PutWebhook
  <2>2. req[h].hook \in created
    BY <2>1, Zenon DEF KnownInv, Known
  <2>3. \A g \in Handlers : Creating(g)' <=> Creating(g) /\ g # h
    BY <1>a, <2>1, Zenon DEF Creating
  <2>4. \A g \in Handlers : Creating(g) /\ g # h => req[g].hook # req[h].hook
    BY <2>1, Zenon DEF KnownInv, Known, Creating
  <2> QED
    BY <1>a, <2>1, <2>2, <2>3, <2>4, Zenon DEF KnownInv, Known, Serving
<1>7. ASSUME NEW h \in Handlers, RemoveWebhook(h) PROVE KnownInv'
  <2>1. /\ pc[h] = "body" /\ pc' = [pc EXCEPT ![h] = "append"] /\ req' = req
        /\ hooks' = hooks \ {req[h].hook} /\ removed' = removed \cup {req[h].hook}
        /\ req[h].op = "remove" /\ UNCHANGED <<created, dispatch>>
    BY <1>7, Zenon DEF RemoveWebhook
  <2>2. req[h].hook \in Known
    BY <2>1, Zenon DEF KnownInv, Creating
  <2>3. Known' = Known
    BY <2>1, <2>2, Zenon DEF Known
  <2>4. \A g \in Handlers : Same(g)
    BY <1>a, <2>1, Zenon DEF Same, Creating
  <2>5. \A g \in Handlers : Creating(g)' => Creating(g) /\ req'[g].hook = req[g].hook
    BY <2>1, <2>4, Zenon DEF Same, Creating
  <2>6. \A g \in Handlers : pc'[g] # "idle" /\ req'[g].op # "append" =>
          IF Creating(g)' THEN req'[g].hook \in created' \ Known' ELSE req'[g].hook \in Known'
    BY <2>1, <2>3, <2>4, Zenon DEF KnownInv, Same
  <2>7. \A g \in Handlers : pc'[g] \in {"latest", "cursor"} => Creating(g)'
    BY <2>4, Zenon DEF Same, KnownInv
  <2> QED
    BY <2>1, <2>3, <2>5, <2>6, <2>7, Zenon DEF KnownInv, Serving
<1>b. ASSUME NEW h \in Handlers, EndRequest(h) PROVE \A g \in Handlers : Same(g)
  BY <1>a, <1>b, Zenon DEF EndRequest, Same, Creating
<1>8. ASSUME NEW h \in Handlers, CommitEvents(h) \/ DropRequest(h) PROVE KnownInv'
  BY <1>8, <1>b, KnownFrame, Zenon DEF CommitEvents, DropRequest
<1>9. ASSUME NEW h \in Handlers, PendingEvents(h) PROVE KnownInv'
  <2>1. CASE EndRequest(h)
    BY <1>9, <2>1, <1>b, KnownFrame, Zenon DEF PendingEvents
  <2>2. CASE /\ req' = [req EXCEPT ![h] = [@ EXCEPT !.seq = latest + 1, !.at = clock]]
             /\ pc' = [pc EXCEPT ![h] = "commit"]
    <3>1. \A g \in Handlers : req'[g].op = req[g].op /\ req'[g].hook = req[g].hook
      BY <1>a, <2>2 DEF Request
    <3>2. \A g \in Handlers : Same(g)
      BY <1>a, <1>9, <2>2, <3>1, Zenon DEF PendingEvents, Same, Creating
    <3> QED
      BY <1>9, <3>2, KnownFrame, Zenon DEF PendingEvents
  <2> QED
    BY <1>9, <2>1, <2>2, Zenon DEF PendingEvents
<1>10. CASE RetentionTick \/ Prune \/ ProjectorTick \/ Project \/ WorkerFails
  <2>1. \A h \in Handlers : Same(h)
    BY <1>10, WorkersKeepRequests, Zenon DEF Same, Creating
  <2> QED
    BY <1>10, <2>1, KnownFrame, WorkersFrame, Zenon
<1>11. CASE Dispatch
  <2>1. UNCHANGED <<removed, created, pc, req>>
    BY <1>11, Zenon DEF Dispatch, DispatchOnce, DispatchWebhook, DispatchDone, DispatchEvent,
                 DispatchRuntime, DispatchAdvance, DispatchAbort
  <2>2. hooks' = hooks \/ (Serving /\ hooks' = hooks \cup {dispatch.hook})
    BY <1>11, Zenon DEF Dispatch, DispatchOnce, DispatchWebhook, DispatchDone, DispatchEvent, Serving,
                 DispatchRuntime, DispatchAdvance, DispatchAbort
  <2>3. Known' = Known
    BY <2>1, <2>2 DEF Known, KnownInv
  <2>4. dispatch'.todo \subseteq Known /\ (Serving' => dispatch'.hook \in Known)
    <3>1. CASE DispatchOnce
      BY <3>1, SMTT(30) DEF DispatchOnce, Pass, Serving, Known
    <3>2. CASE DispatchWebhook
      BY <3>2, SMTT(30) DEF DispatchWebhook, Pass, Serving, KnownInv
    <3>3. CASE DispatchDone \/ DispatchAbort
      BY <3>3 DEF DispatchDone, DispatchAbort, EndPass, NoPass, Pass, Serving
    <3>4. CASE NextHook
      BY <3>4, Zenon DEF NextHook, Pass, Serving, KnownInv
    <3>5. ASSUME NEW at \in {"send", "advance"}, dispatch' = [dispatch EXCEPT !.at = at], Serving
          PROVE  dispatch'.todo \subseteq Known /\ (Serving' => dispatch'.hook \in Known)
      BY <3>5, Zenon DEF Serving, KnownInv, TypeOK
    <3> QED
      BY <1>11, <3>1, <3>2, <3>3, <3>4, <3>5, Zenon
         DEF Dispatch, DispatchEvent, DispatchRuntime, DispatchAdvance, Serving
  <2> QED
    BY <2>1, <2>3, <2>4, Zenon DEF KnownInv, Creating
<1>12. ASSUME NEW c \in Callers, ReadEvents(c) PROVE KnownInv'
  BY <1>12, SMTT(30) DEF ReadEvents, EventsMinimum, EventsLatest, EventsFetch, KnownInv, Known, Creating, Serving
<1>13. ASSUME NEW s \in Streams, Subscribe(s) \/ StreamPoll(s) \/ StreamBatch(s) \/ StreamClose(s)
       PROVE KnownInv'
  BY <1>13, SMTT(30) DEF Subscribe, StreamPoll, StreamBatch, StreamClose, KnownInv, Known, Creating, Serving
<1>14. CASE Tick \/ UNCHANGED vars
  BY <1>14, SMTT(30) DEF Tick, vars, KnownInv, Known, Creating, Serving
<1>15. CASE Crash
  BY <1>15, Zenon DEF Crash, NoPass, Pass, KnownInv, Known, Creating, Serving
<1> QED
  BY <1>1, <1>2, <1>3, <1>4, <1>5, <1>6, <1>7, <1>8, <1>9, <1>10, <1>11, <1>12, <1>13, <1>14,
     <1>15, Zenon DEF Next, Handle

-----------------------------------------------------------------------------
\* Only commits and prunes touch the log.
LEMMA LogEffect ==
  ASSUME [Next]_vars
  PROVE  \/ UNCHANGED <<latest, minimum, log>>
         \/ \E h \in Handlers : CommitEvents(h)
         \/ PruneApply
<1> USE DEF durable, locks, history
<1>1. ASSUME NEW h \in Handlers,
             BeginAppend(h) \/ CreateWebhook(h) \/ UpdateWebhook(h) \/ DeleteWebhook(h)
      PROVE UNCHANGED <<latest, minimum, log>>
  BY <1>1, Zenon DEF BeginAppend, CreateWebhook, UpdateWebhook, DeleteWebhook, Begin
<1>2. ASSUME NEW t, EnterGate(t) \/ Lock(t) PROVE UNCHANGED <<latest, minimum, log>>
  BY <1>2, Zenon DEF EnterGate, Lock
<1>3. ASSUME NEW h \in Handlers, Handle(h) \/ DropRequest(h)
      PROVE CommitEvents(h) \/ UNCHANGED <<latest, minimum, log>>
  BY <1>2, <1>3, Zenon DEF Handle, DropRequest, ReadLatest, StartCursor, PutWebhook, RemoveWebhook,
                    PendingEvents
<1>4. CASE RetentionTick \/ Prune \/ ProjectorTick \/ Project \/ WorkerFails
  BY <1>2, <1>4, Zenon DEF RetentionTick, Prune, PruneGate, PruneScan, PruneCursor, PruneNothing,
                    ProjectorTick, Project, ProjectEvents, WorkerFails
<1>5. CASE Dispatch
  BY <1>5, Zenon DEF Dispatch, DispatchOnce, DispatchWebhook, DispatchDone, DispatchEvent,
              DispatchRuntime, DispatchAdvance, DispatchAbort
<1>6. CASE \E c \in Callers : ReadEvents(c)
  BY <1>6, Zenon DEF ReadEvents, EventsMinimum, EventsLatest, EventsFetch
<1>7. CASE \E s \in Streams : Subscribe(s) \/ StreamPoll(s) \/ StreamBatch(s) \/ StreamClose(s)
  BY <1>7, Zenon DEF Subscribe, StreamPoll, StreamBatch, StreamClose
<1>8. CASE Tick \/ Crash \/ UNCHANGED vars
  BY <1>8, Zenon DEF Tick, Crash, vars
<1> QED
  BY <1>1, <1>3, <1>4, <1>5, <1>6, <1>7, <1>8, Zenon DEF Next

\* A commit numbers its events from the log's end.
LEMMA Committed ==
  ASSUME TypeOK, LogInv, NEW h \in Handlers, CommitEvents(h)
  PROVE  /\ latest' >= latest /\ latest' \in Nat /\ minimum' = minimum
         /\ DOMAIN log' = minimum..latest'
         /\ \A s \in DOMAIN log' : IF s <= latest THEN log'[s] = log[s] ELSE log'[s].at = req[h].at
<1>1. req[h].seq = latest + 1 /\ req[h].size > 0 /\ req[h].size \in Nat /\ latest \in Nat
  BY Zenon DEF CommitEvents, LogInv, PendingFollowsLog, TypeOK, Request
<1>2. minimum <= latest + 1 /\ minimum \in Nat /\ DOMAIN log = minimum..latest
  BY Zenon DEF LogInv, LogIsGapFree, TypeOK
<1> QED
  BY <1>1, <1>2, SMTT(30) DEF CommitEvents, QueueEvents

LEMMA LatestGrows == ASSUME TypeOK, LogInv, [Next]_vars PROVE latest <= latest'
<1>1. latest \in Nat
  BY Zenon DEF TypeOK
<1>2. PruneApply => latest' = latest
  BY Zenon DEF PruneApply
<1> QED
  BY <1>1, <1>2, LogEffect, Committed, SMTT(30)

\* Handlers and workers leave the consumers' locals alone.
LEMMA ConsumersFrame ==
  ASSUME \/ \E h \in Handlers :
              \/ BeginAppend(h) \/ CreateWebhook(h) \/ UpdateWebhook(h) \/ DeleteWebhook(h)
              \/ Handle(h) \/ DropRequest(h)
         \/ RetentionTick \/ Prune \/ ProjectorTick \/ Project \/ WorkerFails
         \/ Tick \/ UNCHANGED vars
  PROVE  UNCHANGED <<rd, dispatch, scan>>
<1> USE DEF durable, locks, history
<1>1. ASSUME NEW h \in Handlers,
             BeginAppend(h) \/ CreateWebhook(h) \/ UpdateWebhook(h) \/ DeleteWebhook(h)
      PROVE UNCHANGED <<rd, dispatch, scan>>
  BY <1>1, Zenon DEF BeginAppend, CreateWebhook, UpdateWebhook, DeleteWebhook, Begin
<1>2. ASSUME NEW h \in Handlers, Handle(h) \/ DropRequest(h) PROVE UNCHANGED <<rd, dispatch, scan>>
  BY <1>2, Zenon DEF Handle, DropRequest, EnterGate, Lock, ReadLatest, StartCursor, PutWebhook,
              RemoveWebhook, PendingEvents, CommitEvents
<1>3. CASE RetentionTick \/ Prune \/ ProjectorTick \/ Project \/ WorkerFails
  BY <1>3, WorkersFrame, Zenon
<1>4. CASE Tick \/ UNCHANGED vars
  BY <1>4, Zenon DEF Tick, vars
<1> QED
  BY <1>1, <1>2, <1>3, <1>4, Zenon

\* Every step keeps the reads and the streams within the log.
LEMMA ReadStep == TypeOK /\ LogInv /\ ReadInv /\ [Next]_vars => ReadInv'
<1> SUFFICES ASSUME TypeOK, LogInv, ReadInv, [Next]_vars PROVE ReadInv'
  BY Zenon
<1> USE DEF durable, locks, history
<1> DEFINE Good(r) == /\ r.end <= latest
                      /\ r.phase = "fetch" \/ r.out = "events" => r.after < r.end
                      /\ r.out # "none" => r.phase = "done"
<1>a. /\ latest \in Nat /\ latest' \in Nat /\ latest <= latest' /\ rd \in [Callers -> Read]
      /\ scan \in [Streams -> Nat \cup {Closed}]
      /\ Dispatcher \notin Streams
  BY LatestGrows, TypeStep, Zenon DEF TypeOK, LogInv
<1>b. \A c \in Callers : rd[c] \in Read /\ Good(rd[c])
  BY <1>a, Zenon DEF ReadInv
<1>c. Good(NoRead)
  BY <1>a DEF NoRead
<1>d. \A after \in Nat, limit \in Nat : Good(StartRead(after, limit))
  BY <1>a, SMTT(30) DEF StartRead
<1>1. CASE UNCHANGED <<rd, dispatch, scan>>
  BY <1>a, <1>1, SMTT(30) DEF ReadInv, Read, Closed
<1>2. ASSUME NEW c \in Callers, ReadEvents(c) PROVE ReadInv'
  <2>1. UNCHANGED <<latest, dispatch, scan>>
    BY <1>2, Zenon DEF ReadEvents, EventsMinimum, EventsLatest, EventsFetch
  <2>2. \A b \in Callers \ {c} : rd'[b] = rd[b]
    BY <1>2, <1>a, SMTT(30) DEF ReadEvents, EventsMinimum, EventsLatest, EventsFetch
  <2>3. Good(rd'[c])
    <3>1. CASE EventsMinimum(c)
      BY <3>1, <1>a, <1>b, SMTT(30) DEF EventsMinimum, Read
    <3>2. CASE EventsLatest(c)
      BY <3>2, <1>a, <1>b DEF EventsLatest, Read, AtMost
    <3>3. CASE EventsFetch(c)
      BY <3>3, <1>a, <1>b, SMTT(30) DEF EventsFetch, Read
    <3> QED
      BY <1>2, <3>1, <3>2, <3>3, Zenon DEF ReadEvents
  <2>4. rd[c].out = "none"
    BY <1>2, <1>b, Zenon DEF ReadEvents, EventsMinimum, EventsLatest, EventsFetch
  <2>5. dispatch.at \in {"send", "advance"} => c # Dispatcher
    BY <2>4, Zenon DEF ReadInv
  <2> QED
    BY <2>1, <2>2, <2>3, <2>5, SMTT(30) DEF ReadInv
<1>3. CASE Dispatch
  <2>1. UNCHANGED <<latest, scan>>
    BY <1>3, Zenon DEF Dispatch, DispatchOnce, DispatchWebhook, DispatchDone, DispatchEvent,
                DispatchRuntime, DispatchAdvance, DispatchAbort
  <2>2. CASE NextHook \/ EndPass
    <3>1. dispatch'.at \notin {"send", "advance"} /\ rd' = [rd EXCEPT ![Dispatcher] = NoRead]
      BY <2>2, SMTT(30) DEF NextHook, EndPass, NoPass, Pass
    <3> QED
      BY <1>a, <1>b, <1>c, <2>1, <3>1, Zenon DEF ReadInv
  <2>3. CASE DispatchOnce
    BY <1>b, <2>1, <2>3, SMTT(30) DEF DispatchOnce, Pass, ReadInv
  <2>4. CASE DispatchWebhook
    <3>1. PICK w \in dispatch.todo :
            /\ dispatch' = Pass("events", dispatch.todo \ {w}, w)
            /\ rd' = [rd EXCEPT ![Dispatcher] = StartRead(cursor[w], 1)]
      BY <2>4, Zenon DEF DispatchWebhook
    <3>2. dispatch'.at = "events" /\ cursor[w] \in Nat
      BY <3>1, Zenon DEF Pass, TypeOK
    <3> QED
      BY <1>a, <1>b, <1>d, <2>1, <3>1, <3>2, Zenon DEF ReadInv
  <2>5. CASE DispatchEvent /\ rd' = rd
    BY <1>b, <1>c, <2>1, <2>2, <2>5 DEF DispatchEvent, ReadInv, NextHook
  <2>6. CASE DispatchRuntime /\ rd' = rd
    BY <1>b, <1>c, <2>1, <2>2, <2>6, Zenon DEF DispatchRuntime, ReadInv, NextHook
  <2> QED
    BY <1>3, <2>2, <2>3, <2>4, <2>5, <2>6, Zenon
       DEF Dispatch, DispatchDone, DispatchEvent, DispatchRuntime, DispatchAdvance, DispatchAbort
<1>4. ASSUME NEW s \in Streams, Subscribe(s) PROVE ReadInv'
  BY <1>4, <1>a, <1>b, SMTT(30) DEF Subscribe, ReadInv
<1>5. ASSUME NEW s \in Streams, StreamPoll(s) PROVE ReadInv'
  <2>1. scan[s] \in Nat
    BY <1>5, <1>a, Zenon DEF StreamPoll
  <2> QED
    BY <1>5, <2>1, <1>a, <1>b, <1>d, SMTT(30) DEF StreamPoll, ReadInv
<1>6. ASSUME NEW s \in Streams, StreamBatch(s) \/ StreamClose(s) PROVE ReadInv'
  <2>1. scan'[s] <= latest /\ \A t \in Streams \ {s} : scan'[t] = scan[t]
    BY <1>6, <1>a, <1>b DEF StreamBatch, StreamClose, ReadInv
  <2>2. UNCHANGED <<latest, dispatch>> /\ rd' = [rd EXCEPT ![s] = NoRead]
    BY <1>6, Zenon DEF StreamBatch, StreamClose
  <2> QED
    BY <2>1, <2>2, <1>a, <1>b, <1>c, Zenon DEF ReadInv
<1>7. CASE Crash
  BY <1>7, <1>a, <1>c DEF Crash, ReadInv, NoPass, Pass
<1> QED
  BY <1>1, <1>2, <1>3, <1>4, <1>5, <1>6, <1>7, ConsumersFrame, Zenon DEF Next

-----------------------------------------------------------------------------
\* The unlocked consumers leave the requests and the workers alone.
LEMMA ConsumersKeep ==
  ASSUME \/ \E c \in Callers : ReadEvents(c)
         \/ Dispatch
         \/ \E s \in Streams : Subscribe(s) \/ StreamPoll(s) \/ StreamBatch(s) \/ StreamClose(s)
  PROVE  UNCHANGED <<latest, minimum, log, projector, clock, pc, req, prune, created, removed>>
<1> USE DEF durable, locks, history
<1>1. CASE \E c \in Callers : ReadEvents(c)
  BY <1>1, Zenon DEF ReadEvents, EventsMinimum, EventsLatest, EventsFetch
<1>2. CASE Dispatch
  BY <1>2, Zenon DEF Dispatch, DispatchOnce, DispatchWebhook, DispatchDone, DispatchEvent,
              DispatchRuntime, DispatchAdvance, DispatchAbort
<1>3. CASE \E s \in Streams : Subscribe(s) \/ StreamPoll(s) \/ StreamBatch(s) \/ StreamClose(s)
  BY <1>3, Zenon DEF Subscribe, StreamPoll, StreamBatch, StreamClose
<1> QED
  BY <1>1, <1>2, <1>3, Zenon

\* Every step keeps requests within their timeout and cutoffs as old as they must be.
LEMMA TimeStep == TypeOK /\ TimeInv /\ [Next]_vars => TimeInv'
<1> SUFFICES ASSUME TypeOK, TimeInv, [Next]_vars PROVE TimeInv'
  BY Zenon
<1> USE DEF durable, locks, history
<1>a. /\ clock \in Nat /\ DOMAIN pc = Tasks /\ DOMAIN req = Handlers
      /\ \A h \in Handlers : req[h] \in Request /\ req[h].deadline \in Nat /\ req[h].at \in Nat
      /\ prune \in [cutoff : Nat, safe : Nat, todo : SUBSET Webhooks]
      /\ Pruner \notin Handlers
  BY Zenon DEF TypeOK, Request
<1>1. ASSUME NEW h \in Handlers, NEW op, NEW w, NEW n, NEW at \in {"latest", "gate"},
             Begin(h, op, w, n, at)
      PROVE TimeInv'
  <2>1. /\ pc' = [pc EXCEPT ![h] = at] /\ UNCHANGED <<clock, prune>>
        /\ req'[h].deadline = clock + RequestTimeout
        /\ \A g \in Handlers \ {h} : req'[g] = req[g]
    BY <1>1, <1>a, Zenon DEF Begin
  <2> QED
    BY <2>1, <1>a, SMTT(30) DEF TimeInv
<1>2. ASSUME NEW h \in Handlers,
             BeginAppend(h) \/ CreateWebhook(h) \/ UpdateWebhook(h) \/ DeleteWebhook(h)
      PROVE TimeInv'
  BY <1>1, <1>2, Zenon DEF BeginAppend, CreateWebhook, UpdateWebhook, DeleteWebhook
<1>3. ASSUME NEW h \in Handlers,
             EnterGate(h) \/ Lock(h) \/ StartCursor(h) \/ PutWebhook(h) \/ RemoveWebhook(h)
      PROVE TimeInv'
  <2>1. /\ \E at \in {"gate", "lock", "body", "append"} : pc' = [pc EXCEPT ![h] = at]
        /\ pc[h] # "idle" /\ UNCHANGED <<clock, req, prune>>
    BY <1>3, Zenon DEF EnterGate, Lock, StartCursor, PutWebhook, RemoveWebhook
  <2> QED
    BY <2>1, <1>a, Zenon DEF TimeInv
<1>4. ASSUME NEW h \in Handlers, ReadLatest(h) PROVE TimeInv'
  <2>1. \A g \in Handlers : req'[g].deadline = req[g].deadline /\ req'[g].at = req[g].at
    BY <1>4, <1>a, SMTT(30) DEF ReadLatest, Request
  <2> QED
    BY <1>4, <2>1, <1>a, Zenon DEF ReadLatest, TimeInv
<1>b. ASSUME NEW h \in Handlers, EndRequest(h), UNCHANGED <<clock, prune>> PROVE TimeInv'
  BY <1>b, <1>a, Zenon DEF EndRequest, TimeInv
<1>5. ASSUME NEW h \in Handlers, CommitEvents(h) \/ DropRequest(h) PROVE TimeInv'
  BY <1>5, <1>b, Zenon DEF CommitEvents, DropRequest
<1>6. ASSUME NEW h \in Handlers, PendingEvents(h) PROVE TimeInv'
  <2>1. CASE EndRequest(h)
    BY <1>6, <1>b, <2>1, Zenon DEF PendingEvents
  <2>2. CASE /\ req' = [req EXCEPT ![h] = [@ EXCEPT !.seq = latest + 1, !.at = clock]]
             /\ pc' = [pc EXCEPT ![h] = "commit"]
    <3>1. /\ req'[h].deadline = req[h].deadline /\ req'[h].at = clock
          /\ \A g \in Handlers \ {h} : req'[g] = req[g]
      BY <2>2, <1>a DEF Request
    <3>2. pc[h] # "idle" /\ UNCHANGED <<clock, prune>>
      BY <1>6, Zenon DEF PendingEvents
    <3> QED
      BY <2>2, <3>1, <3>2, <1>a DEF TimeInv
  <2> QED
    BY <1>6, <2>1, <2>2, Zenon DEF PendingEvents
<1>7. CASE RetentionTick \/ Prune \/ ProjectorTick \/ Project \/ WorkerFails
  <2>1. /\ req' = req /\ clock' = clock /\ \A h \in Handlers : pc'[h] = pc[h]
    BY <1>7, WorkersKeepRequests, WorkersFrame, Zenon
  <2>2. pc'[Pruner] # "idle" => prune'.cutoff = 0 \/ prune'.cutoff + Retention <= clock
    <3>1. CASE RetentionTick
      BY <3>1, <1>a, SMTT(30) DEF RetentionTick
    <3>2. CASE PruneGate \/ Lock(Pruner)
      BY <3>2, <1>a, Zenon DEF PruneGate, Lock, TimeInv
    <3>3. CASE PruneScan \/ PruneCursor
      <4>1. prune'.cutoff = prune.cutoff /\ pc[Pruner] # "idle"
        BY <3>3, <1>a, Zenon DEF PruneScan, PruneCursor
      <4> QED
        BY <4>1, Zenon DEF TimeInv
    <3>4. CASE PruneApply
      <4>1. prune' = prune \/ EndPrune
        BY <3>4, Zenon DEF PruneApply
      <4>2. pc[Pruner] # "idle"
        BY <3>4, Zenon DEF PruneApply
      <4> QED
        BY <4>1, <4>2, <1>a, Zenon DEF TimeInv, EndPrune
    <3>5. CASE PruneNothing \/ WorkerFails
      BY <3>5, <1>a, Zenon DEF PruneNothing, WorkerFails, EndPrune, EndProjection, TimeInv
    <3>6. CASE ProjectorTick \/ Project
      BY <3>6, <1>a, Zenon DEF ProjectorTick, Project, EnterGate, Lock, ProjectEvents, EndProjection, TimeInv
    <3> QED
      BY <1>7, <3>1, <3>2, <3>3, <3>4, <3>5, <3>6, Zenon DEF Prune
  <2> QED
    BY <2>1, <2>2, Zenon DEF TimeInv
<1>8. CASE \/ \E c \in Callers : ReadEvents(c)
           \/ Dispatch
           \/ \E s \in Streams : Subscribe(s) \/ StreamPoll(s) \/ StreamBatch(s) \/ StreamClose(s)
  BY <1>8, ConsumersKeep, Zenon DEF TimeInv
<1>9. CASE Tick
  BY <1>9, <1>a, SMTT(30) DEF Tick, TimeInv
<1>10. CASE Crash \/ UNCHANGED vars
  BY <1>10, Zenon DEF Crash, vars, TimeInv
<1> QED
  BY <1>2, <1>3, <1>4, <1>5, <1>6, <1>7, <1>8, <1>9, <1>10, Zenon DEF Next, Handle

-----------------------------------------------------------------------------
\* A prune deletes a prefix that is old, that every consumer it looked at has read, and
\* that ends within the log.
LEMMA Pruned ==
  ASSUME TypeOK, LogInv, PruneApply
  PROVE  /\ pc[Pruner] = "cursors" /\ prune.todo = {} /\ latest' = latest
         /\ UNCHANGED <<hooks, cursor, projector, clock, req, rd, dispatch, scan, removed, created>>
         /\ \E last \in minimum..latest :
              /\ minimum' = last + 1 /\ last <= prune.safe
              /\ \A q \in minimum..last : log[q].at < prune.cutoff
              /\ log' = [s \in DOMAIN log \ (minimum..last) |-> log[s]]
<1>1. PICK last \in minimum..PruneEnd :
        /\ Prunable(last) /\ minimum' = last + 1
        /\ log' = [s \in DOMAIN log \ (minimum..last) |-> log[s]]
  BY Zenon DEF PruneApply
<1>2. last <= latest
  BY <1>1, PrunedWithinLog, Zenon DEF PruneApply
<1>3. last <= prune.safe /\ last \in minimum..latest
  BY <1>2, SMTT(30) DEF PruneEnd, AtMost, TypeOK
<1>4. \A q \in minimum..last : log[q].at < prune.cutoff
  BY <1>1, Zenon DEF Prunable
<1>5. /\ pc[Pruner] = "cursors" /\ prune.todo = {} /\ latest' = latest
      /\ UNCHANGED <<hooks, cursor, projector, clock, req, rd, dispatch, scan, removed, created>>
  BY Zenon DEF PruneApply, history
<1> QED
  BY <1>1, <1>3, <1>4, <1>5, Zenon

\* Only these steps touch the destinations' records and cursors.
LEMMA DestinationEffect ==
  ASSUME [Next]_vars
  PROVE  \/ UNCHANGED <<hooks, cursor, removed>>
         \/ \E h \in Handlers : StartCursor(h) \/ PutWebhook(h) \/ RemoveWebhook(h)
         \/ DispatchRuntime \/ DispatchAdvance
<1> USE DEF durable, locks, history
<1>1. ASSUME NEW h \in Handlers,
             BeginAppend(h) \/ CreateWebhook(h) \/ UpdateWebhook(h) \/ DeleteWebhook(h)
      PROVE UNCHANGED <<hooks, cursor, removed>>
  BY <1>1, Zenon DEF BeginAppend, CreateWebhook, UpdateWebhook, DeleteWebhook, Begin
<1>2. ASSUME NEW h \in Handlers, Handle(h) \/ DropRequest(h)
      PROVE \/ UNCHANGED <<hooks, cursor, removed>>
            \/ StartCursor(h) \/ PutWebhook(h) \/ RemoveWebhook(h)
  BY <1>2, Zenon DEF Handle, DropRequest, EnterGate, Lock, ReadLatest, PendingEvents, CommitEvents
<1>3. CASE RetentionTick \/ Prune \/ ProjectorTick \/ Project \/ WorkerFails
  BY <1>3, WorkersFrame, Zenon
<1>4. CASE Dispatch
  BY <1>4, Zenon DEF Dispatch, DispatchOnce, DispatchWebhook, DispatchDone, DispatchEvent, DispatchAbort
<1>5. CASE \E c \in Callers : ReadEvents(c)
  BY <1>5, Zenon DEF ReadEvents, EventsMinimum, EventsLatest, EventsFetch
<1>6. CASE \E s \in Streams : Subscribe(s) \/ StreamPoll(s) \/ StreamBatch(s) \/ StreamClose(s)
  BY <1>6, Zenon DEF Subscribe, StreamPoll, StreamBatch, StreamClose
<1>7. CASE Tick \/ Crash \/ UNCHANGED vars
  BY <1>7, Zenon DEF Tick, Crash, vars
<1> QED
  BY <1>1, <1>2, <1>3, <1>4, <1>5, <1>6, <1>7, Zenon DEF Next

\* Only the projector touches its cursor.
LEMMA ProjectorEffect ==
  ASSUME [Next]_vars
  PROVE  ProjectEvents \/ projector' = projector
<1> USE DEF durable, locks, history
<1>1. ASSUME NEW h \in Handlers,
             BeginAppend(h) \/ CreateWebhook(h) \/ UpdateWebhook(h) \/ DeleteWebhook(h)
      PROVE projector' = projector
  BY <1>1, Zenon DEF BeginAppend, CreateWebhook, UpdateWebhook, DeleteWebhook, Begin
<1>2. ASSUME NEW h \in Handlers, Handle(h) \/ DropRequest(h) PROVE projector' = projector
  BY <1>2, Zenon DEF Handle, DropRequest, EnterGate, Lock, ReadLatest, StartCursor, PutWebhook,
              RemoveWebhook, PendingEvents, CommitEvents
<1>3. CASE RetentionTick \/ Prune \/ WorkerFails \/ ProjectorTick \/ Project
  BY <1>3, Zenon DEF RetentionTick, Prune, PruneGate, Lock, PruneScan, PruneCursor, PruneApply,
              PruneNothing, WorkerFails, ProjectorTick, Project, EnterGate
<1>4. CASE \/ \E c \in Callers : ReadEvents(c)
           \/ Dispatch
           \/ \E s \in Streams : Subscribe(s) \/ StreamPoll(s) \/ StreamBatch(s) \/ StreamClose(s)
  BY <1>4, ConsumersKeep, Zenon
<1>5. CASE Tick \/ Crash \/ UNCHANGED vars
  BY <1>5, Zenon DEF Tick, Crash, vars
<1> QED
  BY <1>1, <1>2, <1>3, <1>4, <1>5, Zenon DEF Next

\* A request is creating a destination because it was, with the same locals, or because
\* it has just read the log's end.
LEMMA CreationCases ==
  ASSUME TypeOK, [Next]_vars, NEW h \in Handlers, Creating(h)', pc'[h] # "latest"
  PROVE  \/ ReadLatest(h)
         \/ StartCursor(h) /\ Creating(h) /\ req' = req
         \/ /\ Creating(h) /\ pc[h] # "latest" /\ req'[h] = req[h]
            /\ pc'[h] # "cursor" => pc[h] # "cursor"
<1> USE DEF durable, locks, history
<1>a. DOMAIN pc = Tasks /\ DOMAIN req = Handlers
  BY Zenon DEF TypeOK
<1>1. ASSUME NEW g \in Handlers, \/ BeginAppend(g) \/ CreateWebhook(g) \/ UpdateWebhook(g)
                                 \/ DeleteWebhook(g)
      PROVE g # h /\ pc'[h] = pc[h] /\ req'[h] = req[h]
  BY <1>1, <1>a, SMTT(30) DEF BeginAppend, CreateWebhook, UpdateWebhook, DeleteWebhook, Begin, Creating
<1>2. ASSUME NEW g \in Handlers, Handle(g) \/ DropRequest(g), g # h
      PROVE pc'[h] = pc[h] /\ req'[h] = req[h]
  BY <1>2, <1>a, Zenon DEF Handle, DropRequest, EnterGate, Lock, ReadLatest, StartCursor, PutWebhook,
                    RemoveWebhook, PendingEvents, CommitEvents, EndRequest
<1>3. CASE EnterGate(h) \/ Lock(h)
  BY <1>3, <1>a, Zenon DEF EnterGate, Lock, Creating
<1>4. CASE StartCursor(h)
  BY <1>4, <1>a, Zenon DEF StartCursor, Creating
<1>5. ASSUME PutWebhook(h) \/ RemoveWebhook(h) \/ PendingEvents(h) \/ CommitEvents(h) \/ DropRequest(h)
      PROVE FALSE
  BY <1>5, <1>a, Zenon DEF PutWebhook, RemoveWebhook, PendingEvents, CommitEvents, DropRequest,
                    EndRequest, Creating
<1>6. CASE RetentionTick \/ Prune \/ ProjectorTick \/ Project \/ WorkerFails
  BY <1>6, WorkersKeepRequests, Zenon DEF Creating
<1>7. CASE \/ \E c \in Callers : ReadEvents(c)
           \/ Dispatch
           \/ \E s \in Streams : Subscribe(s) \/ StreamPoll(s) \/ StreamBatch(s) \/ StreamClose(s)
  BY <1>7, ConsumersKeep, Zenon DEF Creating
<1>8. CASE Tick \/ UNCHANGED vars
  BY <1>8, Zenon DEF Tick, vars, Creating
<1>9. ~ Crash
  BY Zenon DEF Crash, Creating
<1> QED
  BY <1>1, <1>2, <1>3, <1>4, <1>5, <1>6, <1>7, <1>8, <1>9, Zenon DEF Next, Handle, Creating

\* Every step keeps the cursor of a destination in creation ahead of what may be pruned.
LEMMA CreationStep ==
  TypeOK /\ LogInv /\ KnownInv /\ TimeInv /\ CreationInv /\ [Next]_vars => CreationInv'
<1> SUFFICES ASSUME TypeOK, LogInv, KnownInv, TimeInv, CreationInv, [Next]_vars,
                    NEW h \in Handlers, Creating(h)', pc'[h] # "latest"
             PROVE  /\ minimum' <= req'[h].seq + 1 /\ req'[h].seq <= latest'
                    /\ \A s \in DOMAIN log' : s > req'[h].seq =>
                         req'[h].deadline <= log'[s].at + 2 * RequestTimeout
                    /\ pc'[h] # "cursor" => cursor'[req'[h].hook] = req'[h].seq
  BY Zenon DEF CreationInv
<1>a. /\ latest \in Nat /\ minimum \in Nat /\ clock \in Nat /\ DOMAIN pc = Tasks
      /\ req \in [Handlers -> Request] /\ cursor \in [Webhooks -> Nat]
      /\ DOMAIN log = minimum..latest /\ log \in [DOMAIN log -> Event]
      /\ minimum <= latest + 1 /\ Retention >= 2 * RequestTimeout
  BY RetentionOutlivesRequests, Zenon DEF TypeOK, LogInv, LogIsGapFree
<1>b. \A g \in Handlers : /\ req[g].seq \in Nat /\ req[g].deadline \in Nat /\ req[g].at \in Nat
                          /\ req[g].op # "append" => req[g].hook \in Webhooks
  BY Zenon DEF TypeOK, Request
<1>c. \A s \in DOMAIN log : log[s].at \in Nat
  BY <1>a, Zenon DEF Event
<1>d. RequestTimeout \in Nat /\ Retention \in Nat /\ Retention >= 2 * RequestTimeout
  BY RetentionOutlivesRequests, Zenon
<1>e. latest \in Nat /\ minimum \in Nat /\ clock \in Nat /\ minimum <= latest + 1
  BY <1>a, Zenon
<1>f. req[h].deadline \in Nat /\ req[h].seq \in Nat
  BY <1>b, Zenon
<1>1. CASE ReadLatest(h)
  <2>1. /\ req'[h].seq = latest /\ pc'[h] = "cursor" /\ UNCHANGED <<latest, minimum, log>>
    BY <1>1, <1>a, SMTT(30) DEF ReadLatest, Request, durable
  <2> QED
    BY <2>1, <1>a, SMTT(30)
<1>2. ASSUME Creating(h), pc[h] # "latest", req'[h] = req[h]
      PROVE  /\ minimum' <= req[h].seq + 1 /\ req[h].seq <= latest'
             /\ \A s \in DOMAIN log' : s > req[h].seq =>
                  req[h].deadline <= log'[s].at + 2 * RequestTimeout
  <2>a. /\ minimum <= req[h].seq + 1 /\ req[h].seq <= latest
        /\ \A s \in DOMAIN log : s > req[h].seq =>
             req[h].deadline <= log[s].at + 2 * RequestTimeout
    BY <1>2, Zenon DEF CreationInv
  <2>b. clock <= req[h].deadline /\ req[h].deadline <= clock + RequestTimeout
    BY <1>2, Zenon DEF TimeInv, Creating
  <2>1. CASE UNCHANGED <<latest, minimum, log>>
    BY <2>1, <2>a, Zenon
  <2>2. ASSUME NEW g \in Handlers, CommitEvents(g)
        PROVE  /\ minimum' <= req[h].seq + 1 /\ req[h].seq <= latest'
               /\ \A s \in DOMAIN log' : s > req[h].seq =>
                    req[h].deadline <= log'[s].at + 2 * RequestTimeout
    <3>1. clock <= req[g].deadline /\ req[g].deadline <= req[g].at + RequestTimeout
      BY <2>2, Zenon DEF CommitEvents, TimeInv
    <3>2. /\ latest' >= latest /\ latest' \in Nat /\ minimum' = minimum
          /\ DOMAIN log' = minimum..latest'
          /\ \A s \in DOMAIN log' : IF s <= latest THEN log'[s] = log[s]
                                    ELSE log'[s].at = req[g].at
      BY <2>2, Committed, Zenon
    <3>3. req[h].deadline <= req[g].at + 2 * RequestTimeout
      <4>1. req[g].deadline \in Nat /\ req[g].at \in Nat
        BY <1>b, Zenon
      <4> QED
        BY <1>d, <1>e, <1>f, <2>b, <3>1, <4>1, SMTT(30)
    <3>4. minimum' <= req[h].seq + 1 /\ req[h].seq <= latest'
      BY <1>e, <1>f, <2>a, <3>2
    <3>5. ASSUME NEW s \in DOMAIN log', s > req[h].seq
          PROVE  req[h].deadline <= log'[s].at + 2 * RequestTimeout
      <4>1. CASE s <= latest
        <5>1. s \in DOMAIN log /\ log'[s] = log[s]
          BY <1>a, <3>2, <4>1, SMTT(30)
        <5> QED
          BY <5>1, <2>a, <3>5, Zenon
      <4>2. CASE ~ (s <= latest)
        BY <3>2, <3>3, <4>2, Zenon
      <4> QED
        BY <4>1, <4>2, Zenon
    <3> QED
      BY <3>4, <3>5, Zenon
  <2>3. CASE PruneApply
    <3>1. /\ latest' = latest /\ pc[Pruner] = "cursors"
      BY <2>3, Pruned, Zenon
    <3>2. PICK last \in minimum..latest :
            /\ minimum' = last + 1
            /\ \A q \in minimum..last : log[q].at < prune.cutoff
            /\ log' = [s \in DOMAIN log \ (minimum..last) |-> log[s]]
      BY <2>3, Pruned, Zenon
    <3>3. last <= req[h].seq
      <4> SUFFICES ASSUME last > req[h].seq PROVE FALSE
        BY <1>a, <1>b, SMTT(30)
      <4>1. log[last].at < prune.cutoff /\ log[last].at \in Nat /\ prune.cutoff \in Nat
        <5>1. last \in minimum..last /\ last \in DOMAIN log
          BY <1>a, <1>e, SMTT(30)
        <5>2. prune.cutoff \in Nat
          BY Zenon DEF TypeOK
        <5> QED
          BY <1>c, <3>2, <5>1, <5>2, Zenon
      <4>2. req[h].deadline <= log[last].at + 2 * RequestTimeout
        BY <1>a, <2>a, <3>2, Zenon
      <4>3. prune.cutoff + Retention <= clock
        BY <3>1, <4>1, SMTT(30) DEF TimeInv
      <4> QED
        BY <1>d, <1>e, <1>f, <2>b, <4>1, <4>2, <4>3, SMTT(30)
    <3>4. \A s \in DOMAIN log' : s \in DOMAIN log /\ log'[s] = log[s]
      BY <3>2, Zenon
    <3> QED
      BY <1>e, <1>f, <2>a, <3>1, <3>2, <3>3, <3>4, SMTT(30)
  <2> QED
    BY <2>1, <2>2, <2>3, LogEffect, Zenon
<1>3. CASE StartCursor(h) /\ Creating(h) /\ req' = req
  <2>1. cursor'[req[h].hook] = req[h].seq /\ pc[h] # "latest"
    BY <1>3, <1>a, <1>b, Zenon DEF StartCursor, Creating
  <2> QED
    BY <1>2, <1>3, <2>1, Zenon
<1>4. CASE /\ Creating(h) /\ pc[h] # "latest" /\ req'[h] = req[h]
           /\ pc'[h] # "cursor" => pc[h] # "cursor"
           /\ ~ StartCursor(h)
  <2> SUFFICES ASSUME pc[h] # "cursor" PROVE cursor'[req[h].hook] = cursor[req[h].hook]
    BY <1>2, <1>4, Zenon DEF CreationInv
  <2>1. req[h].hook \in created \ Known /\ req[h].hook \in Webhooks
    BY <1>4, <1>b, Zenon DEF KnownInv, Creating
  <2>2. ASSUME NEW g \in Handlers, StartCursor(g) PROVE cursor'[req[h].hook] = cursor[req[h].hook]
    <3>1. Creating(g) /\ g # h
      BY <1>4, <2>2, Zenon DEF StartCursor, KnownInv
    <3>2. req[g].hook # req[h].hook
      BY <1>4, <3>1, Zenon DEF KnownInv
    <3> QED
      BY <1>a, <2>2, <3>2 DEF StartCursor
  <2>3. ASSUME NEW g \in Handlers, RemoveWebhook(g) PROVE cursor'[req[h].hook] = cursor[req[h].hook]
    <3>1. req[g].hook \in Known
      BY <2>3, Zenon DEF RemoveWebhook, KnownInv, Creating
    <3> QED
      BY <1>a, <2>1, <2>3, <3>1, Zenon DEF RemoveWebhook
  <2>4. ASSUME NEW g \in Handlers, PutWebhook(g) PROVE cursor' = cursor
    BY <2>4, Zenon DEF PutWebhook
  <2>5. CASE DispatchRuntime
    BY <2>5, Zenon DEF DispatchRuntime
  <2>6. CASE DispatchAdvance
    <3>1. dispatch.hook \in Known
      BY <2>6, Zenon DEF DispatchAdvance, KnownInv, Serving
    <3> QED
      BY <1>a, <2>1, <2>6, <3>1, Zenon DEF DispatchAdvance
  <2> QED
    BY <2>2, <2>3, <2>4, <2>5, <2>6, DestinationEffect, Zenon
<1>5. CASE StartCursor(h) /\ ~ (Creating(h) /\ req' = req)
  BY <1>5, Zenon DEF StartCursor, KnownInv
<1> QED
  BY <1>1, <1>3, <1>4, <1>5, CreationCases, Zenon

-----------------------------------------------------------------------------
\* What a step does to the cursor of a destination that is not removed: nothing, or the
\* dispatcher moves it over the event it has read, or the destination is new and keeps the
\* cursor its creation set.
LEMMA CursorMoves ==
  ASSUME TypeOK, KnownInv, ReadInv, CursorInv, [Next]_vars,
         NEW w \in hooks \cup hooks', w \notin removed'
  PROVE  \/ w \in hooks \ removed /\ cursor'[w] = cursor[w]
         \/ /\ w \in hooks \ removed /\ DispatchAdvance /\ cursor'[w] = cursor[w] + 1
            /\ cursor[w] + 1 <= latest
         \/ \E h \in Handlers : /\ PutWebhook(h) /\ Creating(h) /\ pc[h] = "body"
                                /\ req[h].hook = w /\ cursor'[w] = cursor[w] /\ w \notin Known
<1> USE DEF durable, locks, history
<1>a. cursor \in [Webhooks -> Nat] /\ hooks \subseteq Webhooks /\ latest \in Nat
  BY Zenon DEF TypeOK
<1>1. CASE UNCHANGED <<hooks, cursor, removed>>
  BY <1>1, Zenon
<1>2. ASSUME NEW h \in Handlers, StartCursor(h) PROVE w \in hooks \ removed /\ cursor'[w] = cursor[w]
  <2>1. req[h].hook \notin Known /\ UNCHANGED <<hooks, removed>>
    BY <1>2, Zenon DEF StartCursor, KnownInv, Creating
  <2> QED
    BY <1>2, <1>a, <2>1, Zenon DEF StartCursor, Known
<1>3. ASSUME NEW h \in Handlers, PutWebhook(h)
      PROVE  \/ w \in hooks \ removed /\ cursor'[w] = cursor[w]
             \/ /\ PutWebhook(h) /\ Creating(h) /\ pc[h] = "body"
                /\ req[h].hook = w /\ cursor'[w] = cursor[w] /\ w \notin Known
  <2>1. /\ hooks' = hooks \cup {req[h].hook} /\ UNCHANGED <<cursor, removed>> /\ pc[h] = "body"
        /\ req[h].op \in {"create", "update"}
    BY <1>3, Zenon DEF PutWebhook
  <2>2. CASE req[h].hook \in Known
    BY <2>1, <2>2, Zenon DEF Known
  <2>3. CASE req[h].hook \notin Known
    <3>1. Creating(h)
      BY <2>1, <2>3, Zenon DEF KnownInv
    <3> QED
      BY <1>3, <2>1, <2>3, <3>1, Zenon
  <2> QED
    BY <2>2, <2>3, Zenon
<1>4. ASSUME NEW h \in Handlers, RemoveWebhook(h) PROVE w \in hooks \ removed /\ cursor'[w] = cursor[w]
  BY <1>4, <1>a, Zenon DEF RemoveWebhook
<1>5. CASE DispatchRuntime
  <2>1. /\ hooks' = hooks \cup {dispatch.hook} /\ dispatch.hook \in Known
        /\ UNCHANGED <<cursor, removed>>
    BY <1>5, Zenon DEF DispatchRuntime, KnownInv, Serving
  <2> QED
    BY <2>1, Zenon DEF Known
<1>6. CASE DispatchAdvance
  <2>1. /\ cursor' = [cursor EXCEPT ![dispatch.hook] = rd[Dispatcher].after + 1]
        /\ dispatch.at = "advance" /\ UNCHANGED <<hooks, removed>>
    BY <1>6, Zenon DEF DispatchAdvance
  <2>2. CASE w = dispatch.hook
    <3>1. rd[Dispatcher].after = cursor[w]
      BY <2>1, <2>2, Zenon DEF CursorInv, Serving
    <3>2. rd[Dispatcher].after < rd[Dispatcher].end /\ rd[Dispatcher].end <= latest
      BY <2>1, Zenon DEF ReadInv
    <3>3. rd[Dispatcher].end \in Nat /\ cursor[w] \in Nat /\ w \in hooks \ removed
      BY <2>1, <1>a, Zenon DEF TypeOK, Read
    <3>4. cursor[w] + 1 <= latest
      BY <1>a, <3>1, <3>2, <3>3, SMTT(30)
    <3> QED
      BY <1>6, <1>a, <2>1, <2>2, <3>1, <3>3, <3>4, Zenon
  <2>3. CASE w # dispatch.hook
    BY <1>a, <2>1, <2>3, Zenon
  <2> QED
    BY <2>2, <2>3, Zenon
<1> QED
  BY <1>1, <1>2, <1>3, <1>4, <1>5, <1>6, DestinationEffect, Zenon

\* A creation whose record is about to be put.
LEMMA CreatedCursor ==
  ASSUME CreationInv, NEW h \in Handlers, Creating(h), pc[h] = "body", PutWebhook(h)
  PROVE  /\ cursor[req[h].hook] = req[h].seq /\ req[h].seq <= latest
         /\ minimum <= req[h].seq + 1
BY Zenon DEF CreationInv

\* Retention never passes a consumer.
LEMMA RetentionStep ==
  /\ TypeOK /\ LogInv /\ KnownInv /\ ReadInv /\ CreationInv /\ CursorInv /\ PruneInv
  /\ RetentionKeepsUnread /\ [Next]_vars
  => RetentionKeepsUnread'
<1> SUFFICES ASSUME TypeOK, LogInv, KnownInv, ReadInv, CreationInv, CursorInv, PruneInv,
                    RetentionKeepsUnread, [Next]_vars
             PROVE  RetentionKeepsUnread'
  BY Zenon
<1>a. /\ minimum \in Nat /\ latest \in Nat /\ cursor \in [Webhooks -> Nat]
      /\ hooks \subseteq Webhooks /\ projector \in Nat \cup {NoCursor}
  BY Zenon DEF TypeOK
<1>1. ASSUME NEW w \in hooks' \ removed' PROVE minimum' <= cursor'[w] + 1
  <2>1. CASE PruneApply
    <3>1. /\ pc[Pruner] = "cursors" /\ prune.todo = {} /\ UNCHANGED <<hooks, cursor, removed>>
      BY <2>1, Pruned, Zenon
    <3>2. PICK last \in minimum..latest : minimum' = last + 1 /\ last <= prune.safe
      BY <2>1, Pruned, Zenon
    <3>3. prune.safe <= cursor[w] /\ prune.safe \in Nat /\ cursor[w] \in Nat
      BY <1>1, <1>a, <3>1, Zenon DEF PruneInv, TypeOK
    <3> QED
      BY <1>a, <3>1, <3>2, <3>3, SMTT(30)
  <2>2. CASE minimum' = minimum
    <3>1. w \in hooks \ removed => minimum <= cursor[w] + 1 /\ cursor[w] \in Nat
      BY <1>a, Zenon DEF RetentionKeepsUnread
    <3>2. ASSUME NEW h \in Handlers, PutWebhook(h), Creating(h), pc[h] = "body", req[h].hook = w,
                 cursor'[w] = cursor[w]
          PROVE  minimum <= cursor'[w] + 1
      BY <3>2, CreatedCursor, Zenon
    <3>3. \/ w \in hooks \ removed /\ cursor'[w] \in {cursor[w], cursor[w] + 1}
          \/ minimum <= cursor'[w] + 1
      BY <1>1, <3>2, CursorMoves, Zenon
    <3> QED
      BY <1>a, <2>2, <3>1, <3>3
  <2>3. (\E h \in Handlers : CommitEvents(h)) => minimum' = minimum
    BY Committed, Zenon
  <2> QED
    BY <2>1, <2>2, <2>3, LogEffect, Zenon
<1>2. projector' # NoCursor => minimum' <= projector' + 1
  <2>1. CASE PruneApply
    <3>1. pc[Pruner] = "cursors" /\ UNCHANGED projector
      BY <2>1, Pruned, Zenon
    <3>2. PICK last \in minimum..latest : minimum' = last + 1 /\ last <= prune.safe
      BY <2>1, Pruned, Zenon
    <3>3. projector # NoCursor => prune.safe <= projector /\ prune.safe \in Nat
      BY <3>1, Zenon DEF PruneInv, TypeOK
    <3> QED
      BY <1>a, <3>1, <3>2, <3>3, SMTT(30)
  <2>2. CASE ProjectEvents
    <3> DEFINE after == IF projector = NoCursor THEN minimum - 1 ELSE projector
               end   == AtMost(latest, after + ProjectionLimit)
    <3>1. /\ minimum' = minimum
          /\ projector' \in {projector, end, after} /\ (projector' = end => projector' >= after)
      BY <2>2, <1>a, SMTT(30) DEF ProjectEvents, AtMost
    <3> QED
      BY <2>2, <1>a, <3>1, SMTT(30) DEF ProjectEvents, RetentionKeepsUnread, AtMost
  <2>3. CASE minimum' = minimum /\ projector' = projector
    BY <2>3, Zenon DEF RetentionKeepsUnread
  <2>4. (\E h \in Handlers : CommitEvents(h)) => minimum' = minimum
    BY Committed, Zenon
  <2>5. ProjectEvents \/ projector' = projector
    BY ProjectorEffect, Zenon
  <2> QED
    BY <2>1, <2>2, <2>3, <2>4, <2>5, LogEffect, Zenon
<1> QED
  BY <1>1, <1>2, Zenon DEF RetentionKeepsUnread

\* A removal is never undone in the history.
LEMMA RemovedGrows == ASSUME [Next]_vars PROVE removed \subseteq removed'
BY DestinationEffect, Zenon DEF StartCursor, PutWebhook, RemoveWebhook, DispatchRuntime, DispatchAdvance,
                         history

\* The dispatcher goes on working from the stored cursor and is not refused.
LEMMA CursorStep ==
  /\ TypeOK /\ LogInv /\ KnownInv /\ ReadInv /\ CreationInv /\ CursorInv
  /\ RetentionKeepsUnread /\ [Next]_vars
  => CursorInv'
<1> SUFFICES ASSUME TypeOK, LogInv, KnownInv, ReadInv, CreationInv, CursorInv,
                    RetentionKeepsUnread, [Next]_vars
             PROVE  CursorInv'
  BY Zenon
<1> USE DEF durable, locks, history
<1> DEFINE D == Dispatcher
           w == dispatch'.hook
           Fresh == rd'[D].after = cursor'[w] /\ rd'[D].limit = 1 /\ ~ Failed(D)'
<1>a. /\ cursor \in [Webhooks -> Nat] /\ hooks \subseteq Webhooks /\ latest \in Nat
      /\ latest' \in Nat /\ latest <= latest' /\ rd \in [Callers -> Read] /\ D \notin Streams
      /\ D \in Callers
  BY LatestGrows, TypeStep, Zenon DEF TypeOK, LogInv
<1>1. ASSUME NEW v \in hooks' \ removed' PROVE cursor'[v] <= latest'
  <2>1. v \in hooks \ removed => cursor[v] <= latest /\ cursor[v] \in Nat
    BY <1>a, Zenon DEF CursorInv
  <2>2. ASSUME NEW h \in Handlers, PutWebhook(h), Creating(h), pc[h] = "body", req[h].hook = v,
               cursor'[v] = cursor[v]
        PROVE  cursor'[v] <= latest'
    <3>1. cursor'[v] = req[h].seq /\ req[h].seq <= latest /\ req[h].seq \in Nat
      BY <2>2, CreatedCursor, Zenon DEF TypeOK, Request
    <3> QED
      BY <1>a, <3>1, SMTT(30)
  <2>3. \/ v \in hooks \ removed /\ cursor'[v] = cursor[v]
        \/ v \in hooks \ removed /\ cursor'[v] = cursor[v] + 1 /\ cursor[v] + 1 <= latest
        \/ \E h \in Handlers : /\ PutWebhook(h) /\ Creating(h) /\ pc[h] = "body"
                               /\ req[h].hook = v /\ cursor'[v] = cursor[v]
    BY <1>1, CursorMoves, Zenon
  <2>4. CASE v \in hooks \ removed /\ cursor'[v] = cursor[v]
    BY <1>a, <2>1, <2>4
  <2>5. CASE v \in hooks \ removed /\ cursor'[v] = cursor[v] + 1 /\ cursor[v] + 1 <= latest
    BY <1>a, <2>1, <2>5
  <2> QED
    BY <2>2, <2>3, <2>4, <2>5, Zenon
<1> SUFFICES ASSUME Serving', w \notin removed' PROVE Fresh
  BY <1>1, Zenon DEF CursorInv
\* The dispatcher's locals are unchanged: so is the cursor it works from.
<1>2. ASSUME UNCHANGED dispatch, rd'[D] = rd[D] PROVE Fresh
  <2>1. Serving /\ w = dispatch.hook /\ w \in Known /\ w \notin removed
    BY <1>2, RemovedGrows, Zenon DEF Serving, KnownInv
  <2>2. ~ DispatchAdvance
    BY <1>2, <2>1, SMTT(30) DEF DispatchAdvance, NextHook, Pass, Serving
  <2>3. cursor'[w] = cursor[w]
    BY <2>1, <2>2, CursorMoves, Zenon DEF Known
  <2> QED
    BY <1>2, <2>1, <2>3, Zenon DEF CursorInv, Failed
<1>3. CASE ReadEvents(D)
  <2>1. UNCHANGED <<cursor, dispatch, removed, minimum>>
    BY <1>3, Zenon DEF ReadEvents, EventsMinimum, EventsLatest, EventsFetch
  <2>2. Serving /\ w = dispatch.hook /\ w \in hooks \ removed
    BY <2>1, Zenon DEF Serving, KnownInv, Known
  <2>3. rd[D].after = cursor[w] /\ rd[D].limit = 1 /\ ~ Failed(D) /\ minimum <= cursor[w] + 1
    BY <2>2, Zenon DEF CursorInv, RetentionKeepsUnread
  <2>4. rd[D] \in Read
    BY <1>a, Zenon
  <2>5. CASE EventsMinimum(D)
    <3>1. ~ (rd[D].after + 1 < minimum)
      BY <1>a, <2>2, <2>3, SMTT(30) DEF TypeOK
    <3>2. rd'[D] = [rd[D] EXCEPT !.phase = "latest"]
      BY <1>a, <2>5, <3>1, Zenon DEF EventsMinimum
    <3> QED
      BY <2>1, <2>3, <2>4, <3>2, Zenon DEF Read, Failed
  <2>6. CASE EventsLatest(D)
    <3>1. /\ rd'[D].after = rd[D].after /\ rd'[D].limit = rd[D].limit
          /\ rd'[D].out \in {rd[D].out, "empty"}
      BY <1>a, <2>4, <2>6, Zenon DEF EventsLatest, Read
    <3> QED
      BY <2>1, <2>3, <3>1, Zenon DEF Failed
  <2>7. CASE EventsFetch(D)
    <3>1. rd[D].phase = "fetch" /\ rd[D].end <= latest /\ rd[D].after \in Nat /\ rd[D].end \in Nat
      BY <2>4, <2>7, Zenon DEF EventsFetch, ReadInv, Read
    <3>2. /\ rd[D].after + 1 .. rd[D].end \subseteq DOMAIN log
          /\ \A s \in rd[D].after + 1 .. rd[D].end : log[s].sequence = s
      <4>1. /\ DOMAIN log = minimum..latest /\ \A s \in DOMAIN log : log[s].sequence = s
            /\ minimum \in Nat /\ minimum <= rd[D].after + 1 /\ latest \in Nat
        BY <2>3, Zenon DEF LogInv, LogIsGapFree, TypeOK
      <4>2. rd[D].after + 1 .. rd[D].end \subseteq minimum..latest
        BY <3>1, <4>1, SMTT(30)
      <4> QED
        BY <4>1, <4>2, Zenon
    <3>3. rd'[D] = [rd[D] EXCEPT !.phase = "done", !.out = "events"]
      BY <1>a, <2>7, <3>2, Zenon DEF EventsFetch
    <3> QED
      BY <2>1, <2>3, <2>4, <3>3, Zenon DEF Read, Failed
  <2> QED
    BY <1>3, <2>5, <2>6, <2>7, Zenon DEF ReadEvents
<1>4. CASE \E c \in Callers : c # D /\ ReadEvents(c)
  BY <1>2, <1>4, <1>a DEF ReadEvents, EventsMinimum, EventsLatest, EventsFetch
<1>5. CASE Dispatch
  <2>1. ~ NextHook /\ ~ EndPass /\ ~ DispatchOnce
    BY SMTT(30) DEF NextHook, EndPass, DispatchOnce, NoPass, Pass, Serving
  <2>2. CASE DispatchWebhook
    <3>1. PICK v \in dispatch.todo : /\ dispatch' = Pass("events", dispatch.todo \ {v}, v)
                                     /\ rd' = [rd EXCEPT ![D] = StartRead(cursor[v], 1)]
      BY <2>2, Zenon DEF DispatchWebhook
    <3>2. w = v /\ cursor' = cursor /\ rd'[D] = StartRead(cursor[v], 1)
      BY <1>a, <2>2, <3>1, Zenon DEF Pass, DispatchWebhook
    <3> QED
      BY <3>2, SMTT(30) DEF StartRead, Failed
  <2>3. CASE DispatchEvent \/ DispatchRuntime
    <3>1. /\ \E at \in {"advance", "send"} : dispatch' = [dispatch EXCEPT !.at = at]
          /\ rd' = rd /\ cursor' = cursor /\ removed' = removed
          /\ dispatch.at \in {"events", "send"}
      BY <2>1, <2>3, Zenon DEF DispatchEvent, DispatchRuntime
    <3>2. w = dispatch.hook
      BY <3>1, Zenon DEF TypeOK
    <3> QED
      BY <3>1, <3>2, Zenon DEF CursorInv, Serving, Failed
  <2> QED
    BY <1>5, <2>1, <2>2, <2>3, Zenon DEF Dispatch, DispatchDone, DispatchAdvance, DispatchAbort
<1>6. ASSUME NEW s \in Streams, Subscribe(s) \/ StreamPoll(s) \/ StreamBatch(s) \/ StreamClose(s)
      PROVE Fresh
  BY <1>2, <1>6, <1>a, Zenon DEF Subscribe, StreamPoll, StreamBatch, StreamClose
<1>7. ~ Crash
  BY SMTT(30) DEF Crash, NoPass, Pass, Serving
<1>8. CASE UNCHANGED <<rd, dispatch, scan>>
  BY <1>2, <1>8, Zenon
<1> QED
  BY <1>3, <1>4, <1>5, <1>6, <1>7, <1>8, ConsumersFrame, Zenon DEF Next

\* A pass is reading cursors because it was, or because it has just begun to.
LEMMA PruneCases ==
  ASSUME TypeOK, [Next]_vars, pc'[Pruner] = "cursors"
  PROVE  PruneScan \/ PruneCursor \/ (pc[Pruner] = "cursors" /\ prune' = prune)
<1> USE DEF durable, locks, history
<1>a. DOMAIN pc = Tasks /\ Pruner \notin Handlers /\ Pruner # Projector
  BY Zenon DEF TypeOK
<1>1. ASSUME NEW h \in Handlers,
             BeginAppend(h) \/ CreateWebhook(h) \/ UpdateWebhook(h) \/ DeleteWebhook(h)
      PROVE pc'[Pruner] = pc[Pruner] /\ prune' = prune
  BY <1>1, <1>a, Zenon DEF BeginAppend, CreateWebhook, UpdateWebhook, DeleteWebhook, Begin
<1>2. ASSUME NEW h \in Handlers, Handle(h) \/ DropRequest(h)
      PROVE pc'[Pruner] = pc[Pruner] /\ prune' = prune
  BY <1>2, <1>a, Zenon DEF Handle, DropRequest, EnterGate, Lock, ReadLatest, StartCursor, PutWebhook,
                    RemoveWebhook, PendingEvents, CommitEvents, EndRequest
<1>3. ~ RetentionTick /\ ~ PruneGate /\ ~ Lock(Pruner) /\ ~ PruneNothing
  BY <1>a, Zenon DEF RetentionTick, PruneGate, Lock, PruneNothing, EndPrune
<1>4. ~ PruneApply
  <2>1. PruneApply => \E at \in {"gate", "idle"} : pc' = [pc EXCEPT ![Pruner] = at]
    BY Zenon DEF PruneApply, EndPrune
  <2> QED
    BY <1>a, <2>1, Zenon
<1>5. CASE ProjectorTick \/ Project
  BY <1>5, <1>a, Zenon DEF ProjectorTick, Project, EnterGate, Lock, ProjectEvents, EndProjection
<1>6. CASE WorkerFails
  BY <1>6, <1>a, Zenon DEF WorkerFails, EndPrune, EndProjection
<1>7. CASE \/ \E c \in Callers : ReadEvents(c)
           \/ Dispatch
           \/ \E s \in Streams : Subscribe(s) \/ StreamPoll(s) \/ StreamBatch(s) \/ StreamClose(s)
  BY <1>7, ConsumersKeep, Zenon
<1>8. CASE Tick \/ UNCHANGED vars
  BY <1>8, Zenon DEF Tick, vars
<1>9. ~ Crash
  BY Zenon DEF Crash
<1> QED
  BY <1>1, <1>2, <1>3, <1>4, <1>5, <1>6, <1>7, <1>8, <1>9, Zenon DEF Next, Prune

\* What a pass may delete stays bounded by the cursors it has read.
LEMMA PruneStep ==
  TypeOK /\ LogInv /\ KnownInv /\ ReadInv /\ CursorInv /\ PruneInv /\ [Next]_vars => PruneInv'
<1> SUFFICES ASSUME TypeOK, LogInv, KnownInv, ReadInv, CursorInv, PruneInv, [Next]_vars,
                    pc'[Pruner] = "cursors"
             PROVE  /\ \A w \in hooks' \ removed' : w \in prune'.todo \/ prune'.safe <= cursor'[w]
                    /\ projector' # NoCursor => prune'.safe <= projector'
  BY Zenon DEF PruneInv
<1> USE DEF durable, locks, history
<1>a. /\ cursor \in [Webhooks -> Nat] /\ hooks \subseteq Webhooks /\ latest \in Nat
      /\ projector \in Nat \cup {NoCursor}
      /\ prune \in [cutoff : Nat, safe : Nat, todo : SUBSET Webhooks]
  BY Zenon DEF TypeOK
<1>1. CASE PruneScan
  <2>1. /\ prune'.todo = hooks /\ UNCHANGED <<hooks, cursor, projector>>
        /\ prune'.safe = IF projector = NoCursor THEN latest ELSE AtMost(latest, projector)
    BY <1>1, <1>a, Zenon DEF PruneScan
  <2> QED
    BY <2>1, <1>a, SMTT(30) DEF AtMost
<1>2. CASE PruneCursor
  <2>1. PICK v \in prune.todo :
          prune' = [prune EXCEPT !.safe = AtMost(@, cursor[v]), !.todo = @ \ {v}]
    BY <1>2, Zenon DEF PruneCursor
  <2>2. /\ prune'.todo = prune.todo \ {v} /\ prune'.safe = AtMost(prune.safe, cursor[v])
        /\ prune.safe \in Nat /\ cursor[v] \in Nat
    BY <2>1, <1>a, Zenon
  <2>3. pc[Pruner] = "cursors" /\ UNCHANGED <<hooks, cursor, projector, removed>>
    BY <1>2, Zenon DEF PruneCursor
  <2>4. prune'.safe <= prune.safe /\ prune'.safe <= cursor[v] /\ prune'.safe \in Nat
    BY <2>2, SMTT(30) DEF AtMost
  <2>5. ASSUME NEW w \in hooks' \ removed', w \notin prune'.todo PROVE prune'.safe <= cursor'[w]
    <3>1. CASE w = v
      BY <2>3, <2>4, <3>1, Zenon
    <3>2. CASE w # v
      <4>1. prune.safe <= cursor[w] /\ cursor[w] \in Nat
        BY <1>a, <2>2, <2>3, <2>5, <3>2, Zenon DEF PruneInv
      <4> QED
        BY <2>2, <2>3, <2>4, <4>1, SMTT(30)
    <3> QED
      BY <3>1, <3>2, Zenon
  <2>6. projector' # NoCursor => prune'.safe <= projector'
    BY <1>a, <2>2, <2>3, <2>4, SMTT(30) DEF PruneInv
  <2> QED
    BY <2>5, <2>6, Zenon
<1>3. CASE pc[Pruner] = "cursors" /\ prune' = prune
  \* The pass holds the mutation lock: no record is put and the projector stands still.
  <2>1. \A h \in Handlers : pc[h] # "body"
    BY <1>3, Zenon DEF LogInv, MutualExclusion, Critical
  <2>2. projector' = projector
    BY <1>3, ProjectorEffect, Zenon DEF LogInv, MutualExclusion, Critical, ProjectEvents
  <2>3. ASSUME NEW w \in hooks' \ removed', w \notin prune'.todo PROVE prune'.safe <= cursor'[w]
    <3>1. w \in hooks \ removed /\ cursor'[w] \in {cursor[w], cursor[w] + 1}
      BY <2>1, <2>3, CursorMoves, SMTT(30)
    <3>2. prune.safe <= cursor[w] /\ cursor[w] \in Nat /\ prune.safe \in Nat
      BY <1>a, <1>3, <2>3, <3>1, Zenon DEF PruneInv
    <3> QED
      BY <1>3, <3>1, <3>2, SMTT(30)
  <2> QED
    BY <1>3, <2>2, <2>3, Zenon DEF PruneInv
<1> QED
  BY <1>1, <1>2, <1>3, PruneCases, Zenon

-----------------------------------------------------------------------------
\* The inductive invariant: with the log itself, what requests, retention and consumers
\* know of each other.
ConsumerInv ==
  /\ KnownInv /\ ReadInv /\ TimeInv /\ CreationInv /\ CursorInv /\ PruneInv
  /\ RetentionKeepsUnread

LEMMA ConsumerInit == Init => ConsumerInv
<1> SUFFICES ASSUME Init PROVE ConsumerInv
  BY Zenon
<1> USE DEF Init, NoReq, NoRead, NoPass, Pass, NoPrune
<1>1. KnownInv /\ TimeInv /\ CreationInv /\ PruneInv
  BY Zenon DEF KnownInv, Known, Creating, Serving, TimeInv, CreationInv, PruneInv
<1>2. ReadInv /\ CursorInv /\ RetentionKeepsUnread
  BY SMTT(30) DEF ReadInv, CursorInv, Serving, RetentionKeepsUnread
<1> QED
  BY <1>1, <1>2, Zenon DEF ConsumerInv

THEOREM ConsumersCorrect == Spec => [](TypeOK /\ LogInv /\ ConsumerInv)
<1>1. TypeOK /\ LogInv /\ ConsumerInv /\ [Next]_vars => (TypeOK /\ LogInv /\ ConsumerInv)'
  <2>1. TypeOK /\ LogInv /\ [Next]_vars => TypeOK' /\ LogInv'
    BY TypeStep, LogStep, Zenon DEF LogInv
  <2> QED
    BY <2>1, KnownStep, ReadStep, TimeStep, CreationStep, CursorStep, PruneStep, RetentionStep, Zenon
       DEF ConsumerInv
<1> QED
  BY <1>1, InitInv, ConsumerInit, PTL DEF Spec

\* prune_events_older_than never removes an event that a destination or the projector has
\* still to read, for any number of requests, destinations and streams and for every
\* timeout and every retention at least twice as long.
THEOREM UnreadEventsAreKept == Spec => []RetentionKeepsUnread
<1>1. ConsumerInv => RetentionKeepsUnread
  BY Zenon DEF ConsumerInv
<1> QED
  BY <1>1, ConsumersCorrect, PTL

\* events() never fails in the dispatcher for a destination that was not deleted: its four
\* unlocked reads are never overtaken by a prune.
THEOREM DispatcherIsServed == Spec => []DispatcherNeverFails
<1>1. ConsumerInv => DispatcherNeverFails
  BY Zenon DEF ConsumerInv, CursorInv, DispatcherNeverFails, Serving
<1> QED
  BY <1>1, ConsumersCorrect, PTL

\* event_stream never finds the log's end behind its own position.
THEOREM StreamsFollowLog == Spec => []StreamsBehindLog
<1>1. ConsumerInv => StreamsBehindLog
  BY Zenon DEF ConsumerInv, ReadInv, StreamsBehindLog
<1> QED
  BY <1>1, ConsumersCorrect, PTL

\* The cursor of a destination moves over one event at a time and never past the log's
\* end: no event is skipped and none is delivered twice in a row once its delivery is final.
THEOREM CursorsMoveByOne == Spec => CursorsAdvance
<1> DEFINE A == \A w \in hooks \ removed' : /\ cursor'[w] \in {cursor[w], cursor[w] + 1}
                                            /\ cursor'[w] <= latest'
<1>1. ASSUME TypeOK, LogInv, ConsumerInv, (TypeOK /\ LogInv /\ ConsumerInv)', [Next]_vars PROVE A
  <2> SUFFICES ASSUME NEW w \in hooks, w \notin removed'
               PROVE  cursor'[w] \in {cursor[w], cursor[w] + 1} /\ cursor'[w] <= latest'
    BY Zenon
  <2>1. /\ latest \in Nat /\ latest' \in Nat /\ latest <= latest' /\ cursor[w] \in Nat
        /\ KnownInv /\ ReadInv /\ CursorInv
    BY <1>1, LatestGrows, Zenon DEF TypeOK, ConsumerInv
  <2>2. w \in hooks \ removed => cursor[w] <= latest
    BY <2>1, Zenon DEF CursorInv
  <2>3. w \in Known
    BY Zenon DEF Known
  <2> QED
    BY <1>1, <2>1, <2>2, <2>3, CursorMoves, SMTT(30)
<1>2. [](TypeOK /\ LogInv /\ ConsumerInv) /\ [][Next]_vars => [][A]_vars
  BY <1>1, PTL
<1> QED
  BY <1>2, ConsumersCorrect, PTL DEF Spec, CursorsAdvance

=============================================================================
