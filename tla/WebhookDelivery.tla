--------------------------- MODULE WebhookDelivery ---------------------------
(***************************************************************************)
(* Deliveries to one webhook destination: webhook.rs with the delivery     *)
(* side of store/webhooks.rs and webhook_rpc.rs.  The dispatcher works     *)
(* without a lock, except inside put_webhook_delivery; requests replay and *)
(* test deliveries and change the destination; retention prunes.  EventLog *)
(* has the log; here it is the fixed sequence Events, of which the         *)
(* destination is subscribed to Deliverable.                               *)
(*                                                                         *)
(* Times are kept relative to now(): `wait` is what is left until          *)
(* next_attempt_at and `age` what has passed since completed_at, counted   *)
(* from when they are stored.  A delivery id (a UUID) may be taken again   *)
(* once nothing refers to it.                                              *)
(***************************************************************************)
EXTENDS Integers, FiniteSets

CONSTANTS
  Requests,     \* concurrent operator requests
  Operations,   \* what they do: a subset of AllOperations
  LastEvent,    \* the length of the log
  Deliverable,  \* events that are subscribed and not internal
  Ids,          \* delivery ids
  MaxAttempts,  \* MAX_ATTEMPTS
  Retention,    \* event_retention_seconds
  MaxFailures,  \* bound on failed passes and requests
  Dispatcher, Nobody

AllOperations == {"replay", "test", "update", "rotate", "delete"}
Events == 1..LastEvent
Actors == Requests \cup {Dispatcher}

ASSUME DeliveryConstants ==
  /\ LastEvent \in Nat /\ Deliverable \subseteq 1..LastEvent
  /\ Operations \subseteq AllOperations
  /\ MaxAttempts \in Nat \ {0} /\ Retention \in Nat /\ MaxFailures \in Nat
  /\ Dispatcher \notin Requests /\ Nobody \notin Actors /\ Nobody \notin Ids

VARIABLES
  hook,        \* status in auth:webhook:<id>, "absent" without a record
  cursor,      \* auth:webhook-cursor:<id>, 0 when absent
  deliveries,  \* auth:webhook-delivery:<id>, a function on the ids that have a record
  index,       \* auth:webhook-delivery-event:<webhook>:<n>, Nobody when absent; 0 is a test
  backlog,     \* auth:webhook-delivery-backlog
  mutation,    \* holder of Store::mutation, or Nobody
  pc,          \* where each actor is
  loc,         \* its locals
  attempts,    \* history: what came of the attempts of each event
  failures     \* history: failed passes and requests so far

durable == <<hook, cursor, deliveries, index, backlog>>
history == <<attempts, failures>>
vars    == <<durable, mutation, pc, loc, history>>

Ordered == INSTANCE OrderedDelivery WITH passed <- cursor

Open     == {"pending", "retrying"}
Terminal == {"succeeded", "failed"}
HookStatus == {"active", "paused", "failing", "absent"}

NewDelivery(s) == [seq |-> s, status |-> "pending", attempts |-> 0, wait |-> 0, age |-> 0]
NoLocal == [op |-> "test", hook |-> "absent", seq |-> 0, id |-> Nobody,
            rec |-> NewDelivery(0), backlog |-> 0]

Init ==
  /\ hook = "active" /\ cursor = 0
  /\ deliveries = [i \in {} |-> NewDelivery(0)]
  /\ index = [s \in 0..LastEvent |-> Nobody]
  /\ backlog = 0
  /\ mutation = Nobody
  /\ pc = [a \in Actors |-> "idle"]
  /\ loc = [a \in Actors |-> NoLocal]
  /\ attempts = [s \in Events |-> Ordered!Untried] /\ failures = 0

Goto(a, at) == pc' = [pc EXCEPT ![a] = at]

\* On to set_webhook_cursor, for which only the event matters.
ToAdvance(s) ==
  /\ Goto(Dispatcher, "advance")
  /\ loc' = [loc EXCEPT ![Dispatcher] = [NoLocal EXCEPT !.seq = s]]

End(a) ==
  /\ Goto(a, "idle")
  /\ loc' = [loc EXCEPT ![a] = NoLocal]

Fresh == {i \in Ids : /\ i \notin DOMAIN deliveries
                      /\ \A s \in DOMAIN index : index[s] # i
                      /\ \A a \in Actors : loc[a].id # i}

\* Ids are random; which of the fresh ones is taken makes no difference.
FreshId == IF Fresh = {} THEN {} ELSE {CHOOSE i \in Fresh : TRUE}

-----------------------------------------------------------------------------
(***************************************************************************)
(* put_webhook_delivery, under the mutation lock: first the reads and the  *)
(* decisions, then the transaction.                                        *)
(***************************************************************************)

\* (Bugs: an operator named Bug... is a wrong variant of the definition after it, kept
\* to show that the properties can tell the difference.)

WasOpen(i) == i \in DOMAIN deliveries /\ deliveries[i].status \in Open

NewBacklog(i, d) ==
  CASE d.status \in Open /\ ~ WasOpen(i)    -> backlog + 1
    [] d.status \in Terminal /\ WasOpen(i)  -> backlog - 1
    [] OTHER                                -> backlog

\* A terminal delivery does not return to a pending state.
PutRefused(i, d) ==
  i \in DOMAIN deliveries /\ deliveries[i].status \in Terminal /\ d.status \in Open

\* Without the lock.
BugPutRead(a) ==
  LET l == loc[a]
  IN  /\ pc[a] \in {"put", "record"}
      /\ loc' = [loc EXCEPT ![a].backlog = NewBacklog(l.id, l.rec)]
      /\ Goto(a, IF pc[a] = "put" THEN "putting" ELSE "recording")
      /\ UNCHANGED <<durable, mutation, history>>

PutRead(a) ==
  LET l == loc[a]
  IN  /\ pc[a] \in {"put", "record"} /\ mutation = Nobody
      /\ IF PutRefused(l.id, l.rec) \/ NewBacklog(l.id, l.rec) < 0
         THEN End(a) /\ UNCHANGED mutation
         ELSE /\ mutation' = a
              /\ loc' = [loc EXCEPT ![a].backlog = NewBacklog(l.id, l.rec)]
              /\ Goto(a, IF pc[a] = "put" THEN "putting" ELSE "recording")
      /\ UNCHANGED <<durable, history>>

\* Record, index and backlog together.  The dispatcher puts a delivery before its
\* attempt and again after it; a request only after it.
PutCommit(a) ==
  LET l == loc[a]
  IN  /\ pc[a] \in {"putting", "recording"}
      /\ deliveries' = [i \in DOMAIN deliveries \cup {l.id} |->
                          IF i = l.id THEN l.rec ELSE deliveries[i]]
      /\ index' = [index EXCEPT ![l.rec.seq] = l.id]
      /\ backlog' = l.backlog
      /\ mutation' = Nobody
      /\ IF a # Dispatcher THEN End(a)
         ELSE /\ Goto(a, IF pc[a] = "putting" THEN "send" ELSE "runtime")
              /\ loc' = [loc EXCEPT ![a].backlog = 0]
      /\ UNCHANGED <<hook, cursor, history>>

-----------------------------------------------------------------------------
(***************************************************************************)
(* The dispatcher: dispatch_once and dispatch_webhook.                     *)
(***************************************************************************)

\* dispatch_once reads the destination and skips a paused one.
DispatchOnce ==
  /\ pc[Dispatcher] = "idle" /\ hook \notin {"absent", "paused"}
  /\ loc' = [loc EXCEPT ![Dispatcher].hook = hook]
  /\ Goto(Dispatcher, "cursor")
  /\ UNCHANGED <<durable, mutation, history>>

\* The cursor, and the event after it.  Internal and unsubscribed events are passed over.
ReadCursor ==
  /\ pc[Dispatcher] = "cursor"
  /\ IF cursor = LastEvent THEN End(Dispatcher)
     ELSE IF cursor + 1 \notin Deliverable THEN ToAdvance(cursor + 1)
     ELSE /\ loc' = [loc EXCEPT ![Dispatcher].seq = cursor + 1]
          /\ Goto(Dispatcher, "index")
  /\ UNCHANGED <<durable, mutation, history>>

\* webhook_delivery_for_event, first the index ...
FindIndex ==
  /\ pc[Dispatcher] = "index"
  /\ loc' = [loc EXCEPT ![Dispatcher].id = index[loc[Dispatcher].seq]]
  /\ Goto(Dispatcher, "find")
  /\ UNCHANGED <<durable, mutation, history>>

\* ... then the record.  A finished delivery is passed over, one that is not due waits,
\* and a missing one is new.
FindRecord ==
  LET i == loc[Dispatcher].id
  IN  /\ pc[Dispatcher] = "find"
      /\ \/ /\ i \notin DOMAIN deliveries
            /\ \E n \in FreshId :
                 loc' = [loc EXCEPT ![Dispatcher].id = n,
                                    ![Dispatcher].rec = NewDelivery(loc[Dispatcher].seq)]
            /\ Goto(Dispatcher, "put")
         \/ /\ i \in DOMAIN deliveries /\ deliveries[i].status \in Terminal
            /\ ToAdvance(loc[Dispatcher].seq)
         \/ /\ i \in DOMAIN deliveries /\ deliveries[i].status \in Open
            /\ IF deliveries[i].wait > 0 THEN End(Dispatcher)
               ELSE /\ loc' = [loc EXCEPT ![Dispatcher].rec = deliveries[i]]
                    /\ Goto(Dispatcher, "put")
      /\ UNCHANGED <<durable, mutation, history>>

schedule_or_fail(d, retryable) ==
  IF retryable /\ d.attempts < MaxAttempts
  THEN [d EXCEPT !.status = "retrying", !.wait = 2^(d.attempts - 1)]
  ELSE [d EXCEPT !.status = "failed", !.wait = 0]

\* The attempt, and what its answer makes of the delivery and of the destination.
Send ==
  LET l == loc[Dispatcher]
      d == [l.rec EXCEPT !.attempts = @ + 1]
  IN  /\ pc[Dispatcher] = "send"
      /\ \E answer \in {"accepted", "retryable", "refused"} :
           LET e == IF answer = "accepted" THEN [d EXCEPT !.status = "succeeded", !.wait = 0]
                    ELSE schedule_or_fail(d, answer = "retryable")
               h == CASE e.status = "failed" -> "failing"
                      [] e.status = "succeeded" /\ l.hook = "failing" -> "active"
                      [] OTHER -> l.hook
           IN  /\ loc' = [loc EXCEPT ![Dispatcher].rec = e, ![Dispatcher].hook = h]
               /\ attempts' = [attempts EXCEPT ![l.seq] =
                                 Ordered!Answered(@, answer # "retryable")]
      /\ Goto(Dispatcher, "record")
      /\ UNCHANGED <<durable, mutation, failures>>

\* The cursor moves whatever came of the attempt.
BugUpdateRuntime ==
  /\ pc[Dispatcher] = "runtime"
  /\ hook' = loc[Dispatcher].hook
  /\ ToAdvance(loc[Dispatcher].seq)
  /\ UNCHANGED <<cursor, deliveries, index, backlog, mutation, history>>

\* update_webhook_runtime: an unlocked SET of the record that dispatch_once read.
UpdateRuntime ==
  /\ pc[Dispatcher] = "runtime"
  /\ hook' = loc[Dispatcher].hook
  /\ IF loc[Dispatcher].rec.status \in Terminal
     THEN ToAdvance(loc[Dispatcher].seq)
     ELSE End(Dispatcher)
  /\ UNCHANGED <<cursor, deliveries, index, backlog, mutation, history>>

\* set_webhook_cursor, unlocked.
Advance ==
  /\ pc[Dispatcher] = "advance"
  /\ cursor' = loc[Dispatcher].seq
  /\ End(Dispatcher)
  /\ UNCHANGED <<hook, deliveries, index, backlog, mutation, history>>

-----------------------------------------------------------------------------
(***************************************************************************)
(* Requests of operators.                                                  *)
(***************************************************************************)

Begin(r, op, s) ==
  /\ pc[r] = "idle" /\ op \in Operations
  /\ loc' = [loc EXCEPT ![r] = [NoLocal EXCEPT !.op = op, !.seq = s]]
  /\ Goto(r, "hook")
  /\ UNCHANGED <<durable, mutation, history>>

\* replay_delivery has read the delivery; a test's event is not in the log, and
\* neither is an identifier verification's.
BeginReplay(r) ==
  \E i \in DOMAIN deliveries : deliveries[i].seq > 0 /\ Begin(r, "replay", deliveries[i].seq)

BeginOther(r) == \E op \in AllOperations \ {"replay"} : Begin(r, op, 0)

\* The destination is read without a lock; without one the request ends.  An update
\* chooses the status; a rotation keeps it with a new secret.
ReadHook(r) ==
  /\ pc[r] = "hook"
  /\ IF hook = "absent" THEN End(r)
     ELSE /\ \E h \in IF loc[r].op = "update" THEN HookStatus \ {"absent"} ELSE {hook} :
               loc' = [loc EXCEPT ![r].hook = h]
          /\ Goto(r, IF loc[r].op \in {"replay", "test"} THEN "direct" ELSE "change")
  /\ UNCHANGED <<durable, mutation, history>>

\* send_direct: one attempt, whose answer is final, under a delivery of its own.  (The
\* bound Ids: a request leaves an id for the dispatcher.)
SendDirect(r) ==
  /\ pc[r] = "direct" /\ Cardinality(Fresh) > 1
  /\ \E i \in FreshId, answer \in {"accepted", "retryable", "refused"} :
       LET s == loc[r].seq
       IN  /\ loc' = [loc EXCEPT ![r].id = i,
                                 ![r].rec = [NewDelivery(s) EXCEPT !.attempts = 1,
                        !.status = IF answer = "accepted" THEN "succeeded" ELSE "failed"]]
           /\ attempts' = IF s = 0 THEN attempts
                          ELSE [attempts EXCEPT ![s] = Ordered!Answered(@, answer # "retryable")]
  /\ Goto(r, "put")
  /\ UNCHANGED <<durable, mutation, failures>>

\* put_webhook or remove_webhook.
ChangeHook(r) ==
  LET delete == loc[r].op = "delete"
  IN  /\ pc[r] = "change" /\ mutation = Nobody
      /\ hook' = IF delete THEN "absent" ELSE loc[r].hook
      /\ cursor' = IF delete THEN 0 ELSE cursor
      /\ End(r)
      /\ UNCHANGED <<deliveries, index, backlog, mutation, history>>

-----------------------------------------------------------------------------
\* prune_webhook_deliveries_older_than, under the mutation lock: finished deliveries of
\* a cutoff that may be an old one, up to a limit, with the index of their events.
PruneDeliveries ==
  /\ mutation = Nobody
  /\ \E old \in SUBSET {i \in DOMAIN deliveries :
                          deliveries[i].status \in Terminal /\ deliveries[i].age > Retention} :
       /\ old # {}
       /\ deliveries' = [i \in DOMAIN deliveries \ old |-> deliveries[i]]
       /\ index' = [s \in DOMAIN index |->
                      IF \E i \in old : deliveries[i].seq = s THEN Nobody ELSE index[s]]
  /\ UNCHANGED <<hook, cursor, backlog, mutation, pc, loc, history>>

\* A second passes.
Older(d) ==
  IF d.status \in Terminal THEN [d EXCEPT !.age = IF @ > Retention THEN @ ELSE @ + 1]
  ELSE [d EXCEPT !.wait = IF @ = 0 THEN 0 ELSE @ - 1]

Tick ==
  /\ deliveries' = [i \in DOMAIN deliveries |-> Older(deliveries[i])]
  /\ UNCHANGED <<hook, cursor, index, backlog, mutation, pc, loc, history>>

\* A datastore call fails, a request times out, or the process stops: a pass or a
\* request ends where it is.
Fail(a) ==
  /\ pc[a] # "idle" /\ failures < MaxFailures
  /\ mutation' = IF mutation = a THEN Nobody ELSE mutation
  /\ failures' = failures + 1
  /\ End(a)
  /\ UNCHANGED <<durable, attempts>>

Dispatch ==
  \/ DispatchOnce \/ ReadCursor \/ FindIndex \/ FindRecord
  \/ PutRead(Dispatcher) \/ PutCommit(Dispatcher) \/ Send \/ UpdateRuntime \/ Advance

Handle(r) ==
  ReadHook(r) \/ SendDirect(r) \/ PutRead(r) \/ PutCommit(r) \/ ChangeHook(r)

Next ==
  \/ Dispatch
  \/ \E r \in Requests : BeginReplay(r) \/ BeginOther(r) \/ Handle(r)
  \/ PruneDeliveries \/ Tick
  \/ \E a \in Actors : Fail(a)

Spec == Init /\ [][Next]_vars

\* The dispatcher's interval goes on and time passes; a request in its critical section
\* goes on; the mutex serves waiters in order.
Fairness ==
  /\ WF_vars(Dispatch) /\ SF_vars(PutRead(Dispatcher)) /\ WF_vars(Tick)
  /\ \A r \in Requests : WF_vars(PutCommit(r))

FairSpec == Spec /\ Fairness

-----------------------------------------------------------------------------
\* The stored backlog is the number of unfinished deliveries, whatever puts, prunes,
\* failures and replays come together; so put_webhook_delivery never finds it
\* "inconsistent" and never stops the dispatcher.
BacklogIsExact ==
  backlog = Cardinality({i \in DOMAIN deliveries : deliveries[i].status \in Open})

\* put_webhook_delivery: "a terminal webhook delivery cannot return to a pending state",
\* nor change its outcome, until retention prunes it.
TerminalIsFinal ==
  [][\A i \in DOMAIN deliveries \cap DOMAIN deliveries' :
       deliveries[i].status \in Terminal =>
         /\ deliveries'[i].status = deliveries[i].status
         /\ deliveries'[i].attempts = deliveries[i].attempts]_vars

\* "A destination cursor advances only after success or terminal failure" (docs/API.md),
\* where a retryable answer is terminal at the last attempt (schedule_or_fail).
NoEventSkipped ==
  \A s \in Deliverable : s <= cursor => Ordered!Over(attempts[s])

\* The dispatcher implements the ordered at-least-once delivery of OrderedDelivery:
\* attempts in log order, and no event taken up before the last one is done with.
OrderedAtLeastOnce == Ordered!Spec

\* "retried with bounded exponential backoff" (docs/API.md): a delivery that was begun
\* ends, whatever its answers are, unless the destination is paused.
EveryDeliverySettles ==
  \A i \in Ids : WasOpen(i) ~> (~ WasOpen(i) \/ hook = "paused")
=============================================================================
