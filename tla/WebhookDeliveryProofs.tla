----------------------- MODULE WebhookDeliveryProofs -----------------------
(***************************************************************************)
(* Deliveries, for any number of requests, events and ids and any limits:  *)
(* the stored backlog is exact, a finished delivery stays as it is, and,   *)
(* beside updates, the dispatcher implements OrderedDelivery.              *)
(***************************************************************************)
EXTENDS MCWebhookDelivery, FiniteSetTheorems, TLAPS

Record(d) ==
  /\ DOMAIN d = {"seq", "status", "attempts", "wait", "age"}
  /\ d.seq \in 0..LastEvent /\ d.status \in Open \cup Terminal /\ d.attempts \in Nat

Locals(l) ==
  /\ DOMAIN l = {"op", "hook", "seq", "id", "rec", "backlog"}
  /\ l.seq \in 0..LastEvent /\ Record(l.rec)

StateOK ==
  /\ cursor \in 0..LastEvent /\ DOMAIN index = 0..LastEvent
  /\ DOMAIN pc = Actors /\ DOMAIN loc = Actors /\ \A a \in Actors : Locals(loc[a])
  /\ IsFiniteSet(DOMAIN deliveries) /\ \A i \in DOMAIN deliveries : Record(deliveries[i])
  /\ DOMAIN attempts = Events

\* An id that actor a has taken and nobody else knows of.
Own(i, a) ==
  /\ i # Nobody /\ i \notin DOMAIN deliveries
  /\ \A s \in DOMAIN index : index[s] # i
  /\ \A b \in Actors \ {a} : loc[b].id # i

\* A request puts one delivery, finished and under an id of its own.
RequestOK(r) ==
  /\ pc[r] \in {"idle", "hook", "direct", "put", "putting", "change"}
  /\ pc[r] \in {"put", "putting"} => Own(loc[r].id, r) /\ loc[r].rec.status \in Terminal

\* The dispatcher puts a delivery that is not finished, and attempts it when it is stored.
DispatcherOK ==
  LET at == pc[Dispatcher]
      l  == loc[Dispatcher]
  IN  /\ at \notin {"hook", "direct", "change"}
      /\ at \in {"put", "putting", "send"} => l.rec.status \in Open
      /\ at \in {"put", "putting"} => l.id \notin DOMAIN deliveries \/ WasOpen(l.id)
      /\ at \in {"send", "record", "recording"} => WasOpen(l.id)

\* Who commits a put has the lock, and the backlog it computed is still right.
HolderOK(a) ==
  pc[a] \in {"putting", "recording"} =>
    mutation = a /\ loc[a].backlog = NewBacklog(loc[a].id, loc[a].rec)

PutInv ==
  /\ StateOK /\ DispatcherOK /\ BacklogIsExact
  /\ \A r \in Requests : RequestOK(r)
  /\ \A a \in Actors : HolderOK(a)

-----------------------------------------------------------------------------
(* Steps that leave the deliveries alone. *)

Moved(a) ==
  /\ DOMAIN pc' = Actors /\ DOMAIN loc' = Actors
  /\ \A b \in Actors : b # a => pc'[b] = pc[b] /\ loc'[b] = loc[b]

\* Nobody knows the id that a request has taken, whatever the id that another one now has.
LEMMA ActorMoves ==
  ASSUME PutInv, NEW a \in Actors, Moved(a), UNCHANGED <<deliveries, index, backlog>>,
         cursor' \in 0..LastEvent, DOMAIN attempts' = Events, Locals(loc[a])',
         a \in Requests => RequestOK(a)', a = Dispatcher => DispatcherOK', HolderOK(a)',
         \A b \in Actors : b # a /\ mutation = b => mutation' = b,
         \A r \in Requests : r # a /\ pc[r] \in {"put", "putting"} => loc'[a].id # loc[r].id
  PROVE  PutInv'
<1>1. StateOK'
  BY Zenon DEF PutInv, StateOK, Moved, Locals, Record
<1>2. DispatcherOK'
  <2>1. CASE a = Dispatcher
    BY <2>1, Zenon
  <2>2. CASE a # Dispatcher
    BY <2>2, Zenon DEF PutInv, DispatcherOK, Moved, WasOpen, Actors
  <2> QED
    BY <2>1, <2>2, Zenon
<1>3. BacklogIsExact'
  BY Zenon DEF PutInv, BacklogIsExact
<1>4. ASSUME NEW r \in Requests PROVE RequestOK(r)'
  <2>1. CASE r = a
    BY <2>1, Zenon
  <2>2. CASE r # a
    <3>1. pc'[r] = pc[r] /\ loc'[r] = loc[r] /\ RequestOK(r)
      BY <2>2, Zenon DEF PutInv, Moved, Actors
    <3>2. ASSUME pc[r] \in {"put", "putting"} PROVE Own(loc[r].id, r)'
      BY <2>2, <3>1, <3>2, Zenon DEF RequestOK, Own, Moved
    <3> QED
      BY <3>1, <3>2, Zenon DEF RequestOK
  <2> QED
    BY <2>1, <2>2, Zenon
<1>5. ASSUME NEW b \in Actors PROVE HolderOK(b)'
  <2>1. CASE b = a
    BY <2>1, Zenon
  <2>2. CASE b # a
    <3>1. pc'[b] = pc[b] /\ loc'[b] = loc[b] /\ HolderOK(b)
      BY <2>2, Zenon DEF PutInv, Moved
    <3>2. \A i, d : NewBacklog(i, d)' = NewBacklog(i, d)
      BY Zenon DEF NewBacklog, WasOpen
    <3> QED
      BY <2>2, <3>1, <3>2, Zenon DEF HolderOK
  <2> QED
    BY <2>1, <2>2, Zenon
<1> QED
  BY <1>1, <1>2, <1>3, <1>4, <1>5, Zenon DEF PutInv

\* An actor goes to a place where it neither puts nor attempts anything.
LEMMA ActorRests ==
  ASSUME PutInv, NEW a \in Actors, Moved(a), UNCHANGED <<deliveries, index, backlog>>,
         cursor' \in 0..LastEvent, UNCHANGED attempts, Locals(loc[a])',
         pc'[a] \notin {"put", "putting", "send", "record", "recording"},
         a \in Requests => pc'[a] \in {"idle", "hook", "direct", "change"},
         a = Dispatcher => pc'[a] \notin {"hook", "direct", "change"},
         \A b \in Actors : b # a /\ mutation = b => mutation' = b,
         \/ loc'[a].id = Nobody \/ loc'[a].id = loc[a].id
         \/ \E s \in DOMAIN index : loc'[a].id = index[s]
  PROVE  PutInv'
<1>1. a \in Requests => RequestOK(a)'
  BY Zenon DEF RequestOK
<1>2. a = Dispatcher => DispatcherOK'
  BY Zenon DEF DispatcherOK
<1>3. HolderOK(a)'
  BY Zenon DEF HolderOK
<1>4. ASSUME NEW r \in Requests, r # a, pc[r] \in {"put", "putting"} PROVE loc'[a].id # loc[r].id
  <2>1. Own(loc[r].id, r)
    BY <1>4, Zenon DEF PutInv, RequestOK
  <2> QED
    BY <1>4, <2>1, Zenon DEF Own
<1>5. DOMAIN attempts' = Events
  BY Zenon DEF PutInv, StateOK
<1> QED
  BY <1>1, <1>2, <1>3, <1>4, <1>5, ActorMoves, Zenon

\* What the locals of an actor are after the steps that set them.
LEMMA Cleared ==
  /\ Locals(NoLocal) /\ NoLocal.id = Nobody
  /\ \A s \in 0..LastEvent : /\ Record(NewDelivery(s)) /\ NewDelivery(s).status = "pending"
                             /\ NewDelivery(s).seq = s /\ NewDelivery(s).attempts = 0
  /\ \A s \in 0..LastEvent : Locals([NoLocal EXCEPT !.seq = s]) /\ [NoLocal EXCEPT !.seq = s].id = Nobody
                             /\ [NoLocal EXCEPT !.seq = s].seq = s
  /\ \A s \in 0..LastEvent : \A op : /\ Locals([NoLocal EXCEPT !.op = op, !.seq = s])
                                          /\ [NoLocal EXCEPT !.op = op, !.seq = s].id = Nobody
                                          /\ [NoLocal EXCEPT !.op = op, !.seq = s].op = op
<1>1. 0 \in 0..LastEvent
  BY DeliveryConstants
<1>2. \A s \in 0..LastEvent : /\ Record(NewDelivery(s)) /\ NewDelivery(s).status = "pending"
                              /\ NewDelivery(s).seq = s /\ NewDelivery(s).attempts = 0
  BY DEF Record, NewDelivery, Open
<1>3. /\ DOMAIN NoLocal = {"op", "hook", "seq", "id", "rec", "backlog"}
      /\ NoLocal.seq = 0 /\ NoLocal.rec = NewDelivery(0) /\ NoLocal.id = Nobody
  BY DEF NoLocal
<1> QED
  BY <1>1, <1>2, <1>3, SMTT(30) DEF Locals

LEMMA Ended ==
  ASSUME PutInv, NEW a \in Actors, End(a)
  PROVE  Moved(a) /\ pc'[a] = "idle" /\ loc'[a] = NoLocal
BY Zenon DEF PutInv, StateOK, End, Goto, Moved

LEMMA Advancing ==
  ASSUME PutInv, NEW s, ToAdvance(s)
  PROVE  /\ Moved(Dispatcher) /\ pc'[Dispatcher] = "advance"
         /\ loc'[Dispatcher] = [NoLocal EXCEPT !.seq = s]
BY Zenon DEF PutInv, StateOK, ToAdvance, Goto, Moved, Actors

\* A pass or a request ends.
LEMMA EndKeeps ==
  ASSUME PutInv, NEW a \in Actors, End(a), UNCHANGED <<deliveries, index, backlog, attempts>>,
         cursor' \in 0..LastEvent, \A b \in Actors : b # a /\ mutation = b => mutation' = b
  PROVE  PutInv'
<1>1. Moved(a) /\ pc'[a] = "idle" /\ loc'[a] = NoLocal
  BY Ended, Zenon
<1>2. Locals(loc[a])' /\ loc'[a].id = Nobody
  BY <1>1, Cleared, Zenon DEF Locals, Record
<1> QED
  BY <1>1, <1>2, ActorRests, SMTT(30)

LEMMA AdvanceKeeps ==
  ASSUME PutInv, NEW s \in 0..LastEvent, ToAdvance(s),
         UNCHANGED <<cursor, deliveries, index, backlog, mutation, attempts>>
  PROVE  PutInv'
<1>1. /\ Moved(Dispatcher) /\ pc'[Dispatcher] = "advance"
      /\ loc'[Dispatcher] = [NoLocal EXCEPT !.seq = s]
  BY Advancing, Zenon
<1>2. Locals(loc[Dispatcher])' /\ loc'[Dispatcher].id = Nobody
  BY <1>1, Cleared, Zenon DEF Locals, Record
<1>3. Dispatcher \in Actors /\ Dispatcher \notin Requests /\ cursor' \in 0..LastEvent
  BY DeliveryConstants, Zenon DEF Actors, PutInv, StateOK
<1>4. /\ pc'[Dispatcher] \notin {"put", "putting", "send", "record", "recording"}
      /\ pc'[Dispatcher] \notin {"hook", "direct", "change"}
  BY <1>1, Zenon
<1> QED
  BY <1>1, <1>2, <1>3, <1>4, ActorRests, Zenon

\* dispatch_once and the reads of dispatch_webhook.
LEMMA DispatchOnceKeeps ==
  ASSUME PutInv, DispatchOnce
  PROVE  PutInv'
<1> DEFINE D == Dispatcher
<1>1. D \in Actors /\ D \notin Requests
  BY DeliveryConstants, Zenon DEF Actors
<1>2. PICK l : l = [loc[D] EXCEPT !.hook = hook]
  BY Zenon
<1>3. loc' = [loc EXCEPT ![D] = l] /\ pc' = [pc EXCEPT ![D] = "cursor"]
  BY <1>2, Zenon DEF DispatchOnce, Goto
<1>4. Locals(loc[D])
  BY <1>1, Zenon DEF PutInv, StateOK
<1>5. Locals(l) /\ l.id = loc[D].id
  BY <1>2, <1>4, SMTT(30) DEF Locals
<1>6. Moved(D) /\ pc'[D] = "cursor" /\ loc'[D] = l
  BY <1>1, <1>3, Zenon DEF PutInv, StateOK, Moved
<1>7. UNCHANGED <<cursor, deliveries, index, backlog, mutation, attempts>> /\ cursor \in 0..LastEvent
  BY Zenon DEF DispatchOnce, durable, history, PutInv, StateOK
<1>8. Locals(loc[D])' /\ loc'[D].id = loc[D].id
  BY <1>5, <1>6, Zenon DEF Locals, Record
<1> QED
  BY <1>1, <1>6, <1>7, <1>8, ActorRests, SMTT(30)

LEMMA ReadCursorKeeps ==
  ASSUME PutInv, ReadCursor
  PROVE  PutInv'
<1> DEFINE D == Dispatcher
<1>1. D \in Actors /\ D \notin Requests
  BY DeliveryConstants, Zenon DEF Actors
<1>2. UNCHANGED <<cursor, deliveries, index, backlog, mutation, attempts>> /\ cursor \in 0..LastEvent
  BY Zenon DEF ReadCursor, durable, history, PutInv, StateOK
<1>3. cursor # LastEvent => cursor + 1 \in 0..LastEvent
  BY <1>2, DeliveryConstants
<1>4. CASE cursor = LastEvent
  BY <1>1, <1>2, <1>4, EndKeeps, Zenon DEF ReadCursor
<1>5. CASE cursor # LastEvent /\ cursor + 1 \notin Deliverable
  BY <1>2, <1>3, <1>5, AdvanceKeeps, Zenon DEF ReadCursor
<1>6. CASE cursor # LastEvent /\ cursor + 1 \in Deliverable
  <2>1. PICK l : l = [loc[D] EXCEPT !.seq = cursor + 1]
    BY Zenon
  <2>2. loc' = [loc EXCEPT ![D] = l] /\ pc' = [pc EXCEPT ![D] = "index"]
    BY <1>6, <2>1, Zenon DEF ReadCursor, Goto
  <2>3. Locals(loc[D])
    BY <1>1, Zenon DEF PutInv, StateOK
  <2>4. Locals(l) /\ l.id = loc[D].id
    BY <1>3, <1>6, <2>1, <2>3, SMTT(30) DEF Locals
  <2>5. Moved(D) /\ pc'[D] = "index" /\ loc'[D] = l
    BY <1>1, <2>2, Zenon DEF PutInv, StateOK, Moved
  <2>6. Locals(loc[D])' /\ loc'[D].id = loc[D].id
    BY <2>4, <2>5, Zenon DEF Locals, Record
  <2> QED
    BY <1>1, <1>2, <2>5, <2>6, ActorRests, SMTT(30)
<1> QED
  BY <1>4, <1>5, <1>6, Zenon

LEMMA FindIndexKeeps ==
  ASSUME PutInv, FindIndex
  PROVE  PutInv'
<1> DEFINE D == Dispatcher
<1>1. D \in Actors /\ D \notin Requests
  BY DeliveryConstants, Zenon DEF Actors
<1>2. PICK l : l = [loc[D] EXCEPT !.id = index[loc[D].seq]]
  BY Zenon
<1>3. loc' = [loc EXCEPT ![D] = l] /\ pc' = [pc EXCEPT ![D] = "find"]
  BY <1>2, Zenon DEF FindIndex, Goto
<1>4. Locals(loc[D]) /\ DOMAIN index = 0..LastEvent
  BY <1>1, Zenon DEF PutInv, StateOK
<1>5. Locals(l) /\ l.id = index[loc[D].seq] /\ loc[D].seq \in DOMAIN index
  BY <1>2, <1>4, SMTT(30) DEF Locals
<1>6. Moved(D) /\ pc'[D] = "find" /\ loc'[D] = l
  BY <1>1, <1>3, Zenon DEF PutInv, StateOK, Moved
<1>7. UNCHANGED <<cursor, deliveries, index, backlog, mutation, attempts>> /\ cursor \in 0..LastEvent
  BY Zenon DEF FindIndex, durable, history, PutInv, StateOK
<1>8. Locals(loc[D])' /\ \E s \in DOMAIN index : loc'[D].id = index[s]
  BY <1>5, <1>6, Zenon DEF Locals, Record
<1> QED
  BY <1>1, <1>6, <1>7, <1>8, ActorRests, SMTT(30)

\* An id of Fresh is nobody's.
LEMMA FreshIsNew ==
  ASSUME PutInv, NEW n \in FreshId
  PROVE  /\ n # Nobody /\ n \notin DOMAIN deliveries
         /\ \A s \in DOMAIN index : index[s] # n
         /\ \A a \in Actors : loc[a].id # n
<1>1. n \in Fresh
  BY Zenon DEF FreshId
<1> QED
  BY <1>1, DeliveryConstants, Zenon DEF Fresh

LEMMA FindRecordKeeps ==
  ASSUME PutInv, FindRecord
  PROVE  PutInv'
<1> DEFINE D == Dispatcher
           i == loc[D].id
<1>1. D \in Actors /\ D \notin Requests
  BY DeliveryConstants, Zenon DEF Actors
<1>2. /\ UNCHANGED <<cursor, deliveries, index, backlog, mutation, attempts>>
      /\ cursor \in 0..LastEvent /\ DOMAIN attempts = Events
  BY Zenon DEF FindRecord, durable, history, PutInv, StateOK
<1>3. Locals(loc[D]) /\ loc[D].seq \in 0..LastEvent
  BY <1>1, Zenon DEF PutInv, StateOK, Locals
<1>4. ASSUME i \notin DOMAIN deliveries,
             NEW n \in FreshId,
             loc' = [loc EXCEPT ![D].id = n, ![D].rec = NewDelivery(loc[D].seq)],
             Goto(D, "put")
      PROVE  PutInv'
  <2>1. PICK l : l = [loc[D] EXCEPT !.id = n, !.rec = NewDelivery(loc[D].seq)]
    BY Zenon
  <2>2. loc' = [loc EXCEPT ![D] = l] /\ pc' = [pc EXCEPT ![D] = "put"]
    BY <1>4, <2>1, Zenon DEF Goto
  <2>3. Record(NewDelivery(loc[D].seq)) /\ NewDelivery(loc[D].seq).status \in Open
    BY <1>3, Cleared, Zenon DEF Open
  <2>4. Locals(l) /\ l.id = n /\ l.rec.status \in Open
    BY <1>3, <2>1, <2>3, SMTT(30) DEF Locals
  <2>5. Moved(D) /\ pc'[D] = "put" /\ loc'[D] = l
    BY <1>1, <2>2, Zenon DEF PutInv, StateOK, Moved
  <2>6. Locals(loc[D])' /\ HolderOK(D)'
    BY <2>4, <2>5, Zenon DEF Locals, Record, HolderOK
  <2>7. DispatcherOK'
    BY <1>2, <2>4, <2>5, FreshIsNew, Zenon DEF DispatcherOK
  <2>8. ASSUME NEW r \in Requests PROVE loc'[D].id # loc[r].id
    BY <2>4, <2>5, FreshIsNew, Zenon DEF Actors
  <2> QED
    BY <1>1, <1>2, <2>5, <2>6, <2>7, <2>8, ActorMoves, Zenon
<1>5. ASSUME ToAdvance(loc[D].seq) PROVE PutInv'
  BY <1>2, <1>3, <1>5, AdvanceKeeps, Zenon
<1>6. ASSUME End(D) PROVE PutInv'
  BY <1>1, <1>2, <1>6, EndKeeps, Zenon
<1>7. ASSUME i \in DOMAIN deliveries, deliveries[i].status \in Open,
             loc' = [loc EXCEPT ![D].rec = deliveries[i]], Goto(D, "put")
      PROVE  PutInv'
  <2>1. PICK l : l = [loc[D] EXCEPT !.rec = deliveries[i]]
    BY Zenon
  <2>2. loc' = [loc EXCEPT ![D] = l] /\ pc' = [pc EXCEPT ![D] = "put"]
    BY <1>7, <2>1, Zenon DEF Goto
  <2>3. Record(deliveries[i])
    BY <1>7, Zenon DEF PutInv, StateOK
  <2>4. Locals(l) /\ l.id = i /\ l.rec.status \in Open
    BY <1>3, <1>7, <2>1, <2>3, SMTT(30) DEF Locals
  <2>5. Moved(D) /\ pc'[D] = "put" /\ loc'[D] = l
    BY <1>1, <2>2, Zenon DEF PutInv, StateOK, Moved
  <2>6. Locals(loc[D])' /\ HolderOK(D)'
    BY <2>4, <2>5, Zenon DEF Locals, Record, HolderOK
  <2>7. DispatcherOK'
    BY <1>2, <1>7, <2>4, <2>5, Zenon DEF DispatcherOK, WasOpen
  <2>8. ASSUME NEW r \in Requests, pc[r] \in {"put", "putting"} PROVE loc'[D].id # loc[r].id
    BY <1>1, <2>4, <2>5, <2>8, Zenon DEF PutInv, RequestOK, Own
  <2> QED
    BY <1>1, <1>2, <2>5, <2>6, <2>7, <2>8, ActorMoves, Zenon
<1> QED
  BY <1>4, <1>5, <1>6, <1>7, Zenon DEF FindRecord

\* The reads of put_webhook_delivery, under the lock.
LEMMA PutReadKeeps ==
  ASSUME PutInv, NEW a \in Actors, PutRead(a)
  PROVE  PutInv'
<1>1. /\ UNCHANGED <<cursor, deliveries, index, backlog, attempts>>
      /\ cursor \in 0..LastEvent /\ DOMAIN attempts = Events
      /\ pc[a] \in {"put", "record"} /\ mutation = Nobody /\ \A b \in Actors : mutation # b
  BY DeliveryConstants, Zenon DEF PutRead, durable, history, PutInv, StateOK
<1>2. CASE PutRefused(loc[a].id, loc[a].rec) \/ NewBacklog(loc[a].id, loc[a].rec) < 0
  BY <1>1, <1>2, EndKeeps, Zenon DEF PutRead
<1>3. CASE ~ (PutRefused(loc[a].id, loc[a].rec) \/ NewBacklog(loc[a].id, loc[a].rec) < 0)
  <2>1. PICK l : l = [loc[a] EXCEPT !.backlog = NewBacklog(loc[a].id, loc[a].rec)]
    BY Zenon
  <2>2. PICK at : at = IF pc[a] = "put" THEN "putting" ELSE "recording"
    BY Zenon
  <2>3. loc' = [loc EXCEPT ![a] = l] /\ pc' = [pc EXCEPT ![a] = at] /\ mutation' = a
    BY <1>3, <2>1, <2>2, Zenon DEF PutRead, Goto
  <2>4. Locals(loc[a])
    BY Zenon DEF PutInv, StateOK
  <2>5. /\ Locals(l) /\ l.id = loc[a].id /\ l.rec = loc[a].rec
        /\ l.backlog = NewBacklog(loc[a].id, loc[a].rec)
    BY <2>1, <2>4, SMTT(30) DEF Locals
  <2>6. Moved(a) /\ pc'[a] = at /\ loc'[a] = l
    BY <2>3, Zenon DEF PutInv, StateOK, Moved
  <2>7. Locals(loc[a])'
    BY <2>5, <2>6, Zenon DEF Locals, Record
  <2>8. HolderOK(a)'
    <3>1. \A i, d : NewBacklog(i, d)' = NewBacklog(i, d)
      BY <1>1, Zenon DEF NewBacklog, WasOpen
    <3> QED
      BY <2>3, <2>5, <2>6, <3>1, Zenon DEF HolderOK
  <2>9. ASSUME a \in Requests PROVE RequestOK(a)'
    <3>1. RequestOK(a) /\ pc[a] = "put" /\ at = "putting"
      BY <1>1, <2>2, <2>9, Zenon DEF PutInv, RequestOK
    <3>2. Own(loc[a].id, a) /\ loc[a].rec.status \in Terminal
      BY <3>1, Zenon DEF RequestOK
    <3>3. Own(loc[a].id, a)'
      BY <1>1, <2>5, <2>6, <3>2, Zenon DEF Own, Moved
    <3> QED
      BY <2>5, <2>6, <3>1, <3>2, <3>3, Zenon DEF RequestOK
  <2>10. ASSUME a = Dispatcher PROVE DispatcherOK'
    <3>1. CASE pc[a] = "put"
      BY <1>1, <2>2, <2>5, <2>6, <2>10, <3>1, Zenon DEF PutInv, DispatcherOK, WasOpen
    <3>2. CASE pc[a] = "record"
      BY <1>1, <2>2, <2>5, <2>6, <2>10, <3>2, Zenon DEF PutInv, DispatcherOK, WasOpen
    <3> QED
      BY <1>1, <3>1, <3>2, Zenon
  <2>11. ASSUME NEW r \in Requests, r # a, pc[r] \in {"put", "putting"} PROVE loc'[a].id # loc[r].id
    BY <2>5, <2>6, <2>11, Zenon DEF PutInv, RequestOK, Own
  <2> QED
    BY <1>1, <2>6, <2>7, <2>8, <2>9, <2>10, <2>11, ActorMoves, Zenon
<1> QED
  BY <1>2, <1>3, Zenon

\* The attempt.
LEMMA Attempted ==
  ASSUME NEW d, Record(d), NEW answer, NEW e,
         e = IF answer = "accepted"
             THEN [[d EXCEPT !.attempts = @ + 1] EXCEPT !.status = "succeeded", !.wait = 0]
             ELSE schedule_or_fail([d EXCEPT !.attempts = @ + 1], answer = "retryable")
  PROVE  /\ Record(e) /\ e.seq = d.seq /\ e.attempts = d.attempts + 1
         /\ e.status \in Open => answer = "retryable" /\ e.attempts < MaxAttempts
         /\ e.status \in Terminal => answer # "retryable" \/ e.attempts >= MaxAttempts
<1>1. PICK f : f = [d EXCEPT !.attempts = @ + 1]
  BY Zenon
<1>2. Record(f) /\ f.seq = d.seq /\ f.attempts = d.attempts + 1
  BY <1>1, SMTT(30) DEF Record
<1>3. e = IF answer = "accepted" THEN [f EXCEPT !.status = "succeeded", !.wait = 0]
          ELSE schedule_or_fail(f, answer = "retryable")
  BY <1>1, Zenon
<1>4. CASE answer = "accepted"
  BY <1>2, <1>3, <1>4, SMTT(30) DEF Record, Open, Terminal
<1>5. CASE answer # "accepted" /\ answer = "retryable" /\ f.attempts < MaxAttempts
  <2>1. PICK w : w = 2^(f.attempts - 1)
    BY Zenon
  <2>2. e = [f EXCEPT !.status = "retrying", !.wait = w]
    BY <1>3, <1>5, <2>1, Zenon DEF schedule_or_fail
  <2>3. DOMAIN e = DOMAIN f /\ e.status = "retrying" /\ e.seq = f.seq /\ e.attempts = f.attempts
    <3>1. DOMAIN f = {"seq", "status", "attempts", "wait", "age"}
      BY <1>2, Zenon DEF Record
    <3> QED
      BY <2>2, <3>1
  <2> QED
    BY <1>2, <1>5, <2>3, Zenon DEF Record, Open, Terminal
<1>6. CASE answer # "accepted" /\ ~ (answer = "retryable" /\ f.attempts < MaxAttempts)
  <2>1. e = [f EXCEPT !.status = "failed", !.wait = 0]
    BY <1>3, <1>6, Zenon DEF schedule_or_fail
  <2>2. DOMAIN e = DOMAIN f /\ e.status = "failed" /\ e.seq = f.seq /\ e.attempts = f.attempts
    <3>1. DOMAIN f = {"seq", "status", "attempts", "wait", "age"}
      BY <1>2, Zenon DEF Record
    <3> QED
      BY <2>1, <3>1
  <2>3. answer # "retryable" \/ f.attempts >= MaxAttempts
    <3>1. f.attempts \in Nat
      BY <1>2, Zenon DEF Record
    <3> QED
      BY <1>6, <3>1, DeliveryConstants
  <2> QED
    BY <1>2, <1>6, <2>2, <2>3, Zenon DEF Record, Open, Terminal
<1> QED
  BY <1>4, <1>5, <1>6, Zenon

LEMMA SendStep ==
  ASSUME PutInv, Send
  PROVE  \E closes \in BOOLEAN :
           LET d == loc[Dispatcher].rec
               e == loc'[Dispatcher].rec
           IN  /\ Record(e) /\ e.seq = d.seq /\ e.attempts = d.attempts + 1
               /\ e.status \in Open => e.attempts < MaxAttempts
               /\ e.status \in Terminal => closes \/ e.attempts >= MaxAttempts
               /\ Locals(loc[Dispatcher])'
               /\ loc'[Dispatcher].id = loc[Dispatcher].id /\ loc'[Dispatcher].seq = loc[Dispatcher].seq
               /\ attempts' = [attempts EXCEPT ![loc[Dispatcher].seq] = Ordered!Answered(@, closes)]
               /\ Moved(Dispatcher) /\ pc'[Dispatcher] = "record"
<1> DEFINE D == Dispatcher
<1>1. Dispatcher \in Actors
  BY Zenon DEF Actors
<1>2. Locals(loc[D]) /\ Record(loc[D].rec)
  BY <1>1, Zenon DEF PutInv, StateOK, Locals
<1>3. PICK answer \in {"accepted", "retryable", "refused"} :
        LET l == loc[D]
            d == [l.rec EXCEPT !.attempts = @ + 1]
            e == IF answer = "accepted" THEN [d EXCEPT !.status = "succeeded", !.wait = 0]
                 ELSE schedule_or_fail(d, answer = "retryable")
            h == CASE e.status = "failed" -> "failing"
                   [] e.status = "succeeded" /\ l.hook = "failing" -> "active"
                   [] OTHER -> l.hook
        IN  /\ loc' = [loc EXCEPT ![D].rec = e, ![D].hook = h]
            /\ attempts' = [attempts EXCEPT ![l.seq] = Ordered!Answered(@, answer # "retryable")]
  BY Zenon DEF Send
<1>4. PICK d : d = loc[D].rec
  BY Zenon
<1>5. PICK e : e = IF answer = "accepted"
                   THEN [[d EXCEPT !.attempts = @ + 1] EXCEPT !.status = "succeeded", !.wait = 0]
                   ELSE schedule_or_fail([d EXCEPT !.attempts = @ + 1], answer = "retryable")
  BY Zenon
<1>6. PICK h : h = CASE e.status = "failed" -> "failing"
                     [] e.status = "succeeded" /\ loc[D].hook = "failing" -> "active"
                     [] OTHER -> loc[D].hook
  BY Zenon
<1>7. loc' = [loc EXCEPT ![D].rec = e, ![D].hook = h]
  BY <1>3, <1>4, <1>5, <1>6, Zenon
<1>8. PICK closes \in BOOLEAN : closes <=> answer # "retryable"
  BY Zenon
<1>9. attempts' = [attempts EXCEPT ![loc[D].seq] = Ordered!Answered(@, closes)]
  <2>1. attempts' = [attempts EXCEPT ![loc[D].seq] = Ordered!Answered(@, answer # "retryable")]
    BY <1>3, Zenon
  <2>2. \A x : Ordered!Answered(x, answer # "retryable") = Ordered!Answered(x, closes)
    BY <1>8, Zenon DEF Ordered!Answered
  <2> QED
    BY <2>1, <2>2, Zenon
<1>10. /\ Record(e) /\ e.seq = d.seq /\ e.attempts = d.attempts + 1
       /\ e.status \in Open => e.attempts < MaxAttempts
       /\ e.status \in Terminal => closes \/ e.attempts >= MaxAttempts
  <2>1. Record(d)
    BY <1>2, <1>4, Zenon
  <2>2. /\ Record(e) /\ e.seq = d.seq /\ e.attempts = d.attempts + 1
        /\ e.status \in Open => answer = "retryable" /\ e.attempts < MaxAttempts
        /\ e.status \in Terminal => answer # "retryable" \/ e.attempts >= MaxAttempts
    BY <1>5, <2>1, Attempted, Zenon
  <2> QED
    BY <1>8, <2>2, Zenon
<1>11. PICK l : l = [loc[D] EXCEPT !.rec = e, !.hook = h]
  BY Zenon
<1>12. loc' = [loc EXCEPT ![D] = l] /\ pc' = [pc EXCEPT ![D] = "record"]
  BY <1>7, <1>11, Zenon DEF Send, Goto
<1>13. Locals(l) /\ l.id = loc[D].id /\ l.rec = e /\ l.seq = loc[D].seq
  BY <1>2, <1>10, <1>11, SMTT(30) DEF Locals
<1>14. Moved(D) /\ pc'[D] = "record" /\ loc'[D] = l
  BY <1>1, <1>12, Zenon DEF PutInv, StateOK, Moved
<1>15. Locals(loc[D])' /\ loc'[D].id = loc[D].id /\ loc'[D].seq = loc[D].seq /\ loc'[D].rec = e
  BY <1>13, <1>14, Zenon DEF Locals, Record
<1> QED
  BY <1>4, <1>9, <1>10, <1>14, <1>15, Zenon

LEMMA SendKeeps ==
  ASSUME PutInv, Send
  PROVE  PutInv'
<1> DEFINE D == Dispatcher
<1>1. D \in Actors /\ D \notin Requests
  BY DeliveryConstants, Zenon DEF Actors
<1>2. /\ UNCHANGED <<cursor, deliveries, index, backlog, mutation>>
      /\ cursor \in 0..LastEvent /\ DOMAIN attempts = Events /\ pc[D] = "send"
  BY Zenon DEF Send, durable, PutInv, StateOK
<1>3. /\ Locals(loc[D])' /\ loc'[D].id = loc[D].id /\ Moved(D) /\ pc'[D] = "record"
      /\ DOMAIN attempts' = Events
  BY <1>2, SendStep, Zenon
<1>4. DispatcherOK'
  BY <1>2, <1>3, Zenon DEF PutInv, DispatcherOK, WasOpen
<1>5. HolderOK(D)'
  BY <1>3, Zenon DEF HolderOK
<1>6. ASSUME NEW r \in Requests, pc[r] \in {"put", "putting"} PROVE loc'[D].id # loc[r].id
  BY <1>1, <1>3, <1>6, Zenon DEF PutInv, RequestOK, Own
<1> QED
  BY <1>1, <1>2, <1>3, <1>4, <1>5, <1>6, ActorMoves, Zenon

LEMMA UpdateRuntimeKeeps ==
  ASSUME PutInv, UpdateRuntime
  PROVE  PutInv'
<1>1. Dispatcher \in Actors
  BY Zenon DEF Actors
<1>2. /\ UNCHANGED <<cursor, deliveries, index, backlog, mutation, attempts>>
      /\ cursor \in 0..LastEvent /\ loc[Dispatcher].seq \in 0..LastEvent
  BY <1>1, Zenon DEF UpdateRuntime, history, PutInv, StateOK, Locals
<1> QED
  BY <1>1, <1>2, AdvanceKeeps, EndKeeps, Zenon DEF UpdateRuntime

LEMMA CursorKeeps ==
  ASSUME PutInv, Advance
  PROVE  PutInv'
<1>1. Dispatcher \in Actors
  BY Zenon DEF Actors
<1>2. UNCHANGED <<deliveries, index, backlog, mutation, attempts>> /\ cursor' \in 0..LastEvent
  BY <1>1, Zenon DEF Advance, history, PutInv, StateOK, Locals
<1> QED
  BY <1>1, <1>2, EndKeeps, Zenon DEF Advance

\* Requests begin, and read the destination.
LEMMA BeginKeeps ==
  ASSUME PutInv, NEW r \in Requests, NEW op, NEW s \in 0..LastEvent, Begin(r, op, s)
  PROVE  PutInv'
<1>1. r \in Actors /\ r # Dispatcher
  BY DeliveryConstants, Zenon DEF Actors
<1>2. UNCHANGED <<cursor, deliveries, index, backlog, mutation, attempts>> /\ cursor \in 0..LastEvent
  BY Zenon DEF Begin, durable, history, PutInv, StateOK
<1>3. Moved(r) /\ pc'[r] = "hook" /\ loc'[r] = [NoLocal EXCEPT !.op = op, !.seq = s]
  BY <1>1, Zenon DEF Begin, Goto, PutInv, StateOK, Moved
<1>4. Locals(loc[r])' /\ loc'[r].id = Nobody
  BY <1>3, Cleared, Zenon DEF Locals, Record
<1>5. /\ pc'[r] \notin {"put", "putting", "send", "record", "recording"}
      /\ pc'[r] \in {"idle", "hook", "direct", "change"}
  BY <1>3, Zenon
<1> QED
  BY <1>1, <1>2, <1>3, <1>4, <1>5, ActorRests, Zenon

LEMMA ReadHookKeeps ==
  ASSUME PutInv, NEW r \in Requests, ReadHook(r)
  PROVE  PutInv'
<1>1. r \in Actors /\ r # Dispatcher
  BY DeliveryConstants, Zenon DEF Actors
<1>2. UNCHANGED <<cursor, deliveries, index, backlog, mutation, attempts>> /\ cursor \in 0..LastEvent
  BY Zenon DEF ReadHook, durable, history, PutInv, StateOK
<1>3. CASE hook = "absent"
  BY <1>1, <1>2, <1>3, EndKeeps, Zenon DEF ReadHook
<1>4. CASE hook # "absent"
  <2>1. PICK h : loc' = [loc EXCEPT ![r].hook = h]
    BY <1>4, Zenon DEF ReadHook
  <2>2. PICK at \in {"direct", "change"} : pc' = [pc EXCEPT ![r] = at]
    BY <1>4, Zenon DEF ReadHook, Goto
  <2>3. PICK l : l = [loc[r] EXCEPT !.hook = h]
    BY Zenon
  <2>4. Locals(loc[r])
    BY <1>1, Zenon DEF PutInv, StateOK
  <2>5. Locals(l) /\ l.id = loc[r].id
    BY <2>3, <2>4, SMTT(30) DEF Locals
  <2>6. loc' = [loc EXCEPT ![r] = l]
    BY <2>1, <2>3, Zenon
  <2>7. Moved(r) /\ pc'[r] = at /\ loc'[r] = l
    BY <1>1, <2>2, <2>6, Zenon DEF PutInv, StateOK, Moved
  <2>8. Locals(loc[r])' /\ loc'[r].id = loc[r].id
    BY <2>5, <2>7, Zenon DEF Locals, Record
  <2> QED
    BY <1>1, <1>2, <2>2, <2>7, <2>8, ActorRests, SMTT(30)
<1> QED
  BY <1>3, <1>4, Zenon

\* send_direct: the delivery of a request is finished, and its id is its own.
LEMMA SendDirectKeeps ==
  ASSUME PutInv, NEW r \in Requests, SendDirect(r)
  PROVE  PutInv'
<1>1. r \in Actors /\ r # Dispatcher
  BY DeliveryConstants, Zenon DEF Actors
<1>2. /\ UNCHANGED <<cursor, deliveries, index, backlog, mutation>>
      /\ cursor \in 0..LastEvent /\ DOMAIN attempts = Events
  BY Zenon DEF SendDirect, durable, PutInv, StateOK
<1>3. PICK i \in FreshId, st \in Terminal :
        loc' = [loc EXCEPT ![r].id = i,
                           ![r].rec = [NewDelivery(loc[r].seq) EXCEPT !.attempts = 1, !.status = st]]
  BY Zenon DEF SendDirect, Terminal
<1>4. DOMAIN attempts' = Events
  BY <1>2, Zenon DEF SendDirect
<1>5. Locals(loc[r]) /\ loc[r].seq \in 0..LastEvent
  BY <1>1, Zenon DEF PutInv, StateOK, Locals
<1>6. PICK d : d = [NewDelivery(loc[r].seq) EXCEPT !.attempts = 1, !.status = st]
  BY Zenon
<1>7. Record(d) /\ d.status \in Terminal
  <2>1. Record(NewDelivery(loc[r].seq))
    BY <1>5, Cleared, Zenon
  <2> QED
    BY <1>6, <2>1, SMTT(30) DEF Record
<1>8. PICK l : l = [loc[r] EXCEPT !.id = i, !.rec = d]
  BY Zenon
<1>9. loc' = [loc EXCEPT ![r] = l] /\ pc' = [pc EXCEPT ![r] = "put"]
  BY <1>3, <1>6, <1>8, Zenon DEF SendDirect, Goto
<1>10. Locals(l) /\ l.id = i /\ l.rec = d
  BY <1>5, <1>7, <1>8, SMTT(30) DEF Locals
<1>11. Moved(r) /\ pc'[r] = "put" /\ loc'[r] = l
  BY <1>1, <1>9, Zenon DEF PutInv, StateOK, Moved
<1>12. Locals(loc[r])' /\ HolderOK(r)'
  BY <1>10, <1>11, Zenon DEF Locals, Record, HolderOK
<1>13. Own(i, r)'
  BY <1>2, <1>11, FreshIsNew, Zenon DEF Own, Moved
<1>14. RequestOK(r)'
  BY <1>7, <1>10, <1>11, <1>13, Zenon DEF RequestOK
<1>15. ASSUME NEW q \in Requests PROVE loc'[r].id # loc[q].id
  BY <1>10, <1>11, FreshIsNew, Zenon DEF Actors
<1> QED
  BY <1>1, <1>2, <1>4, <1>11, <1>12, <1>14, <1>15, ActorMoves, Zenon

LEMMA ChangeHookKeeps ==
  ASSUME PutInv, NEW r \in Requests, ChangeHook(r)
  PROVE  PutInv'
<1>1. r \in Actors
  BY Zenon DEF Actors
<1>2. 0 \in 0..LastEvent
  BY DeliveryConstants
<1>3. UNCHANGED <<deliveries, index, backlog, mutation, attempts>> /\ cursor' \in 0..LastEvent
  BY <1>2, Zenon DEF ChangeHook, history, PutInv, StateOK
<1> QED
  BY <1>1, <1>3, EndKeeps, Zenon DEF ChangeHook

LEMMA FailKeeps ==
  ASSUME PutInv, NEW a \in Actors, Fail(a)
  PROVE  PutInv'
<1>1. UNCHANGED <<cursor, deliveries, index, backlog, attempts>> /\ cursor \in 0..LastEvent
  BY Zenon DEF Fail, durable, PutInv, StateOK
<1>2. \A b \in Actors : b # a /\ mutation = b => mutation' = b
  BY Zenon DEF Fail
<1> QED
  BY <1>1, <1>2, EndKeeps, Zenon DEF Fail

-----------------------------------------------------------------------------
(* Steps that change the deliveries. *)

OpenIds == {i \in DOMAIN deliveries : deliveries[i].status \in Open}

\* Nothing is put or pruned that is not finished: time passes, or retention prunes.
LEMMA OpenStays ==
  ASSUME PutInv, UNCHANGED <<cursor, backlog, mutation, pc, loc, attempts>>,
         DOMAIN deliveries' \subseteq DOMAIN deliveries,
         \A i \in DOMAIN deliveries' : Record(deliveries'[i]),
         \A i : WasOpen(i)' <=> WasOpen(i),
         DOMAIN index' = DOMAIN index, \A s \in DOMAIN index : index'[s] \in {index[s], Nobody}
  PROVE  PutInv'
<1>1. StateOK'
  <2>1. IsFiniteSet(DOMAIN deliveries')
    BY FS_Subset, Zenon DEF PutInv, StateOK
  <2> QED
    BY <2>1, Zenon DEF PutInv, StateOK, Locals, Record
<1>2. DispatcherOK'
  BY Zenon DEF PutInv, DispatcherOK
<1>3. BacklogIsExact'
  <2>1. OpenIds' = OpenIds
    BY Zenon DEF OpenIds, WasOpen
  <2> QED
    BY <2>1, Zenon DEF PutInv, BacklogIsExact, OpenIds
<1>4. ASSUME NEW r \in Requests PROVE RequestOK(r)'
  <2>1. RequestOK(r)
    BY Zenon DEF PutInv
  <2>2. ASSUME Own(loc[r].id, r) PROVE Own(loc[r].id, r)'
    BY <2>2, Zenon DEF Own
  <2> QED
    BY <2>1, <2>2, Zenon DEF RequestOK
<1>5. ASSUME NEW a \in Actors PROVE HolderOK(a)'
  <2>1. \A i, d : NewBacklog(i, d)' = NewBacklog(i, d)
    BY Zenon DEF NewBacklog
  <2> QED
    BY <2>1, Zenon DEF PutInv, HolderOK
<1> QED
  BY <1>1, <1>2, <1>3, <1>4, <1>5, Zenon DEF PutInv

LEMMA PruneKeeps ==
  ASSUME PutInv, PruneDeliveries
  PROVE  PutInv'
<1>1. PICK old \in SUBSET {i \in DOMAIN deliveries :
                             deliveries[i].status \in Terminal /\ deliveries[i].age > Retention} :
        /\ deliveries' = [i \in DOMAIN deliveries \ old |-> deliveries[i]]
        /\ index' = [s \in DOMAIN index |->
                       IF \E i \in old : deliveries[i].seq = s THEN Nobody ELSE index[s]]
  BY Zenon DEF PruneDeliveries
<1>2. DOMAIN deliveries' = DOMAIN deliveries \ old
  BY <1>1, Zenon
<1>3. \A i \in DOMAIN deliveries' : i \in DOMAIN deliveries /\ deliveries'[i] = deliveries[i]
  BY <1>1, Zenon
<1>4. ASSUME NEW i PROVE WasOpen(i)' <=> WasOpen(i)
  <2>1. ASSUME WasOpen(i) PROVE i \notin old
    BY <1>1, <2>1, Zenon DEF WasOpen, Open, Terminal
  <2> QED
    BY <1>2, <1>3, <2>1, Zenon DEF WasOpen
<1>5. \A i \in DOMAIN deliveries' : Record(deliveries'[i])
  BY <1>3, Zenon DEF PutInv, StateOK
<1>6. DOMAIN index' = DOMAIN index /\ \A s \in DOMAIN index : index'[s] \in {index[s], Nobody}
  BY <1>1, Zenon
<1>7. UNCHANGED <<cursor, backlog, mutation, pc, loc, attempts>>
  BY Zenon DEF PruneDeliveries, history
<1> QED
  BY <1>2, <1>4, <1>5, <1>6, <1>7, OpenStays, Zenon

LEMMA OlderIs ==
  ASSUME NEW d, Record(d)
  PROVE  /\ Record(Older(d)) /\ Older(d).status = d.status
         /\ Older(d).attempts = d.attempts /\ Older(d).seq = d.seq
<1>1. PICK x, y : x = (IF d.age > Retention THEN d.age ELSE d.age + 1) /\ y = (IF d.wait = 0 THEN 0 ELSE d.wait - 1)
  BY Zenon
<1>2. Older(d) = IF d.status \in Terminal THEN [d EXCEPT !.age = x] ELSE [d EXCEPT !.wait = y]
  BY <1>1, Zenon DEF Older
<1>3. CASE d.status \in Terminal
  <2>1. Older(d) = [d EXCEPT !.age = x]
    BY <1>2, <1>3, Zenon
  <2> QED
    BY <2>1, SMTT(30) DEF Record
<1>4. CASE d.status \notin Terminal
  <2>1. Older(d) = [d EXCEPT !.wait = y]
    BY <1>2, <1>4, Zenon
  <2> QED
    BY <2>1, SMTT(30) DEF Record
<1> QED
  BY <1>3, <1>4, Zenon

LEMMA TickKeeps ==
  ASSUME PutInv, Tick
  PROVE  PutInv'
<1>1. DOMAIN deliveries' = DOMAIN deliveries /\ \A i \in DOMAIN deliveries : deliveries'[i] = Older(deliveries[i])
  BY Zenon DEF Tick
<1>2. \A i \in DOMAIN deliveries : Record(deliveries'[i]) /\ deliveries'[i].status = deliveries[i].status
  BY <1>1, OlderIs, Zenon DEF PutInv, StateOK
<1>3. \A i : WasOpen(i)' <=> WasOpen(i)
  BY <1>1, <1>2, Zenon DEF WasOpen
<1>4. UNCHANGED <<cursor, index, backlog, mutation, pc, loc, attempts>>
  BY Zenon DEF Tick, history
<1>5. \A s \in DOMAIN index : index'[s] \in {index[s], Nobody}
  BY <1>4, Zenon
<1> QED
  BY <1>1, <1>2, <1>3, <1>4, <1>5, OpenStays, Zenon

\* What put_webhook_delivery makes of the backlog.
LEMMA BacklogCases ==
  ASSUME NEW i, NEW d, d.status \in Open \cup Terminal
  PROVE  NewBacklog(i, d) = IF d.status \in Open /\ ~ WasOpen(i) THEN backlog + 1
                            ELSE IF d.status \in Terminal /\ WasOpen(i) THEN backlog - 1
                            ELSE backlog
<1>1. ~ (d.status \in Open /\ d.status \in Terminal)
  BY Zenon DEF Open, Terminal
<1> QED
  BY <1>1 DEF NewBacklog

\* A finished delivery is never written again.
LEMMA PutsUnfinished ==
  ASSUME PutInv, NEW a \in Actors, pc[a] \in {"putting", "recording"}
  PROVE  loc[a].id \notin DOMAIN deliveries \/ WasOpen(loc[a].id)
<1>1. CASE a \in Requests
  <2>1. RequestOK(a)
    BY <1>1, Zenon DEF PutInv
  <2> QED
    BY <2>1, Zenon DEF RequestOK, Own
<1>2. CASE a = Dispatcher
  BY <1>2, Zenon DEF PutInv, DispatcherOK
<1> QED
  BY <1>1, <1>2, Zenon DEF Actors

\* The transaction: the backlog counts what it changes.
LEMMA PutCounts ==
  ASSUME PutInv, NEW a \in Actors, PutCommit(a)
  PROVE  BacklogIsExact'
<1> DEFINE i == loc[a].id
           d == loc[a].rec
<1>1. /\ pc[a] \in {"putting", "recording"} /\ backlog' = loc[a].backlog
      /\ deliveries' = [j \in DOMAIN deliveries \cup {i} |-> IF j = i THEN d ELSE deliveries[j]]
  BY Zenon DEF PutCommit
<1>2. /\ loc[a].backlog = NewBacklog(i, d) /\ Locals(loc[a]) /\ IsFiniteSet(DOMAIN deliveries)
      /\ backlog = Cardinality(OpenIds)
  BY <1>1, Zenon DEF PutInv, StateOK, HolderOK, BacklogIsExact, OpenIds
<1>3. d.status \in Open \cup Terminal
  BY <1>2, Zenon DEF Locals, Record
<1>4. backlog' = IF d.status \in Open /\ ~ WasOpen(i) THEN backlog + 1
                 ELSE IF d.status \in Terminal /\ WasOpen(i) THEN backlog - 1
                 ELSE backlog
  BY <1>1, <1>2, <1>3, BacklogCases, Zenon
<1>5. IsFiniteSet(OpenIds) /\ (i \in OpenIds <=> WasOpen(i))
  <2>1. OpenIds \subseteq DOMAIN deliveries
    BY Zenon DEF OpenIds
  <2> QED
    BY <1>2, <2>1, FS_Subset, Zenon DEF OpenIds, WasOpen
<1>6. Cardinality(OpenIds) \in Nat
  BY <1>5, FS_CardinalityType, Zenon
<1>7. CASE d.status \in Open
  <2>1. OpenIds' = OpenIds \cup {i}
    BY <1>1, <1>7, Zenon DEF OpenIds
  <2>2. Cardinality(OpenIds \cup {i}) = IF i \in OpenIds THEN Cardinality(OpenIds) ELSE Cardinality(OpenIds) + 1
    BY <1>5, FS_AddElement, Zenon
  <2>3. d.status \notin Terminal
    BY <1>7, Zenon DEF Open, Terminal
  <2>4. backlog' = Cardinality(OpenIds \cup {i})
    BY <1>2, <1>4, <1>5, <1>7, <2>2, <2>3, Zenon
  <2> QED
    BY <2>1, <2>4, Zenon DEF BacklogIsExact, OpenIds
<1>8. CASE d.status \in Terminal
  <2>1. d.status \notin Open
    BY <1>8, Zenon DEF Open, Terminal
  <2>2. OpenIds' = OpenIds \ {i}
    BY <1>1, <2>1, Zenon DEF OpenIds
  <2>3. Cardinality(OpenIds \ {i}) = IF i \in OpenIds THEN Cardinality(OpenIds) - 1 ELSE Cardinality(OpenIds)
    BY <1>5, FS_RemoveElement, Zenon
  <2>4. backlog' = Cardinality(OpenIds \ {i})
    BY <1>2, <1>4, <1>5, <1>8, <2>1, <2>3, Zenon
  <2> QED
    BY <2>2, <2>4, Zenon DEF BacklogIsExact, OpenIds
<1> QED
  BY <1>3, <1>7, <1>8, Zenon

LEMMA PutCommitKeeps ==
  ASSUME PutInv, NEW a \in Actors, PutCommit(a)
  PROVE  PutInv'
<1> DEFINE i == loc[a].id
           d == loc[a].rec
<1>1. /\ pc[a] \in {"putting", "recording"} /\ UNCHANGED <<cursor, attempts>>
      /\ deliveries' = [j \in DOMAIN deliveries \cup {i} |-> IF j = i THEN d ELSE deliveries[j]]
      /\ index' = [index EXCEPT ![d.seq] = i]
  BY Zenon DEF PutCommit, history
<1>2. Locals(loc[a]) /\ Record(d)
  BY Zenon DEF PutInv, StateOK, Locals
<1>3. Moved(a) /\ Locals(loc[a])' /\ loc'[a].id \in {Nobody, i}
  <2>1. CASE a # Dispatcher
    <3>1. End(a)
      BY <2>1, Zenon DEF PutCommit
    <3>2. Moved(a) /\ loc'[a] = NoLocal
      BY <3>1, Ended, Zenon
    <3> QED
      BY <3>2, Cleared, Zenon DEF Locals, Record
  <2>2. CASE a = Dispatcher
    <3>1. PICK l : l = [loc[a] EXCEPT !.backlog = 0]
      BY Zenon
    <3>2. PICK at : loc' = [loc EXCEPT ![a] = l] /\ pc' = [pc EXCEPT ![a] = at]
      BY <2>2, <3>1, Zenon DEF PutCommit, Goto
    <3>3. Locals(l) /\ l.id = i
      BY <1>2, <3>1, SMTT(30) DEF Locals
    <3> QED
      BY <3>2, <3>3, Zenon DEF Moved, PutInv, StateOK, Locals, Record
  <2> QED
    BY <2>1, <2>2, Zenon
<1>4. DOMAIN deliveries' = DOMAIN deliveries \cup {i} /\ deliveries'[i] = d
      /\ \A j \in DOMAIN deliveries : j # i => deliveries'[j] = deliveries[j]
  BY <1>1, Zenon
<1>5. StateOK'
  <2>1. IsFiniteSet(DOMAIN deliveries')
    <3>1. IsFiniteSet(DOMAIN deliveries)
      BY Zenon DEF PutInv, StateOK
    <3>2. IsFiniteSet(DOMAIN deliveries \cup {i})
      BY <3>1, FS_AddElement, Zenon
    <3> QED
      BY <1>4, <3>2, Zenon
  <2>2. \A j \in DOMAIN deliveries' : Record(deliveries'[j])
    BY <1>2, <1>4, Zenon DEF PutInv, StateOK
  <2>3. \A b \in Actors : Locals(loc[b])'
    BY <1>3, Zenon DEF PutInv, StateOK, Moved, Locals, Record
  <2>4. DOMAIN index' = 0..LastEvent
    BY <1>1, Zenon DEF PutInv, StateOK
  <2>5. DOMAIN pc' = Actors /\ DOMAIN loc' = Actors
    BY <1>3, Zenon DEF Moved
  <2> QED
    BY <1>1, <2>1, <2>2, <2>3, <2>4, <2>5, Zenon DEF PutInv, StateOK, Record
<1>6. ASSUME NEW b \in Actors, b # a PROVE pc[b] \notin {"putting", "recording"}
  BY <1>1, <1>6, Zenon DEF PutInv, HolderOK
<1>7. pc'[a] \notin {"put", "putting", "record", "recording"}
  BY Zenon DEF PutCommit, End, Goto, PutInv, StateOK
<1>8. ASSUME NEW b \in Actors PROVE HolderOK(b)'
  BY <1>3, <1>6, <1>7, Zenon DEF HolderOK, Moved
<1>9. ASSUME NEW r \in Requests PROVE RequestOK(r)'
  <2>1. CASE r = a
    BY <2>1, Ended, DeliveryConstants, Zenon DEF PutCommit, RequestOK
  <2>2. CASE r # a
    <3>1. r \in Actors /\ pc'[r] = pc[r] /\ loc'[r] = loc[r] /\ RequestOK(r)
      BY <1>3, <2>2, Zenon DEF Moved, Actors, PutInv
    <3>2. ASSUME pc[r] \in {"put", "putting"} PROVE Own(loc[r].id, r)'
      <4>1. Own(loc[r].id, r) /\ loc[r].id # i
        BY <2>2, <3>1, <3>2, Zenon DEF RequestOK, Own
      <4>2. \A s \in DOMAIN index' : index'[s] # loc[r].id
        BY <1>1, <4>1, Zenon DEF Own
      <4>3. loc[r].id \notin DOMAIN deliveries'
        BY <1>4, <4>1, Zenon DEF Own
      <4>4. \A b \in Actors \ {r} : loc'[b].id # loc[r].id
        BY <1>3, <4>1, Zenon DEF Own, Moved
      <4> QED
        BY <3>1, <4>1, <4>2, <4>3, <4>4, Zenon DEF Own
    <3> QED
      BY <3>1, <3>2, Zenon DEF RequestOK
  <2> QED
    BY <2>1, <2>2, Zenon
<1>10. DispatcherOK'
  <2>1. CASE a = Dispatcher
    <3>1. loc'[a].rec = d /\ loc'[a].id = i
      BY <1>2, <2>1, SMTT(30) DEF PutCommit, Locals, PutInv, StateOK
    <3>2. pc'[a] = IF pc[a] = "putting" THEN "send" ELSE "runtime"
      BY <2>1, Zenon DEF PutCommit, Goto, PutInv, StateOK
    <3>3. pc[a] = "putting" => d.status \in Open
      BY <2>1, Zenon DEF PutInv, DispatcherOK
    <3> QED
      BY <1>4, <2>1, <3>1, <3>2, <3>3, Zenon DEF DispatcherOK, WasOpen
  <2>2. CASE a # Dispatcher
    <3>1. a \in Requests
      BY <2>2, Zenon DEF Actors
    <3>2. Own(i, a)
      BY <1>1, <3>1, Zenon DEF PutInv, RequestOK
    <3>3. /\ pc'[Dispatcher] = pc[Dispatcher] /\ loc'[Dispatcher] = loc[Dispatcher]
          /\ loc[Dispatcher].id # i
      BY <1>3, <2>2, <3>2, Zenon DEF Moved, Actors, Own
    <3> QED
      BY <1>4, <3>3, Zenon DEF PutInv, DispatcherOK, WasOpen
  <2> QED
    BY <2>1, <2>2, Zenon
<1> QED
  BY <1>5, <1>8, <1>9, <1>10, PutCounts, Zenon DEF PutInv

LEMMA PutStart ==
  ASSUME Init
  PROVE  PutInv
<1>1. StateOK
  <2>1. 0 \in 0..LastEvent
    BY DeliveryConstants
  <2>2. DOMAIN deliveries = {} /\ IsFiniteSet({})
    BY FS_EmptySet, Zenon DEF Init
  <2> QED
    BY <2>1, <2>2, Cleared, Zenon DEF Init, StateOK
<1>2. \A a \in Actors : pc[a] = "idle"
  BY Zenon DEF Init
<1>3. DispatcherOK
  BY <1>2, Zenon DEF DispatcherOK, Actors
<1>4. BacklogIsExact
  <2>1. {i \in DOMAIN deliveries : deliveries[i].status \in Open} = {}
    BY Zenon DEF Init
  <2> QED
    BY <2>1, FS_EmptySet, Zenon DEF Init, BacklogIsExact
<1>5. \A r \in Requests : RequestOK(r)
  BY <1>2, Zenon DEF RequestOK, Actors
<1>6. \A a \in Actors : HolderOK(a)
  BY <1>2, Zenon DEF HolderOK
<1> QED
  BY <1>1, <1>3, <1>4, <1>5, <1>6, Zenon DEF PutInv

LEMMA PutStep ==
  ASSUME PutInv, [Next]_vars
  PROVE  PutInv'
<1>1. CASE UNCHANGED vars
  BY <1>1, SMTT(30) DEF vars, durable, history, PutInv, StateOK, Locals, Record, DispatcherOK,
     BacklogIsExact, RequestOK, Own, HolderOK, NewBacklog, WasOpen
<1>2. CASE Dispatch
  <2>1. Dispatcher \in Actors
    BY Zenon DEF Actors
  <2> QED
    BY <1>2, <2>1, DispatchOnceKeeps, ReadCursorKeeps, FindIndexKeeps, FindRecordKeeps, PutReadKeeps,
       PutCommitKeeps, SendKeeps, UpdateRuntimeKeeps, CursorKeeps, Zenon DEF Dispatch
<1>3. ASSUME NEW r \in Requests, BeginReplay(r) PROVE PutInv'
  <2>1. PICK i \in DOMAIN deliveries : Begin(r, "replay", deliveries[i].seq)
    BY <1>3, Zenon DEF BeginReplay
  <2>2. deliveries[i].seq \in 0..LastEvent
    BY Zenon DEF PutInv, StateOK, Record
  <2> QED
    BY <2>1, <2>2, BeginKeeps, Zenon
<1>4. ASSUME NEW r \in Requests, BeginOther(r) PROVE PutInv'
  <2>1. 0 \in 0..LastEvent
    BY DeliveryConstants
  <2> QED
    BY <1>4, <2>1, BeginKeeps, Zenon DEF BeginOther
<1>5. ASSUME NEW r \in Requests, Handle(r) PROVE PutInv'
  <2>1. r \in Actors
    BY Zenon DEF Actors
  <2> QED
    BY <1>5, <2>1, ReadHookKeeps, SendDirectKeeps, PutReadKeeps, PutCommitKeeps, ChangeHookKeeps, Zenon DEF Handle
<1> QED
  BY <1>1, <1>2, <1>3, <1>4, <1>5, PruneKeeps, TickKeeps, FailKeeps, Zenon DEF Next

\* The stored backlog is the number of unfinished deliveries, for any requests, events and
\* ids: put_webhook_delivery reads and counts under the lock, by whose holder alone
\* deliveries are finished, begun and pruned.
THEOREM BacklogStaysExact == Spec => []BacklogIsExact
<1>1. Init => PutInv
  BY PutStart
<1>2. PutInv /\ [Next]_vars => PutInv'
  BY PutStep
<1>3. PutInv => BacklogIsExact
  BY DEF PutInv
<1> QED
  BY <1>1, <1>2, <1>3, PTL DEF Spec

\* A finished delivery keeps its outcome until it is pruned: no two actors ever put one id,
\* and the dispatcher takes up only what is not finished, so the refusal of
\* put_webhook_delivery is never needed.
THEOREM FinishedIsFinal == Spec => TerminalIsFinal
<1> DEFINE Kept == \A i \in DOMAIN deliveries \cap DOMAIN deliveries' :
                     deliveries[i].status \in Terminal =>
                       /\ deliveries'[i].status = deliveries[i].status
                       /\ deliveries'[i].attempts = deliveries[i].attempts
<1>1. Init => PutInv
  BY PutStart
<1>2. PutInv /\ [Next]_vars => PutInv'
  BY PutStep
<1>3. ASSUME PutInv, [Next]_vars PROVE [Kept]_vars
  <2>1. CASE UNCHANGED deliveries
    BY <2>1, Zenon
  <2>2. ASSUME NEW a \in Actors, PutCommit(a) PROVE Kept
    <3>1. pc[a] \in {"putting", "recording"}
      BY <2>2, Zenon DEF PutCommit
    <3>2. loc[a].id \notin DOMAIN deliveries \/ WasOpen(loc[a].id)
      BY <1>3, <3>1, PutsUnfinished, Zenon
    <3>3. \A i \in DOMAIN deliveries : i # loc[a].id => deliveries'[i] = deliveries[i]
      BY <2>2, Zenon DEF PutCommit
    <3> QED
      BY <3>2, <3>3, Zenon DEF WasOpen, Open, Terminal
  <2>3. CASE PruneDeliveries
    BY <2>3, Zenon DEF PruneDeliveries
  <2>4. CASE Tick
    <3>1. \A i \in DOMAIN deliveries : deliveries'[i] = Older(deliveries[i]) /\ Record(deliveries[i])
      BY <1>3, <2>4, Zenon DEF Tick, PutInv, StateOK
    <3> QED
      BY <3>1, OlderIs, Zenon
  <2>5. CASE Dispatch
    BY <2>1, <2>2, <2>5, Zenon DEF Dispatch, DispatchOnce, ReadCursor, FindIndex, FindRecord, PutRead, Send,
       UpdateRuntime, Advance, durable, Actors
  <2>6. ASSUME NEW r \in Requests, BeginReplay(r) \/ BeginOther(r) \/ Handle(r) PROVE [Kept]_vars
    BY <2>1, <2>2, <2>6, Zenon DEF BeginReplay, BeginOther, Begin, Handle, ReadHook, SendDirect, PutRead,
       ChangeHook, durable, Actors
  <2>7. ASSUME NEW a \in Actors, Fail(a) PROVE [Kept]_vars
    BY <2>1, <2>7, Zenon DEF Fail, durable
  <2>8. CASE UNCHANGED vars
    BY <2>8, Zenon
  <2> QED
    BY <1>3, <2>3, <2>4, <2>5, <2>6, <2>7, <2>8, Zenon DEF Next
<1>4. QED
  BY <1>1, <1>2, <1>3, PTL DEF Spec, TerminalIsFinal

-----------------------------------------------------------------------------
(***************************************************************************)
(* The refinement, when requests only update the destination.  A delivery  *)
(* never claims more attempts than its event had, and is finished only     *)
(* when its event is over; the dispatcher has the event after the cursor.  *)
(***************************************************************************)

Over(s) == Ordered!Over(attempts[s])

Counted(d) ==
  /\ d.seq \in Deliverable
  /\ d.status \in Open => d.attempts <= attempts[d.seq].tries
  /\ d.status \in Terminal => Over(d.seq)

AttemptsOK == \A s \in Events : attempts[s].tries \in Nat /\ attempts[s].closed \in BOOLEAN

RequestsUpdate ==
  \A r \in Requests : /\ pc[r] \in {"idle", "hook", "change"}
                      /\ pc[r] # "idle" => loc[r].op = "update"

DeliveriesCount ==
  /\ Nobody \notin DOMAIN deliveries
  /\ \A i \in DOMAIN deliveries : Counted(deliveries[i])
  /\ \A s \in DOMAIN index : index[s] # Nobody =>
       index[s] \in DOMAIN deliveries /\ deliveries[index[s]].seq = s

Holding == {"put", "putting", "send", "record", "recording", "runtime"}

InOrder ==
  LET at == pc[Dispatcher]
      l  == loc[Dispatcher]
  IN  /\ at \in {"index", "find"} \cup Holding => l.seq = cursor + 1 /\ l.seq \in Deliverable
      /\ at \in {"find"} \cup Holding =>
           (l.id \in DOMAIN deliveries => deliveries[l.id].seq = l.seq)
      /\ at \in Holding => l.id # Nobody /\ l.rec.seq = l.seq /\ Counted(l.rec)
      /\ at = "advance" =>
           l.seq = cursor + 1 /\ l.seq \in Events /\ (l.seq \in Deliverable => Over(l.seq))

OrderInv ==
  PutInv /\ AttemptsOK /\ RequestsUpdate /\ DeliveriesCount /\ InOrder /\ NoEventSkipped

\* One more attempt never takes back that an event is over.
LEMMA OneMore ==
  ASSUME NEW x, x.tries \in Nat, x.closed \in BOOLEAN, NEW closes \in BOOLEAN,
         NEW y, y = Ordered!Answered(x, closes)
  PROVE  /\ y.tries \in Nat /\ y.closed \in BOOLEAN /\ x.tries <= y.tries
         /\ Ordered!Over(x) => Ordered!Over(y)
         /\ closes => Ordered!Over(y)
         /\ y.tries = x.tries + 1 \/ MaxAttempts <= y.tries
BY DeliveryConstants, SMTT(30) DEF Ordered!Answered, Ordered!Over

\* Steps of requests: only the destination changes.
LEMMA RequestOrder ==
  ASSUME OrderInv, PutInv', OnlyUpdates, NEW r \in Requests, Moved(r),
         UNCHANGED <<cursor, deliveries, index, attempts>>,
         pc'[r] \in {"idle", "hook", "change"}
  PROVE  OrderInv'
<1>1. pc'[Dispatcher] = pc[Dispatcher] /\ loc'[Dispatcher] = loc[Dispatcher]
  BY DeliveryConstants, Zenon DEF Moved, Actors
<1>2. InOrder'
  BY <1>1, Zenon DEF OrderInv, InOrder, Counted, Over
<1>3. RequestsUpdate'
  BY Zenon DEF OrderInv, RequestsUpdate, OnlyUpdates, Moved, Actors
<1>4. AttemptsOK' /\ DeliveriesCount' /\ NoEventSkipped'
  BY Zenon DEF OrderInv, AttemptsOK, DeliveriesCount, Counted, Over, NoEventSkipped
<1> QED
  BY <1>2, <1>3, <1>4, Zenon DEF OrderInv

\* Steps of the dispatcher that neither store nor attempt anything.
LEMMA DispatcherOrder ==
  ASSUME OrderInv, PutInv', Moved(Dispatcher), UNCHANGED <<cursor, deliveries, index, attempts>>, InOrder'
  PROVE  OrderInv'
<1>1. RequestsUpdate'
  BY DeliveryConstants, Zenon DEF OrderInv, RequestsUpdate, Moved, Actors
<1>2. AttemptsOK' /\ DeliveriesCount' /\ NoEventSkipped'
  BY Zenon DEF OrderInv, AttemptsOK, DeliveriesCount, Counted, Over, NoEventSkipped
<1> QED
  BY <1>1, <1>2, Zenon DEF OrderInv

LEMMA EndOrder ==
  ASSUME OrderInv, PutInv', OnlyUpdates, NEW a \in Actors, End(a), UNCHANGED <<cursor, deliveries, index, attempts>>
  PROVE  OrderInv'
<1>1. Moved(a) /\ pc'[a] = "idle"
  BY Ended, Zenon DEF OrderInv
<1>2. CASE a \in Requests
  BY <1>1, <1>2, RequestOrder, Zenon
<1>3. CASE a = Dispatcher
  <2>1. InOrder'
    BY <1>1, <1>3, Zenon DEF InOrder, Holding
  <2> QED
    BY <1>1, <1>3, <2>1, DispatcherOrder, Zenon
<1> QED
  BY <1>2, <1>3, Zenon DEF Actors

LEMMA ToAdvanceOrder ==
  ASSUME OrderInv, PutInv', NEW s \in Events, s = cursor + 1, s \in Deliverable => Over(s),
         ToAdvance(s), UNCHANGED <<cursor, deliveries, index, attempts>>
  PROVE  OrderInv'
<1>1. s \in 0..LastEvent
  BY DeliveryConstants DEF Events
<1>2. /\ Moved(Dispatcher) /\ pc'[Dispatcher] = "advance" /\ loc'[Dispatcher].seq = s
  <2>1. PutInv
    BY Zenon DEF OrderInv
  <2>2. /\ Moved(Dispatcher) /\ pc'[Dispatcher] = "advance"
        /\ loc'[Dispatcher] = [NoLocal EXCEPT !.seq = s]
    BY <2>1, Advancing, Zenon
  <2>3. [NoLocal EXCEPT !.seq = s].seq = s
    BY <1>1, Cleared, Zenon
  <2> QED
    BY <2>2, <2>3, Zenon
<1>3. InOrder'
  BY <1>2, Zenon DEF InOrder, Holding, Over
<1> QED
  BY <1>2, <1>3, DispatcherOrder, Zenon

\* The dispatcher goes on with the same event.
LEMMA GoesOn ==
  ASSUME OrderInv, PutInv', Moved(Dispatcher), UNCHANGED <<cursor, deliveries, index, attempts>>,
         pc[Dispatcher] \in Holding, pc'[Dispatcher] \in Holding,
         loc'[Dispatcher].seq = loc[Dispatcher].seq, loc'[Dispatcher].id = loc[Dispatcher].id,
         loc'[Dispatcher].rec = loc[Dispatcher].rec
  PROVE  OrderInv'
<1>1. InOrder'
  BY Zenon DEF OrderInv, InOrder, Holding, Counted, Over
<1> QED
  BY <1>1, DispatcherOrder, Zenon

LEMMA DispatchOnceOrder ==
  ASSUME OrderInv, PutInv', DispatchOnce
  PROVE  OrderInv'
<1>1. Moved(Dispatcher) /\ pc'[Dispatcher] = "cursor"
  BY Zenon DEF DispatchOnce, Goto, OrderInv, PutInv, StateOK, Moved, Actors
<1>2. InOrder'
  BY <1>1, Zenon DEF InOrder, Holding
<1> QED
  BY <1>1, <1>2, DispatcherOrder, Zenon DEF DispatchOnce, durable, history

LEMMA ReadCursorOrder ==
  ASSUME OrderInv, PutInv', OnlyUpdates, ReadCursor
  PROVE  OrderInv'
<1> DEFINE D == Dispatcher
<1>1. D \in Actors /\ UNCHANGED <<cursor, deliveries, index, attempts>> /\ cursor \in 0..LastEvent
  BY Zenon DEF ReadCursor, durable, history, OrderInv, PutInv, StateOK, Actors
<1>2. cursor # LastEvent => cursor + 1 \in Events
  BY <1>1, DeliveryConstants DEF Events
<1>3. CASE cursor = LastEvent
  BY <1>1, <1>3, EndOrder, Zenon DEF ReadCursor
<1>4. CASE cursor # LastEvent /\ cursor + 1 \notin Deliverable
  BY <1>1, <1>2, <1>4, ToAdvanceOrder, Zenon DEF ReadCursor
<1>5. CASE cursor # LastEvent /\ cursor + 1 \in Deliverable
  <2>1. /\ loc' = [loc EXCEPT ![D] = [loc[D] EXCEPT !.seq = cursor + 1]]
        /\ pc' = [pc EXCEPT ![D] = "index"]
    BY <1>5, Zenon DEF ReadCursor, Goto
  <2>2. Locals(loc[D])
    BY <1>1, Zenon DEF OrderInv, PutInv, StateOK
  <2>3. Moved(D) /\ pc'[D] = "index" /\ loc'[D].seq = cursor + 1
    BY <1>1, <2>1, <2>2, SMTT(30) DEF OrderInv, PutInv, StateOK, Moved, Locals
  <2>4. InOrder'
    BY <1>1, <1>5, <2>3, Zenon DEF InOrder, Holding
  <2> QED
    BY <1>1, <2>3, <2>4, DispatcherOrder, Zenon
<1> QED
  BY <1>3, <1>4, <1>5, Zenon

LEMMA FindIndexOrder ==
  ASSUME OrderInv, PutInv', FindIndex
  PROVE  OrderInv'
<1> DEFINE D == Dispatcher
<1>1. D \in Actors /\ UNCHANGED <<cursor, deliveries, index, attempts>> /\ pc[D] = "index"
  BY Zenon DEF FindIndex, durable, history, Actors
<1>2. Locals(loc[D]) /\ loc[D].seq \in DOMAIN index
  BY <1>1, Zenon DEF OrderInv, PutInv, StateOK, Locals
<1>3. /\ loc' = [loc EXCEPT ![D] = [loc[D] EXCEPT !.id = index[loc[D].seq]]]
      /\ pc' = [pc EXCEPT ![D] = "find"]
  BY Zenon DEF FindIndex, Goto
<1>4. /\ Moved(D) /\ pc'[D] = "find" /\ loc'[D].seq = loc[D].seq
      /\ loc'[D].id = index[loc[D].seq]
  BY <1>1, <1>2, <1>3, SMTT(30) DEF OrderInv, PutInv, StateOK, Moved, Locals
<1>5. InOrder'
  BY <1>1, <1>2, <1>4, Zenon DEF OrderInv, InOrder, Holding, DeliveriesCount
<1> QED
  BY <1>1, <1>4, <1>5, DispatcherOrder, Zenon

LEMMA FindRecordOrder ==
  ASSUME OrderInv, PutInv', OnlyUpdates, FindRecord
  PROVE  OrderInv'
<1> DEFINE D == Dispatcher
           i == loc[D].id
           s == loc[D].seq
<1>1. D \in Actors /\ UNCHANGED <<cursor, deliveries, index, attempts>> /\ pc[D] = "find"
  BY Zenon DEF FindRecord, durable, history, Actors
<1>2. Locals(loc[D]) /\ s \in 0..LastEvent
  BY <1>1, Zenon DEF OrderInv, PutInv, StateOK, Locals
<1>3. /\ s = cursor + 1 /\ s \in Deliverable /\ s \in Events
      /\ i \in DOMAIN deliveries => deliveries[i].seq = s /\ Counted(deliveries[i]) /\ i # Nobody
  BY <1>1, DeliveryConstants, Zenon DEF OrderInv, InOrder, DeliveriesCount, Events
<1>4. ASSUME NEW n \in FreshId, loc' = [loc EXCEPT ![D].id = n, ![D].rec = NewDelivery(s)],
             Goto(D, "put")
      PROVE  OrderInv'
  <2>1. n # Nobody /\ n \notin DOMAIN deliveries
    BY FreshIsNew, Zenon DEF OrderInv
  <2>2. PICK d : d = NewDelivery(s)
    BY Zenon
  <2>3. d.seq = s /\ d.status \in Open /\ d.attempts = 0
    BY <1>2, <2>2, Cleared, Zenon DEF Open
  <2>4. loc'[D].id = n /\ loc'[D].rec = d /\ loc'[D].seq = s
    BY <1>1, <1>2, <1>4, <2>2, SMTT(30) DEF OrderInv, PutInv, StateOK, Locals
  <2>5. Moved(D) /\ pc'[D] = "put"
    BY <1>1, <1>4, SMTT(30) DEF OrderInv, PutInv, StateOK, Moved, Goto
  <2>6. Counted(d)
    <3>1. attempts[s].tries \in Nat
      BY <1>3, Zenon DEF OrderInv, AttemptsOK
    <3>2. d.attempts <= attempts[s].tries
      BY <2>3, <3>1
    <3> QED
      BY <1>3, <2>3, <3>2, Zenon DEF Counted, Open, Terminal
  <2>7. InOrder'
    BY <1>1, <1>3, <2>1, <2>3, <2>4, <2>5, <2>6, Zenon DEF InOrder, Holding, Counted, Over
  <2> QED
    BY <1>1, <2>5, <2>7, DispatcherOrder, Zenon
<1>5. ASSUME i \in DOMAIN deliveries, deliveries[i].status \in Terminal, ToAdvance(s) PROVE OrderInv'
  <2>1. Over(s)
    BY <1>3, <1>5, Zenon DEF Counted
  <2> QED
    BY <1>1, <1>3, <1>5, <2>1, ToAdvanceOrder, Zenon
<1>6. ASSUME End(D) PROVE OrderInv'
  BY <1>1, <1>6, EndOrder, Zenon
<1>7. ASSUME i \in DOMAIN deliveries, loc' = [loc EXCEPT ![D].rec = deliveries[i]], Goto(D, "put")
      PROVE  OrderInv'
  <2>1. PICK d : d = deliveries[i]
    BY Zenon
  <2>2. loc' = [loc EXCEPT ![D] = [loc[D] EXCEPT !.rec = d]]
    BY <1>7, <2>1, Zenon
  <2>3. loc'[D].id = i /\ loc'[D].rec = d /\ loc'[D].seq = s
    BY <1>1, <1>2, <2>2, SMTT(30) DEF OrderInv, PutInv, StateOK, Locals
  <2>4. Moved(D) /\ pc'[D] = "put"
    BY <1>1, <1>7, <2>2, Zenon DEF OrderInv, PutInv, StateOK, Moved, Goto
  <2>5. InOrder'
    BY <1>1, <1>3, <1>7, <2>1, <2>3, <2>4, Zenon DEF InOrder, Holding, Counted, Over
  <2> QED
    BY <1>1, <2>4, <2>5, DispatcherOrder, Zenon
<1> QED
  BY <1>4, <1>5, <1>6, <1>7, Zenon DEF FindRecord

LEMMA PutReadOrder ==
  ASSUME OrderInv, PutInv', OnlyUpdates, PutRead(Dispatcher)
  PROVE  OrderInv'
<1> DEFINE D == Dispatcher
<1>1. D \in Actors /\ UNCHANGED <<cursor, deliveries, index, attempts>> /\ pc[D] \in {"put", "record"}
  BY Zenon DEF PutRead, durable, history, Actors
<1>2. Locals(loc[D])
  BY <1>1, Zenon DEF OrderInv, PutInv, StateOK
<1>3. CASE End(D)
  BY <1>1, <1>3, EndOrder, Zenon
<1>4. CASE ~ End(D)
  <2>1. PICK at \in {"putting", "recording"} : pc' = [pc EXCEPT ![D] = at]
    BY <1>4, Zenon DEF PutRead, Goto
  <2>2. PICK l : l = [loc[D] EXCEPT !.backlog = NewBacklog(loc[D].id, loc[D].rec)]
    BY Zenon
  <2>3. loc' = [loc EXCEPT ![D] = l]
    BY <1>4, <2>2, Zenon DEF PutRead
  <2>4. l.seq = loc[D].seq /\ l.id = loc[D].id /\ l.rec = loc[D].rec
    BY <1>2, <2>2, SMTT(30) DEF Locals
  <2>5. /\ Moved(D) /\ pc'[D] = at
        /\ loc'[D].seq = loc[D].seq /\ loc'[D].id = loc[D].id /\ loc'[D].rec = loc[D].rec
    BY <1>1, <2>1, <2>3, <2>4, Zenon DEF OrderInv, PutInv, StateOK, Moved
  <2> QED
    BY <1>1, <2>1, <2>5, GoesOn, Zenon DEF Holding
<1> QED
  BY <1>3, <1>4, Zenon

\* A put stores a delivery of the event that it is indexed under.
LEMMA PutCommitOrder ==
  ASSUME OrderInv, PutInv', PutCommit(Dispatcher)
  PROVE  OrderInv'
<1> DEFINE D == Dispatcher
           i == loc[D].id
           d == loc[D].rec
<1>1. /\ D \in Actors /\ UNCHANGED <<cursor, attempts>> /\ pc[D] \in {"putting", "recording"}
      /\ deliveries' = [j \in DOMAIN deliveries \cup {i} |-> IF j = i THEN d ELSE deliveries[j]]
      /\ index' = [index EXCEPT ![d.seq] = i]
  BY Zenon DEF PutCommit, history, Actors
<1>2. /\ Locals(loc[D]) /\ d.seq = loc[D].seq /\ Counted(d) /\ i # Nobody
      /\ i \in DOMAIN deliveries => deliveries[i].seq = d.seq
      /\ d.seq = cursor + 1 /\ d.seq \in Deliverable
  BY <1>1, Zenon DEF OrderInv, PutInv, StateOK, InOrder, Holding
<1>3. PICK at \in {"send", "runtime"} : pc' = [pc EXCEPT ![D] = at]
  BY Zenon DEF PutCommit, Goto
<1>4. Moved(D) /\ pc'[D] = at /\ loc'[D].seq = loc[D].seq /\ loc'[D].id = i /\ loc'[D].rec = d
  <2>1. PICK l : l = [loc[D] EXCEPT !.backlog = 0]
    BY Zenon
  <2>2. loc' = [loc EXCEPT ![D] = l]
    BY <2>1, Zenon DEF PutCommit
  <2>3. l.seq = loc[D].seq /\ l.id = i /\ l.rec = d
    <3>1. DOMAIN loc[D] = {"op", "hook", "seq", "id", "rec", "backlog"}
      BY <1>2, Zenon DEF Locals
    <3> QED
      BY <2>1, <3>1
  <2> QED
    BY <1>1, <1>3, <2>2, <2>3, Zenon DEF OrderInv, PutInv, StateOK, Moved
<1>5. /\ DOMAIN deliveries' = DOMAIN deliveries \cup {i} /\ deliveries'[i] = d
      /\ \A j \in DOMAIN deliveries : j # i => deliveries'[j] = deliveries[j]
  BY <1>1, Zenon
<1>6. DeliveriesCount'
  <2>1. Nobody \notin DOMAIN deliveries'
    BY <1>2, <1>5, Zenon DEF OrderInv, DeliveriesCount
  <2>2. \A j \in DOMAIN deliveries' : Counted(deliveries[j])'
    BY <1>1, <1>2, <1>5, Zenon DEF OrderInv, DeliveriesCount, Counted, Over
  <2>3. ASSUME NEW s \in DOMAIN index', index'[s] # Nobody
        PROVE  index'[s] \in DOMAIN deliveries' /\ deliveries'[index'[s]].seq = s
    <3>1. CASE s = d.seq
      BY <1>1, <1>5, <2>3, <3>1, Zenon
    <3>2. CASE s # d.seq
      <4>1. s \in DOMAIN index /\ index'[s] = index[s]
        BY <1>1, <2>3, <3>2, Zenon
      <4>2. index[s] \in DOMAIN deliveries /\ deliveries[index[s]].seq = s
        BY <2>3, <4>1, Zenon DEF OrderInv, DeliveriesCount
      <4>3. index[s] # i
        BY <1>2, <3>2, <4>2, Zenon
      <4> QED
        BY <1>5, <4>1, <4>2, <4>3, Zenon
    <3> QED
      BY <3>1, <3>2, Zenon
  <2> QED
    BY <2>1, <2>2, <2>3, Zenon DEF DeliveriesCount
<1>7. InOrder'
  BY <1>1, <1>2, <1>4, <1>5, Zenon DEF InOrder, Holding, Counted, Over
<1>8. RequestsUpdate'
  BY <1>4, DeliveryConstants, Zenon DEF OrderInv, RequestsUpdate, Moved, Actors
<1>9. AttemptsOK' /\ NoEventSkipped'
  BY <1>1, Zenon DEF OrderInv, AttemptsOK, NoEventSkipped
<1> QED
  BY <1>6, <1>7, <1>8, <1>9, Zenon DEF OrderInv

\* An attempt: of the event after the cursor, and counted before it is stored.
LEMMA SendOrder ==
  ASSUME OrderInv, PutInv', Send
  PROVE  OrderInv' /\ Ordered!Attempt
<1> DEFINE D == Dispatcher
           s == loc[D].seq
           d == loc[D].rec
<1>1. D \in Actors /\ UNCHANGED <<cursor, deliveries, index>> /\ pc[D] = "send"
  BY Zenon DEF Send, durable, Actors
<1>2. /\ s = cursor + 1 /\ s \in Deliverable /\ s \in Events /\ d.seq = s /\ Counted(d)
      /\ loc[D].id # Nobody /\ (loc[D].id \in DOMAIN deliveries => deliveries[loc[D].id].seq = s)
  BY <1>1, DeliveryConstants, Zenon DEF OrderInv, InOrder, Holding, Events
<1>3. /\ attempts[s].tries \in Nat /\ attempts[s].closed \in BOOLEAN /\ DOMAIN attempts = Events
      /\ Record(d) /\ d.status \in Open
  BY <1>1, <1>2, Zenon DEF OrderInv, AttemptsOK, PutInv, StateOK, Locals, DispatcherOK
<1>4. PICK closes \in BOOLEAN :
        LET e == loc'[D].rec IN
        /\ Record(e) /\ e.seq = d.seq /\ e.attempts = d.attempts + 1
        /\ e.status \in Open => e.attempts < MaxAttempts
        /\ e.status \in Terminal => closes \/ e.attempts >= MaxAttempts
        /\ loc'[D].id = loc[D].id /\ loc'[D].seq = s
        /\ attempts' = [attempts EXCEPT ![s] = Ordered!Answered(@, closes)]
        /\ Moved(D) /\ pc'[D] = "record"
  BY SendStep, Zenon DEF OrderInv
<1>5. PICK e : e = loc'[D].rec
  BY Zenon
<1>6. PICK x : x = attempts[s]
  BY Zenon
<1>7. PICK y : y = Ordered!Answered(attempts[s], closes)
  BY Zenon
<1>8. /\ y.tries \in Nat /\ y.closed \in BOOLEAN /\ attempts[s].tries <= y.tries
      /\ Ordered!Over(attempts[s]) => Ordered!Over(y)
      /\ closes => Ordered!Over(y)
      /\ y.tries = attempts[s].tries + 1 \/ MaxAttempts <= y.tries
  <2>1. x.tries \in Nat /\ x.closed \in BOOLEAN /\ y = Ordered!Answered(x, closes)
    BY <1>3, <1>6, <1>7, Zenon
  <2>2. /\ y.tries \in Nat /\ y.closed \in BOOLEAN /\ x.tries <= y.tries
        /\ Ordered!Over(x) => Ordered!Over(y)
        /\ closes => Ordered!Over(y)
        /\ y.tries = x.tries + 1 \/ MaxAttempts <= y.tries
    BY <2>1, OneMore, Zenon
  <2> QED
    BY <1>6, <2>2, Zenon
<1>9. attempts' = [attempts EXCEPT ![s] = y] /\ attempts'[s] = y
  BY <1>2, <1>3, <1>4, <1>7, Zenon
<1>10. \A t \in Events : t # s => attempts'[t] = attempts[t]
  BY <1>3, <1>9, Zenon
<1>11. AttemptsOK'
  BY <1>8, <1>9, <1>10, Zenon DEF OrderInv, AttemptsOK
<1>12. \A t \in Events : Over(t) => Over(t)'
  BY <1>8, <1>9, <1>10, Zenon DEF Over
<1>13. ASSUME NEW c, Record(c), Counted(c) PROVE Counted(c)'
  <2>1. c.seq \in Events /\ c.attempts \in Nat
    BY <1>13, DeliveryConstants, Zenon DEF Counted, Events, Record
  <2>2. CASE c.seq = s
    <3>1. c.attempts <= attempts[s].tries => c.attempts <= y.tries
      BY <1>3, <1>8, <2>1
    <3> QED
      BY <1>9, <1>12, <1>13, <2>1, <2>2, <3>1, Zenon DEF Counted
  <2>3. CASE c.seq # s
    BY <1>10, <1>12, <1>13, <2>1, <2>3, Zenon DEF Counted
  <2> QED
    BY <2>2, <2>3, Zenon
<1>14. Counted(e)'
  <2>1. d.attempts \in Nat /\ d.attempts <= attempts[s].tries
    BY <1>2, <1>3, Zenon DEF Counted, Record
  <2>2. e.status \in Open => e.attempts <= y.tries
    BY <1>3, <1>4, <1>5, <1>8, <2>1, DeliveryConstants
  <2>3. e.attempts >= MaxAttempts => y.tries >= MaxAttempts
    BY <1>3, <1>4, <1>5, <1>8, <2>1, DeliveryConstants
  <2>4. e.status \in Terminal => Ordered!Over(y)
    BY <1>4, <1>5, <1>8, <2>3, Zenon DEF Ordered!Over
  <2> QED
    BY <1>2, <1>4, <1>5, <1>9, <2>2, <2>4, Zenon DEF Counted, Over
<1>15. DeliveriesCount'
  BY <1>1, <1>13, Zenon DEF OrderInv, DeliveriesCount, PutInv, StateOK
<1>16. InOrder'
  BY <1>1, <1>2, <1>4, <1>5, <1>14, Zenon DEF InOrder, Holding, Counted, Over
<1>17. RequestsUpdate'
  BY <1>4, DeliveryConstants, Zenon DEF OrderInv, RequestsUpdate, Moved, Actors
<1>18. NoEventSkipped'
  BY <1>1, <1>12, DeliveryConstants, Zenon DEF OrderInv, NoEventSkipped, Over, Events
<1>19. Ordered!Attempt
  BY <1>1, <1>2, <1>7, <1>9, Zenon DEF Ordered!Attempt
<1> QED
  BY <1>11, <1>15, <1>16, <1>17, <1>18, <1>19, Zenon DEF OrderInv

LEMMA UpdateRuntimeOrder ==
  ASSUME OrderInv, PutInv', OnlyUpdates, UpdateRuntime
  PROVE  OrderInv'
<1> DEFINE D == Dispatcher
<1>1. D \in Actors /\ UNCHANGED <<cursor, deliveries, index, attempts>> /\ pc[D] = "runtime"
  BY Zenon DEF UpdateRuntime, history, Actors
<1>2. /\ loc[D].seq = cursor + 1 /\ loc[D].seq \in Deliverable /\ loc[D].seq \in Events
      /\ loc[D].rec.status \in Terminal => Over(loc[D].seq)
  BY <1>1, DeliveryConstants, Zenon DEF OrderInv, InOrder, Holding, Events, Counted
<1> QED
  BY <1>1, <1>2, EndOrder, ToAdvanceOrder, Zenon DEF UpdateRuntime

\* set_webhook_cursor: by one event, which is over.
LEMMA CursorOrder ==
  ASSUME OrderInv, PutInv', Advance
  PROVE  OrderInv' /\ Ordered!Advance
<1> DEFINE D == Dispatcher
<1>1. D \in Actors /\ UNCHANGED <<deliveries, index, attempts>> /\ pc[D] = "advance" /\ cursor' = loc[D].seq
  BY Zenon DEF Advance, history, Actors
<1>2. cursor' = cursor + 1 /\ cursor + 1 \in Events /\ (cursor + 1 \in Deliverable => Over(cursor + 1))
  BY <1>1, Zenon DEF OrderInv, InOrder
<1>3. Moved(D) /\ pc'[D] = "idle"
  BY <1>1, Ended, Zenon DEF OrderInv, Advance
<1>4. Ordered!Advance
  BY <1>1, <1>2, Zenon DEF Ordered!Advance, Over
<1>5. NoEventSkipped'
  <2>1. ASSUME NEW s \in Deliverable, s <= cursor + 1, s # cursor + 1 PROVE s <= cursor
    BY <2>1, DeliveryConstants DEF OrderInv, PutInv, StateOK
  <2> QED
    BY <1>1, <1>2, <2>1, Zenon DEF OrderInv, NoEventSkipped, Over
<1>6. InOrder'
  BY <1>3, Zenon DEF InOrder, Holding
<1>7. RequestsUpdate'
  BY <1>3, DeliveryConstants, Zenon DEF OrderInv, RequestsUpdate, Moved, Actors
<1>8. AttemptsOK' /\ DeliveriesCount'
  BY <1>1, Zenon DEF OrderInv, AttemptsOK, DeliveriesCount, Counted, Over
<1> QED
  BY <1>4, <1>5, <1>6, <1>7, <1>8, Zenon DEF OrderInv

\* An update of the destination.
LEMMA UpdateOrder ==
  ASSUME OrderInv, PutInv', OnlyUpdates, NEW r \in Requests, BeginReplay(r) \/ BeginOther(r) \/ Handle(r)
  PROVE  OrderInv' /\ UNCHANGED <<cursor, attempts>>
<1>1. r \in Actors /\ pc[r] \in {"idle", "hook", "change"} /\ (pc[r] # "idle" => loc[r].op = "update")
  BY Zenon DEF OrderInv, RequestsUpdate, Actors
<1>2. ASSUME NEW op, NEW s, Begin(r, op, s) PROVE OrderInv' /\ UNCHANGED <<cursor, attempts>>
  <2>1. Moved(r) /\ pc'[r] = "hook" /\ UNCHANGED <<cursor, deliveries, index, attempts>>
    BY <1>1, <1>2, Zenon DEF Begin, Goto, durable, history, OrderInv, PutInv, StateOK, Moved
  <2> QED
    BY <2>1, RequestOrder, Zenon
<1>3. ASSUME ReadHook(r) PROVE OrderInv' /\ UNCHANGED <<cursor, attempts>>
  <2>1. UNCHANGED <<cursor, deliveries, index, attempts>> /\ loc[r].op \notin {"replay", "test"}
    BY <1>1, <1>3, Zenon DEF ReadHook, durable, history
  <2>2. CASE End(r)
    BY <1>1, <2>1, <2>2, EndOrder, Zenon
  <2>3. CASE ~ End(r)
    <3>1. PICK h : loc' = [loc EXCEPT ![r] = [loc[r] EXCEPT !.hook = h]]
      BY <1>3, <2>3, Zenon DEF ReadHook
    <3>2. pc' = [pc EXCEPT ![r] = "change"]
      BY <1>3, <2>1, <2>3, Zenon DEF ReadHook, Goto
    <3>3. Moved(r) /\ pc'[r] = "change"
      BY <1>1, <3>1, <3>2, Zenon DEF OrderInv, PutInv, StateOK, Moved
    <3> QED
      BY <2>1, <3>3, RequestOrder, Zenon
  <2> QED
    BY <2>2, <2>3, Zenon
<1>4. ASSUME ChangeHook(r) PROVE OrderInv' /\ UNCHANGED <<cursor, attempts>>
  <2>1. loc[r].op # "delete"
    BY <1>1, <1>4, Zenon DEF ChangeHook
  <2>2. UNCHANGED <<cursor, deliveries, index, attempts>> /\ End(r)
    BY <1>4, <2>1, Zenon DEF ChangeHook, history
  <2> QED
    BY <1>1, <2>2, EndOrder, Zenon
<1>5. ~ (SendDirect(r) \/ PutRead(r) \/ PutCommit(r))
  BY <1>1, Zenon DEF SendDirect, PutRead, PutCommit
<1> QED
  BY <1>2, <1>3, <1>4, <1>5, Zenon DEF BeginReplay, BeginOther, Handle

\* Pruning takes the index of what it deletes; time changes nothing here.
LEMMA DeliveriesOrder ==
  ASSUME OrderInv, PutInv', UNCHANGED <<cursor, pc, loc, attempts>>, DeliveriesCount',
         \A i \in DOMAIN deliveries' : i \in DOMAIN deliveries /\ deliveries'[i].seq = deliveries[i].seq
  PROVE  OrderInv'
<1>1. InOrder'
  BY Zenon DEF OrderInv, InOrder, Counted, Over
<1>2. RequestsUpdate' /\ AttemptsOK' /\ NoEventSkipped'
  BY Zenon DEF OrderInv, RequestsUpdate, AttemptsOK, NoEventSkipped
<1> QED
  BY <1>1, <1>2, Zenon DEF OrderInv

LEMMA PruneOrder ==
  ASSUME OrderInv, PutInv', PruneDeliveries
  PROVE  OrderInv'
<1>1. PICK old : /\ deliveries' = [i \in DOMAIN deliveries \ old |-> deliveries[i]]
                 /\ index' = [s \in DOMAIN index |->
                                IF \E i \in old : deliveries[i].seq = s THEN Nobody ELSE index[s]]
  BY Zenon DEF PruneDeliveries
<1>2. UNCHANGED <<cursor, pc, loc, attempts>>
  BY Zenon DEF PruneDeliveries, history
<1>3. /\ DOMAIN deliveries' = DOMAIN deliveries \ old
      /\ \A i \in DOMAIN deliveries' : i \in DOMAIN deliveries /\ deliveries'[i] = deliveries[i]
  BY <1>1, Zenon
<1>4. ASSUME NEW s \in DOMAIN index', index'[s] # Nobody
      PROVE  index'[s] \in DOMAIN deliveries' /\ deliveries'[index'[s]].seq = s
  <2>1. s \in DOMAIN index /\ index'[s] = index[s] /\ ~ \E i \in old : deliveries[i].seq = s
    BY <1>1, <1>4, Zenon
  <2>2. index[s] \in DOMAIN deliveries /\ deliveries[index[s]].seq = s
    BY <1>4, <2>1, Zenon DEF OrderInv, DeliveriesCount
  <2> QED
    BY <1>3, <2>1, <2>2, Zenon
<1>5. DeliveriesCount'
  BY <1>2, <1>3, <1>4, Zenon DEF OrderInv, DeliveriesCount, Counted, Over
<1> QED
  BY <1>2, <1>3, <1>5, DeliveriesOrder, Zenon

LEMMA TickOrder ==
  ASSUME OrderInv, PutInv', Tick
  PROVE  OrderInv'
<1>1. DOMAIN deliveries' = DOMAIN deliveries /\ UNCHANGED <<index, cursor, pc, loc, attempts>>
  BY Zenon DEF Tick, history
<1>2. \A i \in DOMAIN deliveries : /\ deliveries'[i].seq = deliveries[i].seq
                                   /\ deliveries'[i].status = deliveries[i].status
                                   /\ deliveries'[i].attempts = deliveries[i].attempts
  BY OlderIs, Zenon DEF Tick, OrderInv, PutInv, StateOK
<1>3. \A i \in DOMAIN deliveries : Counted(deliveries[i])'
  BY <1>1, <1>2, Zenon DEF OrderInv, DeliveriesCount, Counted, Over
<1>4. DeliveriesCount'
  BY <1>1, <1>2, <1>3, Zenon DEF OrderInv, DeliveriesCount
<1> QED
  BY <1>1, <1>2, <1>4, DeliveriesOrder, Zenon

LEMMA OrderStart ==
  ASSUME Init
  PROVE  OrderInv
<1>1. PutInv /\ \A a \in Actors : pc[a] = "idle"
  BY PutStart, Zenon DEF Init
<1>2. AttemptsOK
  <2>1. \A s \in Events : attempts[s] = Ordered!Untried
    BY Zenon DEF Init
  <2>2. Ordered!Untried.tries \in Nat /\ Ordered!Untried.closed \in BOOLEAN
    BY DEF Ordered!Untried
  <2> QED
    BY <2>1, <2>2, Zenon DEF AttemptsOK
<1>3. RequestsUpdate /\ InOrder
  BY <1>1, Zenon DEF RequestsUpdate, InOrder, Holding, Actors
<1>4. DeliveriesCount
  BY Zenon DEF Init, DeliveriesCount
<1>5. NoEventSkipped
  BY DeliveryConstants DEF Init, NoEventSkipped
<1> QED
  BY <1>1, <1>2, <1>3, <1>4, <1>5, Zenon DEF OrderInv

\* Every step maps to an attempt of the event after the cursor, to its passing, or to nothing.
LEMMA OrderStep ==
  ASSUME OrderInv, [Next /\ OnlyUpdates]_vars
  PROVE  OrderInv' /\ [Ordered!Attempt \/ Ordered!Advance]_(Ordered!vars)
<1>1. PutInv'
  BY PutStep, Zenon DEF OrderInv
<1>2. CASE UNCHANGED vars
  <2>1. UNCHANGED <<cursor, deliveries, index, pc, loc, attempts>>
    BY <1>2, Zenon DEF vars, durable, history
  <2>2. DeliveriesCount'
    BY <2>1, Zenon DEF OrderInv, DeliveriesCount, Counted, Over
  <2>3. OrderInv'
    BY <1>1, <2>1, <2>2, DeliveriesOrder, Zenon
  <2> QED
    BY <2>1, <2>3, Zenon DEF Ordered!vars
<1>3. ASSUME Dispatch, OnlyUpdates
      PROVE  OrderInv' /\ [Ordered!Attempt \/ Ordered!Advance]_(Ordered!vars)
  <2>1. ASSUME DispatchOnce \/ ReadCursor \/ FindIndex \/ FindRecord \/ PutRead(Dispatcher)
               \/ PutCommit(Dispatcher) \/ UpdateRuntime
        PROVE  UNCHANGED <<cursor, attempts>>
    BY <2>1, Zenon DEF DispatchOnce, ReadCursor, FindIndex, FindRecord, PutRead, PutCommit,
       UpdateRuntime, durable, history
  <2>2. CASE Send
    BY <1>1, <2>2, SendOrder, Zenon
  <2>3. CASE Advance
    BY <1>1, <2>3, CursorOrder, Zenon
  <2>4. CASE ~ Send /\ ~ Advance
    BY <1>1, <1>3, <2>1, <2>4, DispatchOnceOrder, ReadCursorOrder, FindIndexOrder, FindRecordOrder,
       PutReadOrder, PutCommitOrder, UpdateRuntimeOrder, Zenon DEF Dispatch, Ordered!vars
  <2> QED
    BY <2>2, <2>3, <2>4, Zenon
<1>4. ASSUME NEW r \in Requests, BeginReplay(r) \/ BeginOther(r) \/ Handle(r), OnlyUpdates
      PROVE  OrderInv' /\ [Ordered!Attempt \/ Ordered!Advance]_(Ordered!vars)
  BY <1>1, <1>4, UpdateOrder, Zenon DEF Ordered!vars
<1>5. CASE PruneDeliveries \/ Tick
  <2>1. UNCHANGED <<cursor, attempts>>
    BY <1>5, Zenon DEF PruneDeliveries, Tick, history
  <2> QED
    BY <1>1, <1>5, <2>1, PruneOrder, TickOrder, Zenon DEF Ordered!vars
<1>6. ASSUME NEW a \in Actors, Fail(a), OnlyUpdates
      PROVE  OrderInv' /\ [Ordered!Attempt \/ Ordered!Advance]_(Ordered!vars)
  <2>1. UNCHANGED <<cursor, deliveries, index, attempts>> /\ End(a)
    BY <1>6, Zenon DEF Fail, durable
  <2> QED
    BY <1>1, <1>6, <2>1, EndOrder, Zenon DEF Ordered!vars
<1> QED
  BY <1>2, <1>3, <1>4, <1>5, <1>6, Zenon DEF Next

\* Beside updates, pauses, failures, restarts and pruning, the dispatcher attempts every
\* deliverable event in the order of the log and takes up the next one only when the last
\* is over: dispatch_webhook implements OrderedDelivery, for any log and limits.
THEOREM DeliveryIsOrdered == OrderedSpec => OrderedAtLeastOnce
<1>1. Init => OrderInv
  BY OrderStart
<1>2. OrderInv /\ [Next /\ OnlyUpdates]_vars => OrderInv'
  BY OrderStep
<1>3. OrderInv /\ [Next /\ OnlyUpdates]_vars => [Ordered!Attempt \/ Ordered!Advance]_(Ordered!vars)
  BY OrderStep
<1>4. Init => Ordered!Init
  BY Zenon DEF Init, Ordered!Init
<1> QED
  BY <1>1, <1>2, <1>3, <1>4, PTL DEF OrderedSpec, OrderedAtLeastOnce, Ordered!Spec

\* The cursor of a destination never passes a deliverable event that is not over.
THEOREM CursorSkipsNothing == OrderedSpec => []NoEventSkipped
<1>1. Init => OrderInv
  BY OrderStart
<1>2. OrderInv /\ [Next /\ OnlyUpdates]_vars => OrderInv'
  BY OrderStep
<1>3. OrderInv => NoEventSkipped
  BY DEF OrderInv
<1> QED
  BY <1>1, <1>2, <1>3, PTL DEF OrderedSpec
=============================================================================
