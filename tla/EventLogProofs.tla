--------------------------- MODULE EventLogProofs ---------------------------
(***************************************************************************)
(* Proofs about EventLog, for any number of requests, streams and webhooks *)
(* and any limits.                                                         *)
(***************************************************************************)
EXTENDS EventLog, TLAPS

\* The places in which a task holds the mutation lock.
Critical == {"body", "append", "commit", "cursors"}

MutualExclusion == \A t \in Tasks : pc[t] \in Critical => mutation = t

\* A request that is about to commit has numbered its events from the log's end.
PendingFollowsLog ==
  \A h \in Handlers :
    /\ pc[h] # "idle" => req[h].size > 0
    /\ pc[h] = "commit" => req[h].seq = latest + 1

LogInv == MutualExclusion /\ PendingFollowsLog /\ LogIsGapFree /\ minimum <= latest + 1

USE LogConstants, DistinctTasks DEF NoCursor, Closed, Tasks, Callers, AllOperations

-----------------------------------------------------------------------------
\* pending_events keeps a request in its type.
LEMMA NumberedRequest ==
  ASSUME NEW r \in Request, NEW s \in Nat, NEW a \in Nat
  PROVE  [r EXCEPT !.seq = s, !.at = a] \in Request
BY Zenon DEF Request

\* Every step keeps every variable in its type.
LEMMA TypeStep == TypeOK /\ PendingFollowsLog /\ [Next]_vars => TypeOK'
<1> SUFFICES ASSUME TypeOK, PendingFollowsLog, [Next]_vars PROVE TypeOK'
  BY Zenon
<1> USE DEF TypeOK, durable, locks, history
<1>1. ASSUME NEW h \in Handlers, NEW op \in AllOperations, NEW w \in Webhooks \cup {Nobody},
             NEW n \in Nat, NEW at \in {"latest", "gate"}, Begin(h, op, w, n, at),
             op # "append" => w \in Webhooks, created' \subseteq Webhooks
      PROVE TypeOK'
  <2>1. req' \in [Handlers -> Request]
    BY <1>1, SMTT(30) DEF Begin, Request
  <2>2. \A g \in Handlers : req'[g].op # "append" => req'[g].hook \in Webhooks
    BY <1>1, Zenon DEF Begin
  <2> QED
    BY <1>1, <2>1, <2>2 DEF Begin
<1>2. ASSUME NEW h \in Handlers, BeginAppend(h) PROVE TypeOK'
  BY <1>1, <1>2, Zenon DEF BeginAppend
<1>3. ASSUME NEW h \in Handlers, CreateWebhook(h) PROVE TypeOK'
  <2> PICK w \in Webhooks : Begin(h, "create", w, 1, "latest") /\ created' = created \cup {w}
    BY <1>3, Zenon DEF CreateWebhook
  <2>1. created' \subseteq Webhooks
    BY Zenon
  <2> QED
    BY <1>1, <2>1, Zenon
<1>4. ASSUME NEW h \in Handlers, UpdateWebhook(h) PROVE TypeOK'
  BY <1>1, <1>4, Zenon DEF UpdateWebhook
<1>5. ASSUME NEW h \in Handlers, DeleteWebhook(h) PROVE TypeOK'
  BY <1>1, <1>5, Zenon DEF DeleteWebhook
<1>6. ASSUME NEW t \in Tasks, EnterGate(t) PROVE TypeOK'
  BY <1>6, Zenon DEF EnterGate
<1>7. ASSUME NEW t \in Tasks, Lock(t) PROVE TypeOK'
  BY <1>7, Zenon DEF Lock
<1>8. ASSUME NEW h \in Handlers, ReadLatest(h) PROVE TypeOK'
  BY <1>8 DEF ReadLatest, Request
<1>9. ASSUME NEW h \in Handlers, StartCursor(h) PROVE TypeOK'
  BY <1>9, Zenon DEF StartCursor, Request
<1>10. ASSUME NEW h \in Handlers, PutWebhook(h) PROVE TypeOK'
  BY <1>10 DEF PutWebhook, Request
<1>11. ASSUME NEW h \in Handlers, RemoveWebhook(h) PROVE TypeOK'
  BY <1>11 DEF RemoveWebhook, Request
<1>12. ASSUME NEW h \in Handlers, PendingEvents(h) PROVE TypeOK'
  <2>1. CASE latest + req[h].size > MaxSequence
    <3>1. EndRequest(h)
      BY <1>12, <2>1, Zenon DEF PendingEvents
    <3>2. req' \in [Handlers -> Request]
      BY <3>1, Zenon DEF EndRequest, NoReq, Request
    <3>3. \A g \in Handlers : req'[g].op # "append" => req'[g].hook \in Webhooks
      BY <3>1, Zenon DEF EndRequest, NoReq
    <3> QED
      BY <1>12, <3>1, <3>2, <3>3, Zenon DEF PendingEvents, EndRequest, Release
  <2>2. CASE ~ latest + req[h].size > MaxSequence
    <3>1. req' = [req EXCEPT ![h] = [req[h] EXCEPT !.seq = latest + 1, !.at = clock]]
      BY <1>12, <2>2, Zenon DEF PendingEvents
    <3>2. req' \in [Handlers -> Request]
      <4>1. req[h] \in Request /\ latest + 1 \in Nat /\ clock \in Nat
        OBVIOUS
      <4>2. [req[h] EXCEPT !.seq = latest + 1, !.at = clock] \in Request
        BY <4>1, NumberedRequest, Zenon
      <4> QED
        BY <3>1, <4>2, Zenon
    <3>3. \A g \in Handlers : req'[g].op # "append" => req'[g].hook \in Webhooks
      BY <3>1, SMTT(30) DEF Request
    <3> QED
      BY <1>12, <2>2, <3>2, <3>3 DEF PendingEvents
  <2> QED
    BY <2>1, <2>2, Zenon
<1>13. ASSUME NEW h \in Handlers, CommitEvents(h) PROVE TypeOK'
  <2> DEFINE last == req[h].seq + req[h].size - 1
             new  == req[h].seq .. last
  <2>0. req[h].seq \in Nat /\ req[h].size \in Nat /\ req[h].at \in Nat
    BY Zenon DEF Request
  <2>1. latest' = last /\ last \in Nat
    BY <1>13, <2>0 DEF CommitEvents, QueueEvents, PendingFollowsLog
  <2>2. new \subseteq Nat
    BY <2>0, SMTT(30)
  <2>3. DOMAIN log' = DOMAIN log \cup new
    BY <1>13, Zenon DEF CommitEvents, QueueEvents
  <2>4. log' \in [DOMAIN log' -> Event]
    BY <1>13, <2>0, <2>2, <2>3, Zenon DEF CommitEvents, QueueEvents, Event
  <2>5. req' \in [Handlers -> Request]
    BY <1>13, Zenon DEF CommitEvents, EndRequest, NoReq, Request
  <2>6. \A g \in Handlers : req'[g].op # "append" => req'[g].hook \in Webhooks
    BY <1>13, Zenon DEF CommitEvents, EndRequest, NoReq
  <2> HIDE DEF last, new
  <2> QED
    BY <1>13, <2>1, <2>2, <2>3, <2>4, <2>5, <2>6, Zenon DEF CommitEvents, EndRequest, Release
<1>14. ASSUME NEW h \in Handlers, DropRequest(h) PROVE TypeOK'
  BY <1>14, Zenon DEF DropRequest, EndRequest, Release, NoReq, Request
<1>15. ASSUME NEW c \in Callers, ReadEvents(c) PROVE TypeOK'
  <2>0. rd[c] \in Read
    BY Zenon
  <2>1. CASE EventsMinimum(c)
    <3>1. rd' \in [Callers -> Read]
      BY <2>0, <2>1, Zenon DEF EventsMinimum, Read
    <3> QED
      BY <2>1, <3>1, Zenon DEF EventsMinimum
  <2>2. CASE EventsLatest(c)
    <3> DEFINE end == AtMost(latest, rd[c].after + rd[c].limit)
    <3>0. end \in Nat
      BY <2>0 DEF AtMost, Read
    <3>1. rd' \in [Callers -> Read]
      BY <2>0, <2>2, <3>0, Zenon DEF EventsLatest, Read
    <3> QED
      BY <2>2, <3>1, Zenon DEF EventsLatest
  <2>3. CASE EventsFetch(c)
    <3>1. rd' \in [Callers -> Read]
      BY <2>0, <2>3, Zenon DEF EventsFetch, Read
    <3> QED
      BY <2>3, <3>1, Zenon DEF EventsFetch
  <2> QED
    BY <1>15, <2>1, <2>2, <2>3, Zenon DEF ReadEvents
<1>16. CASE RetentionTick
  BY <1>16 DEF RetentionTick, NoPrune
<1>17. CASE PruneGate
  BY <1>17, Zenon DEF PruneGate
<1>18. CASE PruneScan
  <2>1. prune' \in [cutoff : Nat, safe : Nat, todo : SUBSET Webhooks]
    BY <1>18, Zenon DEF PruneScan, AtMost
  <2> QED
    BY <1>18, <2>1, Zenon DEF PruneScan
<1>19. CASE PruneCursor
  <2>1. prune' \in [cutoff : Nat, safe : Nat, todo : SUBSET Webhooks]
    <3> PICK w \in prune.todo :
           prune' = [prune EXCEPT !.safe = AtMost(@, cursor[w]), !.todo = @ \ {w}]
      BY <1>19, Zenon DEF PruneCursor
    <3>1. AtMost(prune.safe, cursor[w]) \in Nat /\ prune.todo \ {w} \subseteq Webhooks
      BY Zenon DEF AtMost
    <3> QED
      BY <3>1, Zenon
  <2> QED
    BY <1>19, <2>1, Zenon DEF PruneCursor
<1>20. CASE PruneApply
  <2> PICK last \in minimum..PruneEnd :
         /\ log' = [s \in DOMAIN log \ (minimum..last) |-> log[s]]
         /\ minimum' = last + 1
         /\ \/ /\ mutation' = Nobody /\ writer' = "queued"
               /\ pc' = [pc EXCEPT ![Pruner] = "gate"]
               /\ UNCHANGED <<readers, prune>>
            \/ EndPrune
    BY <1>20, Zenon DEF PruneApply
  <2>1. minimum' \in Nat \ {0}
    BY SMTT(30)
  <2>2. DOMAIN log' \subseteq Nat /\ log' \in [DOMAIN log' -> Event]
    BY Zenon
  <2>3. /\ mutation' \in Tasks \cup {Nobody} /\ readers' \subseteq Tasks
        /\ writer' \in {"none", "queued", "held"}
        /\ prune' \in [cutoff : Nat, safe : Nat, todo : SUBSET Webhooks]
    BY SMTT(30) DEF EndPrune, Release, NoPrune
  <2>4. pc' \in [Tasks -> {"idle", "latest", "cursor", "gate", "lock", "body", "append", "commit",
                          "cursors"}]
    BY DEF EndPrune
  <2> QED
    BY <1>20, <2>1, <2>2, <2>3, <2>4, Zenon DEF PruneApply
<1>21. CASE PruneNothing
  BY <1>21, Zenon DEF PruneNothing, EndPrune, Release, NoPrune
<1>22. CASE ProjectorTick
  BY <1>22, SMTT(30) DEF ProjectorTick
<1>23. CASE ProjectEvents
  <2>1. projector' \in Nat \cup {NoCursor}
    BY <1>23, SMTT(30) DEF ProjectEvents, AtMost
  <2> QED
    BY <1>23, <2>1, Zenon DEF ProjectEvents, EndProjection, Release
<1>24. CASE Dispatch
  <2>1. CASE DispatchOnce
    BY <2>1 DEF DispatchOnce, Pass
  <2>2. CASE DispatchWebhook
    <3> PICK w \in dispatch.todo :
           /\ dispatch' = Pass("events", dispatch.todo \ {w}, w)
           /\ rd' = [rd EXCEPT ![Dispatcher] = StartRead(cursor[w], 1)]
      BY <2>2, Zenon DEF DispatchWebhook
    <3>1. StartRead(cursor[w], 1) \in Read
      BY Zenon DEF StartRead, Read
    <3>2. rd' \in [Callers -> Read]
      BY <3>1, Zenon
    <3> QED
      BY <2>2, <3>2, Zenon DEF DispatchWebhook, Pass
  <2>3. NoRead \in Read
    BY Zenon DEF NoRead, Read
  <2>4. ASSUME NextHook \/ EndPass, UNCHANGED <<latest, minimum, log, projector, clock, locks, pc, req,
                 prune, scan, history>>, hooks' \subseteq Webhooks, cursor' \in [Webhooks -> Nat]
        PROVE TypeOK'
    <3>1. rd' \in [Callers -> Read]
      BY <2>3, <2>4 DEF NextHook, EndPass
    <3>2. dispatch' \in [at : {"idle", "next", "events", "send", "advance"},
                         todo : SUBSET Webhooks, hook : Webhooks \cup {Nobody}]
      BY <2>4 DEF NextHook, EndPass, NoPass, Pass
    <3>3. dispatch'.at \notin {"events", "send", "advance"}
      BY <2>4, SMTT(30) DEF NextHook, EndPass, NoPass, Pass
    <3> QED
      BY <2>4, <3>1, <3>2, <3>3, Zenon
  <2>5. CASE DispatchDone \/ DispatchAbort
    BY <2>4, <2>5, Zenon DEF DispatchDone, DispatchAbort
  <2>6. ASSUME NEW at \in {"advance", "send"}, dispatch' = [dispatch EXCEPT !.at = at],
               dispatch.hook \in Webhooks, hooks' \subseteq Webhooks,
               UNCHANGED <<latest, minimum, log, cursor, projector, clock, locks, pc, req, prune, rd,
                           scan, history>>
        PROVE TypeOK'
    BY <2>6, Zenon
  <2>7. CASE DispatchEvent
    BY <2>4, <2>6, <2>7, Zenon DEF DispatchEvent
  <2>8. CASE DispatchRuntime
    BY <2>4, <2>6, <2>8, Zenon DEF DispatchRuntime
  <2>9. CASE DispatchAdvance
    <3>1. rd[Dispatcher].after \in Nat
      BY Zenon DEF Read
    <3> QED
      BY <2>4, <2>9, <3>1, SMTT(30) DEF DispatchAdvance
  <2> QED
    BY <1>24, <2>1, <2>2, <2>5, <2>7, <2>8, <2>9, Zenon DEF Dispatch
<1>25. ASSUME NEW s \in Streams, Subscribe(s) PROVE TypeOK'
  BY <1>25, SMTT(30) DEF Subscribe
<1>26. ASSUME NEW s \in Streams, StreamPoll(s) PROVE TypeOK'
  BY <1>26, SMTT(30) DEF StreamPoll, StartRead, Read
<1>27. ASSUME NEW s \in Streams, StreamBatch(s) PROVE TypeOK'
  BY <1>27, SMTT(30) DEF StreamBatch, NoRead, Read
<1>28. ASSUME NEW s \in Streams, StreamClose(s) PROVE TypeOK'
  BY <1>28, Zenon DEF StreamClose, NoRead, Read
<1>29. CASE WorkerFails
  BY <1>29 DEF WorkerFails, EndPrune, EndProjection, Release, NoPrune
<1>30. CASE Tick
  BY <1>30, SMTT(30) DEF Tick
<1>31. CASE Crash
  BY <1>31, Zenon DEF Crash, NoReq, NoPrune, NoRead, NoPass, Pass, Request, Read
<1>32. CASE UNCHANGED vars
  BY <1>32, Zenon DEF vars
<1> QED
  BY <1>2, <1>3, <1>4, <1>5, <1>6, <1>7, <1>8, <1>9, <1>10, <1>11, <1>12, <1>13, <1>14, <1>15,
     <1>16, <1>17, <1>18, <1>19, <1>20, <1>21, <1>22, <1>23, <1>24, <1>25, <1>26, <1>27, <1>28,
     <1>29, <1>30, <1>31, <1>32, ZenonT(30) DEF Next, Handle, Prune, Project

-----------------------------------------------------------------------------
\* Steps that touch neither the log nor what requests are about to write to it.
LEMMA LogFrame ==
  ASSUME LogInv, UNCHANGED <<latest, minimum, log, pc, req, mutation>>
  PROVE  LogInv'
BY Zenon DEF LogInv, MutualExclusion, PendingFollowsLog, LogIsGapFree

\* What a pass may delete ends within the log: it would have met the first number past
\* the log's end as a bad record.
LEMMA PrunedWithinLog ==
  ASSUME TypeOK, LogInv, ~ BadRecord, NEW end \in minimum..PruneEnd, Prunable(end)
  PROVE  end <= latest
<1>1. /\ end \in Int /\ minimum <= end /\ end <= PruneEnd /\ PruneEnd \in Int
      /\ latest \in Nat /\ minimum \in Nat /\ minimum <= latest + 1
  BY DEF TypeOK, LogInv, PruneEnd, AtMost
<1> SUFFICES ASSUME latest + 1 <= end PROVE FALSE
  BY <1>1
<1>2. latest + 1 \in minimum..PruneEnd /\ latest + 1 \notin DOMAIN log
  BY <1>1 DEF LogInv, LogIsGapFree
<1> DEFINE q == latest + 1
<1>3. q \in minimum..PruneEnd /\ q \notin DOMAIN log /\ q - 1 = latest
  BY <1>1, <1>2
<1>4. minimum..(q - 1) \subseteq DOMAIN log /\ Prunable(q - 1)
  <2>1. minimum..latest \subseteq DOMAIN log
    BY Zenon DEF LogInv, LogIsGapFree
  <2>2. Prunable(latest)
    BY <1>1, SMTT(30) DEF Prunable
  <2> QED
    BY <1>3, <2>1, <2>2, Zenon
<1> HIDE DEF q
<1> QED
  BY <1>3, <1>4, Zenon DEF BadRecord

\* Every step keeps the log gap-free and the mutation lock exclusive.
LEMMA LogStep == TypeOK /\ LogInv /\ [Next]_vars => LogInv'
<1> SUFFICES ASSUME TypeOK, LogInv, [Next]_vars PROVE LogInv'
  BY Zenon
<1> USE DEF durable, locks, history
<1>a. /\ latest \in Nat /\ minimum \in Nat \ {0} /\ mutation \in Tasks \cup {Nobody}
      /\ DOMAIN pc = Tasks /\ DOMAIN req = Handlers
      /\ req \in [Handlers -> Request]
      /\ \A h \in Handlers : req[h].size \in Nat /\ req[h].seq \in Nat
  BY Zenon DEF TypeOK, Request
<1> USE <1>a DEF LogInv
\* A task that moves to a place in which it holds no lock, or stays in one.
<1>b. ASSUME NEW t \in Tasks, NEW p, pc' = [pc EXCEPT ![t] = p],
             p \in Critical => pc[t] \in Critical,
             mutation' = mutation \/ (mutation = t /\ p \notin Critical)
      PROVE MutualExclusion'
  BY <1>b, Zenon DEF MutualExclusion
<1>1. ASSUME NEW h \in Handlers, NEW op, NEW w, NEW n \in Nat \ {0}, NEW at \in {"latest", "gate"},
             Begin(h, op, w, n, at)
      PROVE LogInv'
  <2>1. MutualExclusion'
    BY <1>1, <1>b, Zenon DEF Begin, Critical
  <2>2. PendingFollowsLog'
    BY <1>1 DEF Begin, PendingFollowsLog
  <2> QED
    BY <1>1, <2>1, <2>2, Zenon DEF Begin, LogIsGapFree
<1>2. ASSUME NEW h \in Handlers,
             BeginAppend(h) \/ CreateWebhook(h) \/ UpdateWebhook(h) \/ DeleteWebhook(h)
      PROVE LogInv'
  BY <1>1, <1>2 DEF BeginAppend, CreateWebhook, UpdateWebhook, DeleteWebhook
<1>3. ASSUME NEW t \in Tasks, EnterGate(t) PROVE LogInv'
  <2>1. MutualExclusion'
    BY <1>3, <1>b, Zenon DEF EnterGate, Critical
  <2>2. PendingFollowsLog'
    BY <1>3, Zenon DEF EnterGate, PendingFollowsLog
  <2> QED
    BY <1>3, <2>1, <2>2, Zenon DEF EnterGate, LogIsGapFree
<1>4. ASSUME NEW t \in Tasks, Lock(t) PROVE LogInv'
  <2>1. MutualExclusion'
    BY <1>4, Zenon DEF Lock, MutualExclusion
  <2>2. PendingFollowsLog'
    BY <1>4, Zenon DEF Lock, PendingFollowsLog
  <2> QED
    BY <1>4, <2>1, <2>2, Zenon DEF Lock, LogIsGapFree
<1>5. ASSUME NEW h \in Handlers, ReadLatest(h) \/ StartCursor(h) PROVE LogInv'
  <2>1. MutualExclusion'
    BY <1>5, <1>b, Zenon DEF ReadLatest, StartCursor, Critical
  <2>2. PendingFollowsLog'
    <3>1. CASE StartCursor(h)
      BY <3>1, Zenon DEF StartCursor, PendingFollowsLog
    <3>2. CASE ReadLatest(h)
      <4>1. \A g \in Handlers : req'[g].size = req[g].size
        BY <3>2 DEF ReadLatest, Request
      <4> QED
        BY <3>2, <4>1, Zenon DEF ReadLatest, PendingFollowsLog
    <3> QED
      BY <1>5, <3>1, <3>2, Zenon
  <2> QED
    BY <1>5, <2>1, <2>2, Zenon DEF ReadLatest, StartCursor, LogIsGapFree
<1>6. ASSUME NEW h \in Handlers, PutWebhook(h) \/ RemoveWebhook(h) PROVE LogInv'
  <2>1. MutualExclusion'
    BY <1>6, <1>b, Zenon DEF PutWebhook, RemoveWebhook, Critical
  <2>2. PendingFollowsLog'
    BY <1>6, Zenon DEF PutWebhook, RemoveWebhook, PendingFollowsLog
  <2> QED
    BY <1>6, <2>1, <2>2, Zenon DEF PutWebhook, RemoveWebhook, LogIsGapFree
\* A request that ends.
<1>c. ASSUME NEW h \in Handlers, EndRequest(h) PROVE MutualExclusion'
  BY <1>c, Zenon DEF EndRequest, Release, MutualExclusion, Critical
<1>7. ASSUME NEW h \in Handlers, DropRequest(h) PROVE LogInv'
  <2>1. PendingFollowsLog'
    BY <1>7, Zenon DEF DropRequest, EndRequest, PendingFollowsLog
  <2> QED
    BY <1>7, <1>c, <2>1, Zenon DEF DropRequest, LogIsGapFree
<1>8. ASSUME NEW h \in Handlers, PendingEvents(h) PROVE LogInv'
  <2>1. CASE latest + req[h].size > MaxSequence
    <3>1. EndRequest(h) /\ UNCHANGED durable
      BY <1>8, <2>1, Zenon DEF PendingEvents
    <3>2. PendingFollowsLog'
      BY <3>1, Zenon DEF EndRequest, PendingFollowsLog
    <3> QED
      BY <1>c, <3>1, <3>2, Zenon DEF LogIsGapFree
  <2>2. CASE ~ (latest + req[h].size > MaxSequence)
    <3>1. /\ pc[h] \in {"body", "append"} /\ pc' = [pc EXCEPT ![h] = "commit"]
          /\ req' = [req EXCEPT ![h] = [@ EXCEPT !.seq = latest + 1, !.at = clock]]
          /\ UNCHANGED <<durable, locks>>
      BY <1>8, <2>2, Zenon DEF PendingEvents
    <3>2. MutualExclusion'
      BY <3>1, <1>b, Zenon DEF Critical
    <3>3. /\ req'[h].seq = latest + 1 /\ req'[h].size = req[h].size
          /\ \A g \in Handlers \ {h} : req'[g] = req[g]
      BY <3>1 DEF Request
    <3>4. PendingFollowsLog'
      <4> SUFFICES ASSUME NEW g \in Handlers
                   PROVE  /\ pc'[g] # "idle" => req'[g].size > 0
                          /\ pc'[g] = "commit" => req'[g].seq = latest' + 1
        BY Zenon DEF PendingFollowsLog
      <4>1. CASE g = h
        BY <3>1, <3>3, <4>1, Zenon DEF PendingFollowsLog
      <4>2. CASE g # h
        BY <3>1, <3>3, <4>2, Zenon DEF PendingFollowsLog
      <4> QED
        BY <4>1, <4>2, Zenon
    <3> QED
      BY <3>1, <3>2, <3>4, Zenon DEF LogIsGapFree
  <2> QED
    BY <2>1, <2>2, Zenon
\* The numbers a request holds are still the log's next ones when it commits them,
\* because nobody else can be in its critical section.
<1>9. ASSUME NEW h \in Handlers, CommitEvents(h) PROVE LogInv'
  <2> DEFINE first == req[h].seq
             last  == first + req[h].size - 1
  <2>1. /\ pc[h] = "commit" /\ latest' = last /\ minimum' = minimum /\ EndRequest(h)
        /\ log' = [s \in DOMAIN log \cup (first..last) |->
                     IF s \in first..last THEN [sequence |-> s, at |-> req[h].at] ELSE log[s]]
    BY <1>9, Zenon DEF CommitEvents, QueueEvents
  <2>2. first = latest + 1 /\ req[h].size > 0
    BY <2>1, Zenon DEF PendingFollowsLog
  <2>3. \A g \in Handlers : pc'[g] # "commit"
    BY <2>1, Zenon DEF MutualExclusion, EndRequest, Critical
  <2>4. PendingFollowsLog'
    BY <2>1, <2>3, Zenon DEF PendingFollowsLog, EndRequest
  <2>5. LogIsGapFree'
    BY <2>1, <2>2, SMTT(30) DEF LogIsGapFree
  <2> QED
    BY <2>1, <2>2, <2>4, <2>5, <1>c, SMTT(30)
<1>10. ASSUME RetentionTick \/ PruneGate PROVE LogInv'
  <2>1. MutualExclusion'
    BY <1>10, <1>b, Zenon DEF RetentionTick, PruneGate, Critical
  <2>2. PendingFollowsLog'
    BY <1>10, Zenon DEF RetentionTick, PruneGate, PendingFollowsLog
  <2> QED
    BY <1>10, <2>1, <2>2, Zenon DEF RetentionTick, PruneGate, LogIsGapFree
<1>11. ASSUME PruneScan PROVE LogInv'
  <2>1. MutualExclusion'
    BY <1>11, <1>b, Zenon DEF PruneScan, Critical
  <2>2. PendingFollowsLog'
    BY <1>11, Zenon DEF PruneScan, PendingFollowsLog
  <2> QED
    BY <1>11, <2>1, <2>2, Zenon DEF PruneScan, LogIsGapFree
<1>12. ASSUME PruneCursor PROVE LogInv'
  BY <1>12, LogFrame, Zenon DEF PruneCursor
\* A retention pass that ends.
<1>d. ASSUME EndPrune PROVE MutualExclusion' /\ \A h \in Handlers : pc'[h] = pc[h]
  BY <1>d, Zenon DEF EndPrune, Release, MutualExclusion, Critical
<1>13. ASSUME PruneApply PROVE LogInv'
  <2>1. PICK end \in minimum..PruneEnd :
          /\ log' = [s \in DOMAIN log \ (minimum..end) |-> log[s]]
          /\ minimum' = end + 1 /\ end <= latest
          /\ \/ mutation' = Nobody /\ pc' = [pc EXCEPT ![Pruner] = "gate"]
             \/ EndPrune
    BY <1>13, PrunedWithinLog, Zenon DEF PruneApply
  <2>2. latest' = latest /\ req' = req /\ pc[Pruner] = "cursors"
    BY <1>13, Zenon DEF PruneApply
  <2>3. MutualExclusion' /\ \A h \in Handlers : pc'[h] = pc[h]
    BY <2>1, <2>2, <1>d, Zenon DEF MutualExclusion, Critical
  <2>4. PendingFollowsLog'
    BY <2>2, <2>3, Zenon DEF PendingFollowsLog
  <2>6. LogIsGapFree' /\ minimum' <= latest' + 1
    BY <2>1, <2>2, SMTT(30) DEF LogIsGapFree
  <2> QED
    BY <2>3, <2>4, <2>6, Zenon
<1>14. ASSUME PruneNothing PROVE LogInv'
  <2>1. PendingFollowsLog'
    BY <1>14, <1>d, Zenon DEF PruneNothing, PendingFollowsLog
  <2> QED
    BY <1>14, <1>d, <2>1, Zenon DEF PruneNothing, LogIsGapFree
<1>15. ASSUME ProjectorTick PROVE LogInv'
  <2>1. MutualExclusion'
    BY <1>15, <1>b, Zenon DEF ProjectorTick, Critical
  <2>2. PendingFollowsLog'
    BY <1>15, Zenon DEF ProjectorTick, PendingFollowsLog
  <2> QED
    BY <1>15, <2>1, <2>2, Zenon DEF ProjectorTick, LogIsGapFree
<1>e. ASSUME EndProjection PROVE MutualExclusion' /\ \A h \in Handlers : pc'[h] = pc[h]
  BY <1>e, Zenon DEF EndProjection, Release, MutualExclusion, Critical
<1>16. ASSUME ProjectEvents PROVE LogInv'
  <2>1. EndProjection /\ UNCHANGED <<latest, minimum, log, req>>
    BY <1>16, Zenon DEF ProjectEvents
  <2>2. PendingFollowsLog'
    BY <2>1, <1>e, Zenon DEF PendingFollowsLog
  <2> QED
    BY <2>1, <2>2, <1>e, Zenon DEF LogIsGapFree
<1>17. ASSUME WorkerFails PROVE LogInv'
  <2>1. (EndPrune \/ EndProjection) /\ UNCHANGED <<latest, minimum, log, req>>
    BY <1>17, Zenon DEF WorkerFails
  <2>2. PendingFollowsLog'
    BY <2>1, <1>d, <1>e, Zenon DEF PendingFollowsLog
  <2> QED
    BY <2>1, <2>2, <1>d, <1>e, Zenon DEF LogIsGapFree
<1>18. ASSUME NEW c \in Callers, ReadEvents(c) PROVE LogInv'
  BY <1>18, LogFrame, Zenon DEF ReadEvents, EventsMinimum, EventsLatest, EventsFetch
<1>19. ASSUME Dispatch PROVE LogInv'
  BY <1>19, LogFrame, Zenon DEF Dispatch, DispatchOnce, DispatchWebhook, DispatchDone, DispatchEvent,
                         DispatchRuntime, DispatchAdvance, DispatchAbort
<1>20. ASSUME NEW s \in Streams, Subscribe(s) \/ StreamPoll(s) \/ StreamBatch(s) \/ StreamClose(s)
       PROVE LogInv'
  BY <1>20, LogFrame, Zenon DEF Subscribe, StreamPoll, StreamBatch, StreamClose
<1>21. ASSUME Tick PROVE LogInv'
  BY <1>21, LogFrame, Zenon DEF Tick
<1>22. ASSUME Crash PROVE LogInv'
  <2>1. MutualExclusion' /\ PendingFollowsLog'
    BY <1>22, Zenon DEF Crash, MutualExclusion, PendingFollowsLog, Critical
  <2> QED
    BY <1>22, <2>1, Zenon DEF Crash, LogIsGapFree
<1>23. ASSUME UNCHANGED vars PROVE LogInv'
  BY <1>23, LogFrame, Zenon DEF vars
<1> QED
  BY <1>2, <1>3, <1>4, <1>5, <1>6, <1>7, <1>8, <1>9, <1>10, <1>11, <1>12, <1>13, <1>14, <1>15,
     <1>16, <1>17, <1>18, <1>19, <1>20, <1>21, <1>22, <1>23, Zenon
     DEF Next, Handle, Prune, Project

-----------------------------------------------------------------------------
LEMMA InitInv == Init => TypeOK /\ LogInv
<1> SUFFICES ASSUME Init PROVE TypeOK /\ LogInv
  BY Zenon
<1>1. TypeOK
  <2>1. NoReq \in Request /\ NoRead \in Read
    BY Zenon DEF NoReq, NoRead, Request, Read
  <2>2. NoPrune \in [cutoff : Nat, safe : Nat, todo : SUBSET Webhooks]
    BY Zenon DEF NoPrune
  <2>3. NoPass.at = "idle" /\
        NoPass \in [at : {"idle", "next", "events", "send", "advance"},
                    todo : SUBSET Webhooks, hook : Webhooks \cup {Nobody}]
    BY Zenon DEF NoPass, Pass
  <2>4. DOMAIN log = {} /\ log \in [DOMAIN log -> Event]
    BY Zenon DEF Init
  <2>5. \A h \in Handlers : req[h].op = "append"
    BY Zenon DEF Init, NoReq
  <2> QED
    BY <2>1, <2>2, <2>3, <2>4, <2>5, SMTT(30) DEF Init, TypeOK
<1>2. LogInv
  BY DEF Init, LogInv, MutualExclusion, PendingFollowsLog, LogIsGapFree, Critical
<1> QED
  BY <1>1, <1>2, Zenon

\* Every behaviour of the log and its users keeps every variable in its type, the
\* mutation lock exclusive and the log without a gap.
THEOREM LogCorrect == Spec => [](TypeOK /\ LogInv)
<1>1. TypeOK /\ LogInv /\ [Next]_vars => (TypeOK /\ LogInv)'
  BY TypeStep, LogStep, Zenon DEF LogInv
<1> QED
  BY <1>1, InitInv, PTL DEF Spec

\* Type correctness of the event log, its locks and the locals of its users.
THEOREM TypeCorrect == Spec => []TypeOK
BY LogCorrect, PTL

\* "Append-only auth event log with gap-free sequencing": the retained records are
\* exactly those numbered minimum..latest, for any number of concurrent requests, any
\* batch sizes and any retention, whatever is dropped and whenever the process stops.
THEOREM GapFree == Spec => []LogIsGapFree
<1>1. LogInv => LogIsGapFree
  BY Zenon DEF LogInv
<1> QED
  BY <1>1, LogCorrect, PTL

\* Only commits and prunes touch the log.
LEMMA LogFrozen ==
  ASSUME TypeOK, UNCHANGED <<latest, minimum, log>>
  PROVE  /\ latest <= latest' /\ minimum <= minimum'
         /\ \A s \in DOMAIN log : s >= minimum' => s \in DOMAIN log' /\ log'[s] = log[s]
         /\ latest # latest' => minimum = minimum'
BY SMTT(30) DEF TypeOK

\* No step of any task rewrites, reorders or loses a retained event.
THEOREM LogAppendOnly == Spec => AppendOnly
<1> DEFINE A == /\ latest <= latest' /\ minimum <= minimum'
                /\ \A s \in DOMAIN log : s >= minimum' => s \in DOMAIN log' /\ log'[s] = log[s]
                /\ latest # latest' => minimum = minimum'
<1>1. ASSUME TypeOK, LogInv, [Next]_vars PROVE A
  <2> USE <1>1 DEF durable, locks, history
  <2>1. ASSUME NEW h \in Handlers, CommitEvents(h) PROVE A
    <3>1. req[h].seq = latest + 1 /\ req[h].size > 0 /\ req[h].size \in Nat
      BY <2>1, Zenon DEF CommitEvents, LogInv, PendingFollowsLog, TypeOK, Request
    <3>2. latest \in Nat /\ minimum \in Nat /\ DOMAIN log = minimum..latest
      BY Zenon DEF TypeOK, LogInv, LogIsGapFree
    <3>3. /\ minimum' = minimum /\ latest' = req[h].seq + req[h].size - 1
          /\ log' = [s \in DOMAIN log \cup (req[h].seq..latest') |->
                       IF s \in req[h].seq..latest' THEN [sequence |-> s, at |-> req[h].at] ELSE log[s]]
      BY <2>1, Zenon DEF CommitEvents, QueueEvents
    <3> QED
      BY <3>1, <3>2, <3>3, SMTT(30)
  <2>2. ASSUME PruneApply PROVE A
    <3>1. PICK end \in minimum..PruneEnd :
            /\ log' = [s \in DOMAIN log \ (minimum..end) |-> log[s]]
            /\ minimum' = end + 1 /\ latest' = latest
      BY <2>2, Zenon DEF PruneApply
    <3> QED
      BY <3>1, SMTT(30) DEF TypeOK, PruneEnd, AtMost
  <2>3. ASSUME NEW h \in Handlers,
               BeginAppend(h) \/ CreateWebhook(h) \/ UpdateWebhook(h) \/ DeleteWebhook(h)
        PROVE UNCHANGED <<latest, minimum, log>>
    BY <2>3, Zenon DEF BeginAppend, CreateWebhook, UpdateWebhook, DeleteWebhook, Begin
  <2>4. ASSUME NEW h \in Handlers,
               \/ ReadLatest(h) \/ StartCursor(h) \/ PutWebhook(h) \/ RemoveWebhook(h)
               \/ PendingEvents(h) \/ DropRequest(h)
        PROVE UNCHANGED <<latest, minimum, log>>
    BY <2>4, Zenon DEF ReadLatest, StartCursor, PutWebhook, RemoveWebhook, PendingEvents, DropRequest
  <2>5. ASSUME NEW t \in Tasks, EnterGate(t) \/ Lock(t) PROVE UNCHANGED <<latest, minimum, log>>
    BY <2>5, Zenon DEF EnterGate, Lock
  <2>6. ASSUME RetentionTick \/ PruneGate \/ PruneScan \/ PruneCursor \/ PruneNothing
               \/ ProjectorTick \/ ProjectEvents \/ WorkerFails \/ Tick \/ Crash
        PROVE UNCHANGED <<latest, minimum, log>>
    BY <2>6, Zenon DEF RetentionTick, PruneGate, PruneScan, PruneCursor, PruneNothing, ProjectorTick,
                ProjectEvents, WorkerFails, Tick, Crash
  <2>7. ASSUME NEW c \in Callers, ReadEvents(c) PROVE UNCHANGED <<latest, minimum, log>>
    BY <2>7, Zenon DEF ReadEvents, EventsMinimum, EventsLatest, EventsFetch
  <2>8. ASSUME Dispatch PROVE UNCHANGED <<latest, minimum, log>>
    BY <2>8, Zenon DEF Dispatch, DispatchOnce, DispatchWebhook, DispatchDone, DispatchEvent,
                DispatchRuntime, DispatchAdvance, DispatchAbort
  <2>9. ASSUME NEW s \in Streams, Subscribe(s) \/ StreamPoll(s) \/ StreamBatch(s) \/ StreamClose(s)
        PROVE UNCHANGED <<latest, minimum, log>>
    BY <2>9, Zenon DEF Subscribe, StreamPoll, StreamBatch, StreamClose
  <2>10. ASSUME UNCHANGED vars PROVE UNCHANGED <<latest, minimum, log>>
    BY <2>10, Zenon DEF vars
  <2> HIDE DEF A
  <2>11. ASSUME UNCHANGED <<latest, minimum, log>> PROVE A
    BY <2>11, LogFrozen, Zenon DEF A
  <2> QED
    BY <2>1, <2>2, <2>3, <2>4, <2>5, <2>6, <2>7, <2>8, <2>9, <2>10, <2>11, Zenon
       DEF Next, Handle, Prune, Project
<1>2. TypeOK /\ LogInv /\ [Next]_vars => [A]_vars
  BY <1>1, Zenon
<1> QED
  BY <1>2, LogCorrect, PTL DEF Spec, AppendOnly
=============================================================================
