----------------------- MODULE FleetConnectionsProofs -----------------------
(***************************************************************************)
(* Connections of a realm, for any number of handlers, requests, calls and *)
(* credentials, whatever calls are lost or late: a request's mutation is   *)
(* applied at most once, epochs are never reused, an environment has at    *)
(* most one live connection, and a revoked connection stays as it is.      *)
(***************************************************************************)
EXTENDS FleetConnections, FiniteSetTheorems, TLAPS

Workload ==
  [ops : SUBSET {"begin", "complete", "pair", "rotate", "revoke", "mutate", "read"},
   mode : {"public", "outbound"}, handlers : SUBSET Handlers, left : Nat,
   requests : SUBSET RequestIds, codes : Nat, environments : SUBSET Environments]

(* Handlers and calls. *)

IsWork(w) ==
  /\ DOMAIN w = {"op", "at", "request", "target", "subject", "credential", "staged", "epoch",
                 "second", "reply"}
  /\ w.op = "mutate" => w.request \in RequestIds /\ w.subject \in Operations
  /\ w.at \in {"receipt", "stage"} => w.op = "rotate"

IsCall(c) ==
  /\ DOMAIN c = {"kind", "bearer", "connection", "request", "about", "from", "at"}
  /\ c.kind = "mutate" => c.request \in RequestIds /\ c.about.operation \in Operations

\* A handler with work w awaits the answer to call c.
Awaits(w, c) ==
  /\ w.at = "await" /\ w.request = c.request
  /\ w.op = "complete" <=> c.kind = "exchange"
  /\ w.op = "mutate" <=> c.kind = "mutate"
  /\ c.kind = "exchange" => c.about.epoch = w.epoch
  /\ c.kind = "mutate" => c.about.operation = w.subject

LinkInv ==
  /\ workload \in Workload /\ DOMAIN handler = Handlers
  /\ \A h \in Handlers : handler[h] = Idle \/ IsWork(handler[h])
  /\ \A c \in calls : IsCall(c) /\ (c.from # None => c.from \in Handlers /\ Awaits(handler[c.from], c))
  /\ \A c, d \in calls : c.from = d.from /\ c.from # None => c = d

(* Mutations. *)

\* The call has claimed its request at the realm.
Past(c) == c.kind = "mutate" /\ c.at \in {"claimed", "applied", "unapplied", "logged", "unlogged"}

Claims(c) ==
  /\ c.request \in DOMAIN mutations
  /\ mutations[c.request] = [digest |-> c.about.operation, state |-> "pending"]
  /\ effects[c.request] = IF c.at \in {"claimed", "unapplied"} THEN <<>> ELSE <<c.about.operation>>

Mutated(w) == w.at = "answered" /\ w.op = "mutate"

\* The entry of an audit is about what was applied.
Applied(a) == a.action \in Operations => a.request \in RequestIds /\ effects[a.request] = <<a.action>>

MutationInv ==
  /\ DOMAIN effects = RequestIds
  /\ \A q \in RequestIds : effects[q] = <<>> \/ \E o \in Operations : effects[q] = <<o>>
  /\ \A q \in RequestIds : q \notin DOMAIN mutations => effects[q] = <<>>
  /\ \A q \in RequestIds : q \in DOMAIN mutations /\ mutations[q].state = "succeeded"
                           => effects[q] = <<mutations[q].digest>>
  /\ \A c \in calls : Past(c) => Claims(c)
  /\ \A c, d \in calls : Past(c) /\ Past(d) /\ c.request = d.request => c = d
  /\ \A h \in Handlers : Mutated(handler[h]) => effects[handler[h].request] = <<handler[h].subject>>
  /\ \E S : audit \in Seq(S)
  /\ \A i \in DOMAIN audit : Applied(audit[i])

(* Epochs and connections. *)

IsConnection(r) ==
  r = [f \in {"environment", "mode", "epoch", "credential", "staged", "rotation", "state"} |-> r[f]]

\* A handler that has reserved an epoch, and has not yet given it to a connection.
Holds(w) == w.at = "reserved" \/ (w.at \in {"await", "answered"} /\ w.op = "complete")

\* The realm has made a grant for the handler.
Paired(w) == w.at = "answered" /\ w.op = "complete"

Unused(e) == e \in 1..epoch /\ \A n \in DOMAIN connections : connections[n].epoch # e

HandlerEpoch(w) ==
  /\ w.at = "initialize" /\ epoch = NoEpoch => w.epoch = 0
  /\ w.at = "increment" => epoch # NoEpoch
  /\ Holds(w) => Unused(w.epoch)
  /\ Paired(w) => w.reply \in DOMAIN grants /\ grants[w.reply].epoch = w.epoch

\* The call tells the realm of a connection that Fleet has, with its epoch.
Tells(c) ==
  c.kind = "consume" => c.connection \in DOMAIN connections
                        /\ c.about.epoch = connections[c.connection].epoch

Receipted(r) == r.action = "connection.complete" => r.resource \in DOMAIN connections

EpochInv ==
  /\ epoch \in Int /\ epoch >= NoEpoch /\ made \in Nat
  /\ reserved \in Seq(Nat) /\ \A i \in DOMAIN reserved : reserved[i] \in 1..epoch
  /\ EpochsNeverReused
  /\ \A h \in Handlers : HandlerEpoch(handler[h])
  /\ \A h, k \in Handlers : Holds(handler[h]) /\ Holds(handler[k]) /\ handler[h].epoch = handler[k].epoch
                            => h = k
  /\ DOMAIN connections \subseteq 1..made /\ DOMAIN grants \subseteq 1..made
  /\ \A n \in DOMAIN connections : IsConnection(connections[n]) /\ connections[n].epoch \in 1..epoch
  /\ \A n \in DOMAIN grants : DOMAIN grants[n] = {"digest", "epoch", "revoked"}
  /\ \A c \in calls : Tells(c)
  /\ \A q \in DOMAIN receipts : Receipted(receipts[q])

ConnectionsInv == LinkInv /\ MutationInv /\ EpochInv /\ OneLivePerEnvironment

\* A revoked connection is not changed by the step.
Stays ==
  \A n \in DOMAIN connections :
    connections[n].state = "revoked" => n \in DOMAIN connections' /\ connections'[n] = connections[n]

-----------------------------------------------------------------------------
(* What a step does with handlers and calls. *)

Turned(h, v) ==
  DOMAIN handler' = Handlers /\ \A k \in Handlers : handler'[k] = IF k = h THEN v ELSE handler[k]

\* The same call, perhaps further on or with nobody to wait for it.
Like(d, c) ==
  d.kind = c.kind /\ d.connection = c.connection /\ d.request = c.request /\ d.about = c.about

\* No call claims its request, or goes on with it, in this step.
MutationCalls ==
  \/ \A d \in calls' : Past(d) => d \in calls
  \/ \E c \in calls, d \in calls' : calls' = (calls \ {c}) \cup {d} /\ Like(d, c) /\ d.at = c.at

\* The realm is told of no other connection.
EpochCalls == \A d \in calls' : d.kind = "consume" => \E c \in calls : Like(d, c)

\* A handler's work and a call keep the other fields when one is set.
LEMMA AtSet ==
  ASSUME NEW w, IsWork(w), NEW x, x \in {"receipt", "stage"} => w.op = "rotate",
         NEW v, v = [w EXCEPT !.at = x]
  PROVE  /\ IsWork(v) /\ v.at = x /\ v.op = w.op /\ v.request = w.request /\ v.subject = w.subject
         /\ v.epoch = w.epoch
BY Zenon DEF IsWork

LEMMA SecondSet ==
  ASSUME NEW w, IsWork(w), NEW y, NEW v, v = [w EXCEPT !.second = y]
  PROVE  IsWork(v) /\ v.op = w.op /\ v.request = w.request
BY Zenon DEF IsWork

LEMMA CallSet ==
  ASSUME NEW c, IsCall(c), NEW x
  PROVE  /\ LET d == [c EXCEPT !.at = x] IN
            IsCall(d) /\ Like(d, c) /\ d.from = c.from /\ d.at = x
         /\ LET d == [c EXCEPT !.from = x] IN
            IsCall(d) /\ Like(d, c) /\ d.at = c.at /\ d.from = x
BY Zenon DEF IsCall, Like

LEMMA Turns ==
  ASSUME LinkInv, NEW h \in Handlers, NEW v, Go(h, v)
  PROVE  Turned(h, v)
BY Zenon DEF LinkInv, Go, Turned

\* Who does not wait has no call under way.
LEMMA NoCallFrom ==
  ASSUME LinkInv, NEW h \in Handlers, handler[h].at # "await"
  PROVE  \A c \in calls : c.from # h
BY FleetConnectionsConstants, Zenon DEF LinkInv, Awaits

LEMMA HandlerTurns ==
  ASSUME LinkInv, NEW h \in Handlers, NEW v, Turned(h, v), v = Idle \/ IsWork(v), calls' = calls,
         \A c \in calls : c.from # h, workload' \in Workload
  PROVE  LinkInv' /\ MutationCalls /\ EpochCalls
<1>1. \A k \in Handlers : handler'[k] = Idle \/ IsWork(handler'[k])
  BY Zenon DEF LinkInv, Turned
<1>2. ASSUME NEW c \in calls, c.from # None PROVE c.from \in Handlers /\ Awaits(handler'[c.from], c)
  BY <1>2, Zenon DEF LinkInv, Turned
<1>3. LinkInv'
  BY <1>1, <1>2, Zenon DEF LinkInv, Turned
<1>4. EpochCalls
  BY Zenon DEF EpochCalls, Like
<1> QED
  BY <1>3, <1>4, Zenon DEF MutationCalls

LEMMA HandlerSends ==
  ASSUME LinkInv, NEW h \in Handlers, handler[h].at # "await", NEW v, Turned(h, v), v = Idle \/ IsWork(v),
         NEW c, IsCall(c), c.from = None \/ (c.from = h /\ Awaits(v, c)), c.at = "sent",
         calls' = calls \cup {c}, workload' \in Workload
  PROVE  LinkInv' /\ MutationCalls /\ (c.kind # "consume" => EpochCalls)
<1>1. \A k \in Handlers : handler'[k] = Idle \/ IsWork(handler'[k])
  BY Zenon DEF LinkInv, Turned
<1>2. \A d \in calls : d.from # h
  BY NoCallFrom, Zenon
<1>3. ASSUME NEW d \in calls', d.from # None PROVE d.from \in Handlers /\ Awaits(handler'[d.from], d)
  <2>1. CASE d = c
    BY <1>3, <2>1, Zenon DEF Turned
  <2>2. CASE d \in calls
    BY <1>2, <1>3, <2>2, Zenon DEF LinkInv, Turned
  <2> QED
    BY <2>1, <2>2, Zenon
<1>4. \A d, e \in calls' : d.from = e.from /\ d.from # None => d = e
  BY <1>2, Zenon DEF LinkInv
<1>5. \A d \in calls' : IsCall(d)
  BY Zenon DEF LinkInv
<1>6. LinkInv'
  BY <1>1, <1>3, <1>4, <1>5, Zenon DEF LinkInv, Turned
<1>7. ~Past(c)
  BY Zenon DEF Past
<1>8. c.kind # "consume" => EpochCalls
  BY Zenon DEF EpochCalls, Like
<1> QED
  BY <1>6, <1>7, <1>8, Zenon DEF MutationCalls

LEMMA CallEnds ==
  ASSUME LinkInv, NEW c \in calls, calls' = calls \ {c}, workload' \in Workload,
         \/ handler' = handler
         \/ c.from # None /\ \E v : IsWork(v) /\ Turned(c.from, v)
  PROVE  LinkInv' /\ MutationCalls /\ EpochCalls
<1>1. DOMAIN handler' = Handlers /\ \A k \in Handlers : handler'[k] = Idle \/ IsWork(handler'[k])
  BY Zenon DEF LinkInv, Turned
<1>2. ASSUME NEW d \in calls', d.from # None PROVE d.from \in Handlers /\ Awaits(handler'[d.from], d)
  <2>1. d \in calls /\ d # c
    BY Zenon
  <2>2. d.from \in Handlers /\ Awaits(handler[d.from], d) /\ d.from # c.from
    BY <1>2, <2>1, Zenon DEF LinkInv
  <2> QED
    BY <2>2, Zenon DEF Turned
<1>3. LinkInv'
  BY <1>1, <1>2, Zenon DEF LinkInv
<1>4. EpochCalls
  BY Zenon DEF EpochCalls, Like
<1> QED
  BY <1>3, <1>4, Zenon DEF MutationCalls

LEMMA CallGoesOn ==
  ASSUME LinkInv, NEW c \in calls, NEW d, IsCall(d), Like(d, c), d.from = c.from, handler' = handler,
         calls' = (calls \ {c}) \cup {d}, workload' \in Workload
  PROVE  LinkInv' /\ EpochCalls /\ (~Past(d) => MutationCalls)
<1>1. c.from # None => Awaits(handler[c.from], d) /\ c.from \in Handlers
  BY Zenon DEF LinkInv, Awaits, Like
<1>2. \A e \in calls' : IsCall(e) /\ (e.from # None => e.from \in Handlers /\ Awaits(handler'[e.from], e))
  BY <1>1, Zenon DEF LinkInv
<1>3. \A e, g \in calls' : e.from = g.from /\ e.from # None => e = g
  BY Zenon DEF LinkInv
<1>4. LinkInv'
  BY <1>2, <1>3, Zenon DEF LinkInv
<1>5. EpochCalls
  BY Zenon DEF EpochCalls, Like
<1> QED
  BY <1>4, <1>5, Zenon DEF MutationCalls

LEMMA CallLetGo ==
  ASSUME LinkInv, NEW c \in calls, c.from # None, NEW v, v = Idle \/ IsWork(v), Turned(c.from, v),
         calls' = (calls \ {c}) \cup {[c EXCEPT !.from = None]}, workload' \in Workload
  PROVE  LinkInv' /\ MutationCalls /\ EpochCalls
<1>1. PICK d : d = [c EXCEPT !.from = None]
  BY Zenon
<1>2. IsCall(d) /\ Like(d, c) /\ d.at = c.at /\ d.from = None
  BY <1>1, CallSet, Zenon DEF LinkInv
<1>3. calls' = (calls \ {c}) \cup {d}
  BY <1>1, Zenon
<1>4. \A k \in Handlers : handler'[k] = Idle \/ IsWork(handler'[k])
  BY Zenon DEF LinkInv, Turned
<1>5. ASSUME NEW e \in calls', e.from # None PROVE e.from \in Handlers /\ Awaits(handler'[e.from], e)
  <2>1. e \in calls /\ e # c
    BY <1>2, <1>3, <1>5, Zenon
  <2>2. e.from \in Handlers /\ Awaits(handler[e.from], e) /\ e.from # c.from
    BY <1>5, <2>1, Zenon DEF LinkInv
  <2> QED
    BY <2>2, Zenon DEF Turned
<1>6. \A e, g \in calls' : e.from = g.from /\ e.from # None => e = g
  BY <1>2, <1>3, Zenon DEF LinkInv
<1>7. \A e \in calls' : IsCall(e)
  BY <1>2, <1>3, Zenon DEF LinkInv
<1>8. LinkInv'
  BY <1>4, <1>5, <1>6, <1>7, Zenon DEF LinkInv, Turned
<1>9. EpochCalls
  BY <1>2, <1>3, Zenon DEF EpochCalls, Like
<1>10. MutationCalls
  BY <1>2, <1>3, Zenon DEF MutationCalls
<1> QED
  BY <1>8, <1>9, <1>10, Zenon

-----------------------------------------------------------------------------
(* Steps that are none of a mutation's, or do not concern epochs. *)

MutationHandlers == \A k \in Handlers : Mutated(handler'[k]) => handler'[k] = handler[k]

AuditGrows == audit' = audit \/ \E a : audit' = Append(audit, a) /\ Applied(a)

\* Appending keeps the entries of a sequence.
LEMMA AppendIs ==
  ASSUME NEW S, NEW s \in Seq(S), NEW a, NEW t, t = Append(s, a)
  PROVE  /\ t \in Seq(S \cup {a})
         /\ \A i \in DOMAIN t : t[i] = a \/ (i \in DOMAIN s /\ t[i] = s[i])
<1>1. s \in Seq(S \cup {a})
  BY SMT
<1> QED
  BY <1>1, SMT

LEMMA AuditKept ==
  ASSUME MutationInv, AuditGrows, effects' = effects
  PROVE  (\E S : audit' \in Seq(S)) /\ \A i \in DOMAIN audit' : Applied(audit[i])'
<1>0. \A a : Applied(a)' <=> Applied(a)
  BY Zenon DEF Applied
<1>1. CASE audit' = audit
  BY <1>0, <1>1, Zenon DEF MutationInv
<1>2. ASSUME NEW a, audit' = Append(audit, a), Applied(a)
      PROVE  (\E S : audit' \in Seq(S)) /\ \A i \in DOMAIN audit' : Applied(audit'[i])
  <2>1. PICK S : audit \in Seq(S)
    BY Zenon DEF MutationInv
  <2>2. /\ audit' \in Seq(S \cup {a})
        /\ \A i \in DOMAIN audit' : audit'[i] = a \/ (i \in DOMAIN audit /\ audit'[i] = audit[i])
    BY <1>2, <2>1, AppendIs, SMT
  <2> QED
    BY <1>2, <2>2, Zenon DEF MutationInv
<1> QED
  BY <1>0, <1>1, <1>2, Zenon DEF AuditGrows

LEMMA MutationQuiet ==
  ASSUME MutationInv, UNCHANGED <<effects, mutations>>, AuditGrows, MutationHandlers, MutationCalls
  PROVE  MutationInv'
<1>1. /\ \E S : audit' \in Seq(S)
      /\ \A i \in DOMAIN audit' : Applied(audit[i])'
  BY AuditKept, Zenon
<1>2. /\ \A c \in calls' : Past(c) => Claims(c)'
      /\ \A c, d \in calls' : Past(c) /\ Past(d) /\ c.request = d.request => c = d
  <2>0. \A c : Claims(c)' <=> Claims(c)
    BY Zenon DEF Claims
  <2>1. CASE \A d \in calls' : Past(d) => d \in calls
    BY <2>0, <2>1, Zenon DEF MutationInv
  <2>2. ASSUME NEW c \in calls, NEW d \in calls', calls' = (calls \ {c}) \cup {d}, Like(d, c), d.at = c.at
        PROVE  /\ \A e \in calls' : Past(e) => Claims(e)
               /\ \A e, g \in calls' : Past(e) /\ Past(g) /\ e.request = g.request => e = g
    <3>1. Past(d) => Past(c) /\ d.request = c.request
      BY <2>2, Zenon DEF Past, Like
    <3>2. Past(d) => Claims(d)
      BY <2>2, <3>1, Zenon DEF MutationInv, Claims, Like
    <3> QED
      BY <2>2, <3>1, <3>2, Zenon DEF MutationInv
  <2> QED
    BY <2>0, <2>1, <2>2, Zenon DEF MutationCalls
<1>3. \A h \in Handlers : Mutated(handler'[h]) => effects[handler'[h].request] = <<handler'[h].subject>>
  BY Zenon DEF MutationHandlers, MutationInv
<1> QED
  BY <1>1, <1>2, <1>3, Zenon DEF MutationInv, Mutated, Past

\* A handler neither reserves an epoch nor is told of a grant.
Tame(w, v) ==
  /\ v.at \notin {"initialize", "increment", "reserved"} /\ ~Paired(v)
  /\ v.at = "await" /\ v.op = "complete" => Holds(w) /\ v.epoch = w.epoch

EpochHandlers == \A k \in Handlers : handler'[k] = handler[k] \/ Tame(handler[k], handler'[k])

ConnectionsKept ==
  /\ DOMAIN connections' = DOMAIN connections
  /\ \A n \in DOMAIN connections :
       /\ IsConnection(connections'[n]) /\ connections'[n].epoch = connections[n].epoch
       /\ connections'[n].environment = connections[n].environment
       /\ connections[n].state = "revoked" => connections'[n] = connections[n]

GrantsKept ==
  /\ DOMAIN grants' = DOMAIN grants
  /\ \A n \in DOMAIN grants : /\ DOMAIN grants'[n] = {"digest", "epoch", "revoked"}
                              /\ grants'[n].epoch = grants[n].epoch

ReceiptsGrow ==
  \A q \in DOMAIN receipts' :
    Receipted(receipts'[q]) \/ (q \in DOMAIN receipts /\ receipts'[q] = receipts[q])

\* A live connection was live before.
LEMMA KeptConnections ==
  ASSUME ConnectionsKept, OneLivePerEnvironment
  PROVE  OneLivePerEnvironment' /\ Stays
<1>1. \A n \in DOMAIN connections : connections'[n].state # "revoked" => connections[n].state # "revoked"
  BY Zenon DEF ConnectionsKept
<1>2. OneLivePerEnvironment'
  BY <1>1, Zenon DEF ConnectionsKept, OneLivePerEnvironment
<1> QED
  BY <1>2, Zenon DEF ConnectionsKept, Stays

\* The grants are numbered, and agree with Fleet on the epochs.
GrantsFit ==
  \A n \in DOMAIN grants' :
    /\ n \in 1..made' /\ DOMAIN grants'[n] = {"digest", "epoch", "revoked"}
    /\ n \in DOMAIN connections => grants'[n].epoch = connections[n].epoch

Distinct ==
  \A h, k \in Handlers :
    Holds(handler[h]) /\ Holds(handler[k]) /\ handler[h].epoch = handler[k].epoch => h = k

LEMMA EpochRest ==
  ASSUME EpochInv, epoch' \in Int, epoch' >= epoch, reserved' \in Seq(Nat),
         \A i \in DOMAIN reserved' : reserved'[i] \in 1..epoch',
         \A i, j \in DOMAIN reserved' : reserved'[i] = reserved'[j] => i = j,
         made' \in Nat, made' >= made, ConnectionsKept, GrantsFit, ReceiptsGrow,
         \A k \in Handlers : HandlerEpoch(handler[k])', Distinct', \A c \in calls' : Tells(c)
  PROVE  EpochInv'
<1>1. \A m, n \in DOMAIN connections' : connections'[m].epoch = connections'[n].epoch => m = n
  BY Zenon DEF EpochInv, EpochsNeverReused, ConnectionsKept
<1>2. \A n \in DOMAIN connections' \cap DOMAIN grants' : grants'[n].epoch = connections'[n].epoch
  BY Zenon DEF GrantsFit, ConnectionsKept
<1>3. EpochsNeverReused'
  BY <1>1, <1>2, Zenon DEF EpochsNeverReused
<1>4. 1..made \subseteq 1..made' /\ 1..epoch \subseteq 1..epoch' /\ epoch' >= NoEpoch
  BY SMT DEF EpochInv, NoEpoch
<1>5. DOMAIN connections' \subseteq 1..made' /\ DOMAIN grants' \subseteq 1..made'
  BY <1>4, Zenon DEF EpochInv, ConnectionsKept, GrantsFit
<1>6. \A n \in DOMAIN connections' : IsConnection(connections'[n]) /\ connections'[n].epoch \in 1..epoch'
  BY <1>4, Zenon DEF EpochInv, ConnectionsKept
<1>7. \A n \in DOMAIN grants' : DOMAIN grants'[n] = {"digest", "epoch", "revoked"}
  BY Zenon DEF GrantsFit
<1>8. \A c \in calls' : Tells(c)'
  BY Zenon DEF Tells, ConnectionsKept
<1>9. \A q \in DOMAIN receipts' : Receipted(receipts[q])'
  BY Zenon DEF EpochInv, ReceiptsGrow, Receipted, ConnectionsKept
<1> QED
  BY <1>3, <1>4, <1>5, <1>6, <1>7, <1>8, <1>9, Zenon DEF EpochInv, Distinct

LEMMA HandlersKept ==
  ASSUME EpochInv, epoch' = epoch, ConnectionsKept, GrantsKept, EpochHandlers
  PROVE  (\A k \in Handlers : HandlerEpoch(handler[k])') /\ Distinct'
<1>1. \A e : Unused(e)' <=> Unused(e)
  BY Zenon DEF Unused, ConnectionsKept
<1>2. ASSUME NEW k \in Handlers PROVE HandlerEpoch(handler[k])'
  <2>0. HandlerEpoch(handler[k])
    BY Zenon DEF EpochInv
  <2>1. CASE handler'[k] = handler[k]
    BY <1>1, <2>0, <2>1, Zenon DEF HandlerEpoch, Paired, Holds, GrantsKept
  <2>2. CASE Tame(handler[k], handler'[k])
    BY <1>1, <2>0, <2>2, Zenon DEF Tame, HandlerEpoch, Paired, Holds
  <2> QED
    BY <2>1, <2>2, Zenon DEF EpochHandlers
<1>3. \A k \in Handlers : Holds(handler'[k]) => Holds(handler[k]) /\ handler'[k].epoch = handler[k].epoch
  BY Zenon DEF EpochHandlers, Tame, Holds, Paired
<1>4. \A h, k \in Handlers :
        Holds(handler'[h]) /\ Holds(handler'[k]) /\ handler'[h].epoch = handler'[k].epoch => h = k
  BY <1>3, Zenon DEF EpochInv
<1>5. Distinct'
  BY <1>4, Zenon DEF Distinct, Holds
<1> QED
  BY <1>2, <1>5, Zenon

\* Nothing is reserved, and the grants keep their epochs.
LEMMA EpochsKept ==
  ASSUME EpochInv, UNCHANGED <<epoch, reserved>>, made' \in Nat, made' >= made, GrantsKept
  PROVE  /\ GrantsFit /\ epoch' \in Int /\ epoch' >= epoch
         /\ reserved' \in Seq(Nat) /\ \A i \in DOMAIN reserved' : reserved'[i] \in 1..epoch'
         /\ \A i, j \in DOMAIN reserved' : reserved'[i] = reserved'[j] => i = j
<1>1. 1..made \subseteq 1..made'
  BY SMT DEF EpochInv
<1>2. GrantsFit
  BY <1>1, Zenon DEF EpochInv, EpochsNeverReused, GrantsKept, GrantsFit
<1>3. epoch' \in Int /\ epoch' >= epoch
  BY SMT DEF EpochInv
<1> QED
  BY <1>2, <1>3, Zenon DEF EpochInv, EpochsNeverReused

LEMMA EpochQuiet ==
  ASSUME EpochInv, UNCHANGED <<epoch, reserved>>, made' \in Nat, made' >= made,
         ConnectionsKept, GrantsKept, EpochHandlers, EpochCalls, ReceiptsGrow
  PROVE  EpochInv'
<1>1. (\A k \in Handlers : HandlerEpoch(handler[k])') /\ Distinct'
  BY HandlersKept, Zenon
<1>2. \A c \in calls' : Tells(c)
  BY Zenon DEF EpochInv, EpochCalls, Like, Tells
<1> QED
  BY <1>1, <1>2, EpochsKept, EpochRest, Zenon

\* What the steps of neither kind have in common.
Frame ==
  /\ UNCHANGED <<effects, mutations, epoch, reserved>> /\ made' \in Nat /\ made' >= made
  /\ AuditGrows /\ ReceiptsGrow /\ ConnectionsKept /\ GrantsKept

HandlersTame ==
  \A k \in Handlers : \/ handler'[k] = handler[k]
                      \/ Tame(handler[k], handler'[k]) /\ ~Mutated(handler'[k])

LEMMA Quiet ==
  ASSUME ConnectionsInv, LinkInv', MutationCalls, EpochCalls, Frame, HandlersTame
  PROVE  ConnectionsInv' /\ Stays
<1>1. MutationInv'
  BY MutationQuiet, Zenon DEF ConnectionsInv, Frame, HandlersTame, MutationHandlers
<1>2. EpochInv'
  BY EpochQuiet, Zenon DEF ConnectionsInv, Frame, HandlersTame, EpochHandlers
<1>3. OneLivePerEnvironment' /\ Stays
  BY KeptConnections, Zenon DEF ConnectionsInv, Frame
<1> QED
  BY <1>1, <1>2, <1>3, Zenon DEF ConnectionsInv

LEMMA QuietTurn ==
  ASSUME ConnectionsInv, NEW h \in Handlers, handler[h].at # "await", NEW v, Go(h, v),
         v = Idle \/ IsWork(v), Tame(handler[h], v), ~Mutated(v), calls' = calls,
         workload' \in Workload, Frame
  PROVE  ConnectionsInv' /\ Stays
<1>1. Turned(h, v)
  BY Turns, Zenon DEF ConnectionsInv
<1>2. LinkInv' /\ MutationCalls /\ EpochCalls
  BY <1>1, NoCallFrom, HandlerTurns, Zenon DEF ConnectionsInv
<1>3. HandlersTame
  BY <1>1, Zenon DEF Turned, HandlersTame
<1> QED
  BY <1>2, <1>3, Quiet, Zenon

LEMMA QuietSend ==
  ASSUME ConnectionsInv, NEW h \in Handlers, handler[h].at # "await", NEW v, Go(h, v), IsWork(v),
         Tame(handler[h], v), ~Mutated(v), NEW c, IsCall(c), c.from = h, Awaits(v, c), c.at = "sent",
         c.kind # "consume", calls' = calls \cup {c}, workload' \in Workload, Frame
  PROVE  ConnectionsInv' /\ Stays
<1>1. Turned(h, v)
  BY Turns, Zenon DEF ConnectionsInv
<1>2. LinkInv' /\ MutationCalls /\ EpochCalls
  BY <1>1, HandlerSends, Zenon DEF ConnectionsInv
<1>3. HandlersTame
  BY <1>1, Zenon DEF Turned, HandlersTame
<1> QED
  BY <1>2, <1>3, Quiet, Zenon

\* A handler that is done, without a call.
LEMMA IdleIs == ~Mutated(Idle) /\ Idle.at = "idle" /\ \A w : Tame(w, Idle)
BY Zenon DEF Idle, Mutated, Tame, Paired

LEMMA QuietDone ==
  ASSUME ConnectionsInv, NEW h \in Handlers, handler[h].at # "await", Done(h), calls' = calls,
         workload' \in Workload, Frame
  PROVE  ConnectionsInv' /\ Stays
BY IdleIs, QuietTurn, Zenon DEF Done

\* How a call ends: with its answer, or refused or lost.
LEMMA Replied ==
  ASSUME LinkInv, NEW c \in calls, workload' \in Workload, NEW at, at \in {"answered", "failed"},
         NEW value, Reply(c, at, value)
  PROVE  /\ LinkInv' /\ MutationCalls /\ EpochCalls
         /\ \/ handler' = handler
            \/ /\ c.from \in Handlers /\ IsWork(handler[c.from]) /\ Awaits(handler[c.from], c)
               /\ Turned(c.from, [handler[c.from] EXCEPT !.at = at, !.reply = value])
<1>1. CASE c.from = None
  BY <1>1, CallEnds, Zenon DEF Reply
<1>2. CASE c.from # None
  <2>1. c.from \in Handlers /\ Awaits(handler[c.from], c)
    BY <1>2, Zenon DEF LinkInv
  <2>2. IsWork(handler[c.from])
    <3>1. handler[c.from] # Idle
      BY <2>1, IdleIs, Zenon DEF Awaits
    <3> QED
      BY <2>1, <3>1, Zenon DEF LinkInv
  <2>3. Turned(c.from, [handler[c.from] EXCEPT !.at = at, !.reply = value])
    BY <1>2, <2>1, Turns, Zenon DEF Reply
  <2>4. IsWork([handler[c.from] EXCEPT !.at = at, !.reply = value])
    <3>1. PICK w : w = handler[c.from]
      BY Zenon
    <3>2. at \notin {"receipt", "stage"}
      BY Zenon
    <3>3. IsWork(w)
      BY <2>2, <3>1, Zenon
    <3>4. IsWork([w EXCEPT !.at = at, !.reply = value])
      BY <3>2, <3>3, Zenon DEF IsWork
    <3> QED
      BY <3>1, <3>4, Zenon
  <2>5. calls' = calls \ {c}
    BY Zenon DEF Reply
  <2>6. LinkInv' /\ MutationCalls /\ EpochCalls
    BY <1>2, <2>3, <2>4, <2>5, CallEnds, Zenon
  <2> QED
    BY <2>1, <2>2, <2>3, <2>6, Zenon
<1> QED
  BY <1>1, <1>2, Zenon

\* An answer that is neither a grant nor that of a mutation.
LEMMA ReplyTame ==
  ASSUME NEW c, NEW w, IsWork(w), Awaits(w, c), NEW at, at \in {"answered", "failed"}, NEW value,
         NEW v, v = [w EXCEPT !.at = at, !.reply = value]
  PROVE  /\ at = "failed" \/ c.kind # "mutate" => ~Mutated(v)
         /\ at = "failed" \/ c.kind # "exchange" => Tame(w, v)
<1>1. v.at = at /\ v.op = w.op /\ v.epoch = w.epoch
  BY Zenon DEF IsWork
<1>2. at \notin {"initialize", "increment", "reserved"} /\ at # "await"
  BY Zenon
<1>3. at = "failed" => at # "answered"
  BY Zenon
<1>4. at = "failed" \/ c.kind # "mutate" => ~Mutated(v)
  BY <1>1, <1>3, Zenon DEF Awaits, Mutated
<1>5. at = "failed" \/ c.kind # "exchange" => ~Paired(v)
  BY <1>1, <1>3, Zenon DEF Awaits, Paired
<1> QED
  BY <1>1, <1>2, <1>4, <1>5, Zenon DEF Tame

LEMMA QuietEnd ==
  ASSUME ConnectionsInv, NEW c \in calls, workload' \in Workload, NEW at,
         at = "failed" \/ (at = "answered" /\ c.kind \notin {"exchange", "mutate"}),
         NEW value, Reply(c, at, value), Frame
  PROVE  ConnectionsInv' /\ Stays
<1>1. /\ LinkInv' /\ MutationCalls /\ EpochCalls
      /\ \/ handler' = handler
         \/ /\ c.from \in Handlers /\ IsWork(handler[c.from]) /\ Awaits(handler[c.from], c)
            /\ Turned(c.from, [handler[c.from] EXCEPT !.at = at, !.reply = value])
  BY Replied, Zenon DEF ConnectionsInv
<1>2. HandlersTame
  <2>1. CASE handler' = handler
    BY <2>1, Zenon DEF HandlersTame
  <2>2. CASE /\ c.from \in Handlers /\ IsWork(handler[c.from]) /\ Awaits(handler[c.from], c)
             /\ Turned(c.from, [handler[c.from] EXCEPT !.at = at, !.reply = value])
    <3>1. PICK v : v = [handler[c.from] EXCEPT !.at = at, !.reply = value]
      BY Zenon
    <3>2. at \in {"answered", "failed"} /\ (at = "failed" \/ (c.kind # "exchange" /\ c.kind # "mutate"))
      BY Zenon
    <3>3. ~Mutated(v) /\ Tame(handler[c.from], v)
      BY <2>2, <3>1, <3>2, ReplyTame, Zenon
    <3> QED
      BY <2>2, <3>1, <3>3, Zenon DEF HandlersTame, Turned
  <2> QED
    BY <1>1, <2>1, <2>2, Zenon
<1> QED
  BY <1>1, <1>2, Quiet, Zenon

LEMMA QuietGo ==
  ASSUME ConnectionsInv, NEW c \in calls, workload' \in Workload, NEW at, at \in {"taken", "granted"},
         calls' = (calls \ {c}) \cup {[c EXCEPT !.at = at]}, handler' = handler, Frame
  PROVE  ConnectionsInv' /\ Stays
<1>1. PICK d : d = [c EXCEPT !.at = at]
  BY Zenon
<1>2. IsCall(d) /\ Like(d, c) /\ d.from = c.from /\ d.at = at
  BY <1>1, CallSet, ZenonT(30) DEF ConnectionsInv, LinkInv
<1>3. ~Past(d)
  BY <1>2, Zenon DEF Past
<1>4. LinkInv' /\ EpochCalls /\ MutationCalls
  BY <1>1, <1>2, <1>3, CallGoesOn, Zenon DEF ConnectionsInv
<1>5. HandlersTame
  BY Zenon DEF HandlersTame
<1> QED
  BY <1>4, <1>5, Quiet, Zenon

\* What the frame asks of the store's variables.
LEMMA Kept ==
  ASSUME EpochInv
  PROVE  /\ connections' = connections => ConnectionsKept
         /\ grants' = grants => GrantsKept
         /\ receipts' = receipts => ReceiptsGrow
         /\ audit' = audit => AuditGrows
         /\ made' = made => made' \in Nat /\ made' >= made
         /\ made' = made + 1 => made' \in Nat /\ made' >= made
<1>1. connections' = connections => ConnectionsKept
  BY Zenon DEF EpochInv, ConnectionsKept
<1>2. grants' = grants => GrantsKept
  BY Zenon DEF EpochInv, GrantsKept
<1>3. made \in Nat
  BY Zenon DEF EpochInv
<1>4. /\ made' = made => made' \in Nat /\ made' >= made
      /\ made' = made + 1 => made' \in Nat /\ made' >= made
  BY <1>3, SMT
<1> QED
  BY <1>1, <1>2, <1>4, Zenon DEF ReceiptsGrow, AuditGrows

LEMMA FrameKept ==
  ASSUME ConnectionsInv, UNCHANGED <<fleet, realm, made>>
  PROVE  Frame
<1>1. /\ UNCHANGED <<connections, receipts, audit, epoch, reserved>>
      /\ UNCHANGED <<grants, mutations, effects, made>>
  BY Zenon DEF fleet, realm
<1> QED
  BY <1>1, Kept, Zenon DEF ConnectionsInv, Frame

LEMMA Persisted ==
  ASSUME NEW q, NEW action, NEW n, persist_fleet_mutation(q, action, n), action \notin Operations
  PROVE  AuditGrows /\ (action # "connection.complete" => ReceiptsGrow)
<1>1. PICK a : a = [request |-> q, action |-> action, resource |-> n]
  BY Zenon
<1>2. audit' = Append(audit, a) /\ a.action = action
  BY <1>1, Zenon DEF persist_fleet_mutation
<1>3. AuditGrows
  BY <1>2, Zenon DEF AuditGrows, Applied
<1>4. receipts' = With(receipts, q, Receipt(action, n)) /\ Receipt(action, n).action = action
  BY Zenon DEF persist_fleet_mutation, Receipt
<1>5. action # "connection.complete" => Receipted(Receipt(action, n))
  BY <1>4, Zenon DEF Receipted
<1>6. PICK t : t = Receipt(action, n)
  BY Zenon
<1>7. \A p \in DOMAIN receipts' : receipts'[p] = t \/ (p \in DOMAIN receipts /\ receipts'[p] = receipts[p])
  <2>1. /\ DOMAIN receipts' = DOMAIN receipts \cup {q} /\ receipts'[q] = t
        /\ \A p \in DOMAIN receipts : p # q => receipts'[p] = receipts[p]
    <3>1. receipts' = With(receipts, q, t)
      BY <1>4, <1>6, Zenon
    <3> QED
      BY <3>1, Zenon DEF With
  <2> QED
    BY <2>1, Zenon
<1> QED
  BY <1>3, <1>5, <1>6, <1>7, Zenon DEF ReceiptsGrow

\* A connection is changed, and keeps its epoch and environment; revoked, it is not changed.
LEMMA Amended ==
  ASSUME EpochInv, NEW n, NEW r, connections' = [connections EXCEPT ![n] = r],
         n \in DOMAIN connections =>
           /\ IsConnection(r) /\ r.epoch = connections[n].epoch
           /\ r.environment = connections[n].environment
           /\ connections[n].state = "revoked" => r = connections[n]
  PROVE  ConnectionsKept
<1>1. DOMAIN connections' = DOMAIN connections
  BY Zenon
<1>2. ASSUME NEW m \in DOMAIN connections
      PROVE  /\ IsConnection(connections'[m]) /\ connections'[m].epoch = connections[m].epoch
             /\ connections'[m].environment = connections[m].environment
             /\ connections[m].state = "revoked" => connections'[m] = connections[m]
  <2>1. CASE m = n
    <3>1. connections'[m] = r
      BY <2>1, Zenon
    <3> QED
      BY <2>1, <3>1, Zenon
  <2>2. CASE m # n
    <3>1. connections'[m] = connections[m]
      BY <2>2, Zenon
    <3> QED
      BY <3>1, Zenon DEF EpochInv
  <2> QED
    BY <2>1, <2>2, Zenon
<1> QED
  BY <1>1, <1>2, Zenon DEF ConnectionsKept

\* Setting fields of a connection.
LEMMA StateSet ==
  ASSUME NEW r, IsConnection(r), NEW x, NEW s, s = [r EXCEPT !.state = x]
  PROVE  /\ IsConnection(s) /\ s.epoch = r.epoch /\ s.environment = r.environment
         /\ r.state = x => s = r
BY Zenon DEF IsConnection

-----------------------------------------------------------------------------
(* Fleet's handlers. *)

LEMMA RequestIs ==
  ASSUME NEW kind, NEW bearer, NEW n, NEW q, NEW about, NEW r, r = Request(kind, bearer, n, q, about)
  PROVE  /\ DOMAIN r = {"kind", "bearer", "connection", "request", "about", "from", "at"}
         /\ r.kind = kind /\ r.connection = n /\ r.request = q /\ r.about = about
         /\ r.from = None /\ r.at = "sent"
BY Zenon DEF Request

LEMMA FromSet ==
  ASSUME NEW r, DOMAIN r = {"kind", "bearer", "connection", "request", "about", "from", "at"},
         NEW h, NEW c, c = [r EXCEPT !.from = h]
  PROVE  /\ DOMAIN c = DOMAIN r /\ c.from = h
         /\ c.kind = r.kind /\ c.request = r.request /\ c.about = r.about /\ c.at = r.at
BY Zenon

\* A handler sends a call that fits its work, and waits.
LEMMA Asks ==
  ASSUME ConnectionsInv, NEW h \in Handlers, handler[h].at # "await", NEW w, IsWork(w),
         NEW kind, NEW bearer, NEW n, NEW about, Ask(h, w, Request(kind, bearer, n, w.request, about)),
         kind # "consume", w.op = "complete" <=> kind = "exchange", w.op = "mutate" <=> kind = "mutate",
         kind = "exchange" => /\ about.epoch = w.epoch
                              /\ Holds(handler[h]) /\ handler[h].epoch = w.epoch,
         kind = "mutate" => about.operation = w.subject,
         workload' \in Workload, Frame
  PROVE  ConnectionsInv' /\ Stays
<1>1. PICK v : v = [w EXCEPT !.at = "await"]
  BY Zenon
<1>2. /\ IsWork(v) /\ v.at = "await" /\ v.op = w.op /\ v.request = w.request /\ v.subject = w.subject
      /\ v.epoch = w.epoch
  BY <1>1, AtSet, SMT
<1>3. PICK c : c = [Request(kind, bearer, n, w.request, about) EXCEPT !.from = h]
  BY Zenon
<1>4. /\ DOMAIN c = {"kind", "bearer", "connection", "request", "about", "from", "at"}
      /\ c.kind = kind /\ c.request = w.request /\ c.about = about /\ c.from = h /\ c.at = "sent"
  <2>1. PICK r : r = Request(kind, bearer, n, w.request, about)
    BY Zenon
  <2>2. /\ DOMAIN r = {"kind", "bearer", "connection", "request", "about", "from", "at"}
        /\ r.kind = kind /\ r.request = w.request /\ r.about = about /\ r.at = "sent"
    BY <2>1, RequestIs, SMT
  <2>3. /\ DOMAIN c = DOMAIN r /\ c.from = h
        /\ c.kind = r.kind /\ c.request = r.request /\ c.about = r.about /\ c.at = r.at
    BY <1>3, <2>1, <2>2, FromSet, Zenon
  <2> QED
    BY <2>2, <2>3, Zenon
<1>5. Go(h, v) /\ calls' = calls \cup {c}
  BY <1>1, <1>3, Zenon DEF Ask
<1>6. IsCall(c)
  BY <1>4, Zenon DEF IsCall, IsWork
<1>7. Awaits(v, c)
  BY <1>2, <1>4, Zenon DEF Awaits
<1>8. Tame(handler[h], v) /\ ~Mutated(v)
  BY <1>2, Zenon DEF Tame, Mutated, Paired
<1> QED
  BY <1>2, <1>4, <1>5, <1>6, <1>7, <1>8, QuietSend, Zenon

LEMMA Busy ==
  ASSUME ConnectionsInv, NEW h \in Handlers, handler[h] # Idle
  PROVE  IsWork(handler[h])
BY Zenon DEF ConnectionsInv, LinkInv

LEMMA DoExchangePairingCode ==
  ASSUME ConnectionsInv, NEW h \in Handlers, handler[h] # Idle, workload' \in Workload,
         ExchangePairingCode(h)
  PROVE  ConnectionsInv' /\ Stays
<1> DEFINE w == handler[h]
           about == About(None, w.epoch, None)
<1>1. /\ w.at = "reserved" /\ w.op = "complete"
      /\ Ask(h, w, Request("exchange", w.subject.code, None, w.request, about))
      /\ UNCHANGED <<fleet, realm, made>>
  BY Zenon DEF ExchangePairingCode
<1>2. about.epoch = w.epoch
  BY Zenon DEF About
<1>3. IsWork(w) /\ Holds(w)
  BY <1>1, Busy, Zenon DEF Holds
<1>4. Frame
  BY <1>1, FrameKept, Zenon
<1>5. w.at # "await" /\ w.op # "mutate"
  BY <1>1, Zenon
<1> HIDE DEF about
<1> QED
  BY <1>1, <1>2, <1>3, <1>4, <1>5, Asks, SMT

LEMMA DoGiveUp ==
  ASSUME ConnectionsInv, NEW h \in Handlers, workload' \in Workload, GiveUp(h)
  PROVE  ConnectionsInv' /\ Stays
<1>1. /\ handler[h].at = "failed" /\ Done(h) /\ calls' = calls
      /\ UNCHANGED <<fleet, realm, made>>
  BY Zenon DEF GiveUp
<1>2. Frame
  BY <1>1, FrameKept, Zenon
<1> QED
  BY <1>1, <1>2, QuietDone, Zenon

LEMMA DoObserve ==
  ASSUME ConnectionsInv, NEW h \in Handlers, workload' \in Workload, Observe(h)
  PROVE  ConnectionsInv' /\ Stays
<1> DEFINE n == handler[h].target
<1>1. /\ handler[h].at \in {"recorded", "failed", "answered"} /\ Done(h)
      /\ UNCHANGED <<attempts, receipts, audit, epoch, reserved, calls, realm, made>>
  BY Zenon DEF Observe
<1>2. PICK state : observe_fleet_connection(n, state)
  BY Zenon DEF Observe
<1>3. ConnectionsKept
  <2>1. CASE connections[n].state = "revoked"
    BY <1>2, <2>1, Kept, Zenon DEF observe_fleet_connection, ConnectionsInv
  <2>2. CASE connections[n].state # "revoked"
    <3>1. PICK r : r = [connections[n] EXCEPT !.state = state]
      BY Zenon
    <3>2. connections' = [connections EXCEPT ![n] = r]
      BY <1>2, <2>2, <3>1, Zenon DEF observe_fleet_connection
    <3>3. n \in DOMAIN connections =>
            IsConnection(r) /\ r.epoch = connections[n].epoch /\ r.environment = connections[n].environment
      BY <3>1, StateSet, ZenonT(30) DEF ConnectionsInv, EpochInv
    <3> QED
      BY <2>2, <3>2, <3>3, Amended, Zenon DEF ConnectionsInv
  <2> QED
    BY <2>1, <2>2, Zenon
<1>4. UNCHANGED <<grants, mutations, effects>>
  BY <1>1, Zenon DEF realm
<1>5. Frame
  BY <1>1, <1>3, <1>4, Kept, Zenon DEF ConnectionsInv, Frame
<1>6. handler[h].at # "await" /\ calls' = calls
  BY <1>1, Zenon
<1> QED
  BY <1>1, <1>5, <1>6, QuietDone, Zenon

LEMMA DoStoreRevocation ==
  ASSUME ConnectionsInv, NEW h \in Handlers, workload' \in Workload, StoreRevocation(h)
  PROVE  ConnectionsInv' /\ Stays
<1> DEFINE n == handler[h].target
           q == handler[h].request
<1>1. /\ handler[h].at \in {"failed", "answered"} /\ Done(h) /\ revoke_fleet_connection(q, n)
      /\ UNCHANGED <<attempts, epoch, reserved, calls, realm, made>>
  BY Zenon DEF StoreRevocation
<1>2. UNCHANGED <<grants, mutations, effects>>
  BY <1>1, Zenon DEF realm
<1>3. ConnectionsKept /\ AuditGrows /\ ReceiptsGrow
  <2>1. CASE UNCHANGED <<connections, receipts, audit>>
    BY <2>1, Kept, Zenon DEF ConnectionsInv
  <2>2. CASE /\ connections' = [connections EXCEPT ![n].state = "revoked"]
             /\ persist_fleet_mutation(q, "connection.revoke", n)
    <3>1. PICK r : r = [connections[n] EXCEPT !.state = "revoked"]
      BY Zenon
    <3>2. connections' = [connections EXCEPT ![n] = r]
      BY <2>2, <3>1, Zenon
    <3>3. n \in DOMAIN connections =>
            /\ IsConnection(r) /\ r.epoch = connections[n].epoch
            /\ r.environment = connections[n].environment
            /\ connections[n].state = "revoked" => r = connections[n]
      <4>1. PICK s : s = connections[n]
        BY Zenon
      <4>2. r = [s EXCEPT !.state = "revoked"]
        BY <3>1, <4>1, Zenon
      <4>3. n \in DOMAIN connections => IsConnection(s)
        BY <4>1, Zenon DEF ConnectionsInv, EpochInv
      <4>4. IsConnection(s) => IsConnection(r) /\ r.epoch = s.epoch /\ r.environment = s.environment
        BY <4>2, Zenon DEF IsConnection
      <4>5. IsConnection(s) /\ s.state = "revoked" => r = s
        BY <4>2, Zenon DEF IsConnection
      <4>6. ASSUME n \in DOMAIN connections
            PROVE  /\ IsConnection(r) /\ r.epoch = s.epoch /\ r.environment = s.environment
                   /\ s.state = "revoked" => r = s
        BY <4>3, <4>4, <4>5, <4>6, Zenon
      <4> HIDE DEF n
      <4> QED
        BY <4>1, <4>6, SMT
    <3>4. ConnectionsKept
      BY <3>2, <3>3, Amended, Zenon DEF ConnectionsInv
    <3>5. "connection.revoke" \notin Operations /\ "connection.revoke" # "connection.complete"
      BY FleetConnectionsConstants, Zenon
    <3> QED
      BY <2>2, <3>4, <3>5, Persisted, SMT
  <2> QED
    BY <1>1, <2>1, <2>2, Zenon DEF revoke_fleet_connection
<1>4. Frame
  BY <1>1, <1>2, <1>3, Kept, Zenon DEF ConnectionsInv, Frame
<1>5. handler[h].at # "await" /\ calls' = calls
  BY <1>1, Zenon
<1> QED
  BY <1>1, <1>4, <1>5, QuietDone, Zenon

LEMMA DoStoreRotation ==
  ASSUME ConnectionsInv, NEW h \in Handlers, workload' \in Workload, StoreRotation(h)
  PROVE  ConnectionsInv' /\ Stays
<1> DEFINE n == handler[h].target
           q == handler[h].request
<1>1. /\ handler[h].at = "answered" /\ Done(h) /\ rotate_fleet_connection_credential(q, n)
      /\ UNCHANGED <<attempts, epoch, reserved, calls, realm, made>>
  BY Zenon DEF StoreRotation
<1>2. UNCHANGED <<grants, mutations, effects>>
  BY <1>1, Zenon DEF realm
<1>3. ConnectionsKept /\ AuditGrows /\ ReceiptsGrow
  <2>1. CASE UNCHANGED <<connections, receipts, audit>>
    BY <2>1, Kept, Zenon DEF ConnectionsInv
  <2>2. CASE /\ connections[n].state # "revoked"
             /\ connections' = [connections EXCEPT ![n] =
                  [connections[n] EXCEPT !.credential = connections[n].staged, !.staged = None,
                                         !.rotation = None]]
             /\ persist_fleet_mutation(q, "connection.rotate_credential", n)
    <3>1. PICK r : r = [connections[n] EXCEPT !.credential = connections[n].staged, !.staged = None,
                                              !.rotation = None]
      BY Zenon
    <3>2. connections' = [connections EXCEPT ![n] = r]
      BY <2>2, <3>1, Zenon
    <3>3. n \in DOMAIN connections =>
            IsConnection(r) /\ r.epoch = connections[n].epoch /\ r.environment = connections[n].environment
      <4>1. PICK s : s = connections[n]
        BY Zenon
      <4>2. r = [s EXCEPT !.credential = s.staged, !.staged = None, !.rotation = None]
        BY <3>1, <4>1, Zenon
      <4>3. n \in DOMAIN connections => IsConnection(s)
        BY <4>1, Zenon DEF ConnectionsInv, EpochInv
      <4>4. IsConnection(s) => IsConnection(r) /\ r.epoch = s.epoch /\ r.environment = s.environment
        BY <4>2, Zenon DEF IsConnection
      <4> QED
        BY <4>1, <4>3, <4>4, Zenon
    <3>4. ConnectionsKept
      BY <2>2, <3>2, <3>3, Amended, Zenon DEF ConnectionsInv
    <3>5. "connection.rotate_credential" \notin Operations /\ "connection.rotate_credential" # "connection.complete"
      BY FleetConnectionsConstants, Zenon
    <3> QED
      BY <2>2, <3>4, <3>5, Persisted, Zenon
  <2> QED
    BY <1>1, <2>1, <2>2, Zenon DEF rotate_fleet_connection_credential
<1>4. Frame
  BY <1>1, <1>2, <1>3, Kept, Zenon DEF ConnectionsInv, Frame
<1>5. handler[h].at # "await" /\ calls' = calls
  BY <1>1, Zenon
<1> QED
  BY <1>1, <1>4, <1>5, QuietDone, Zenon

LEMMA DoRotateAtRealm ==
  ASSUME ConnectionsInv, NEW h \in Handlers, handler[h] # Idle, handler[h].at \in {"receipt", "stage"},
         workload' \in Workload, NEW r, RotateAtRealm(h, r), Frame
  PROVE  ConnectionsInv' /\ Stays
<1>1. PICK w : w = [handler[h] EXCEPT !.credential = r.credential, !.staged = r.staged]
  BY Zenon
<1>2. IsWork(handler[h]) /\ handler[h].op = "rotate" /\ handler[h].at # "await"
  BY Busy, Zenon DEF IsWork
<1>3. IsWork(w) /\ w.op = "rotate"
  <2>1. PICK u : u = handler[h]
    BY Zenon
  <2>2. IsWork(u) /\ u.op = "rotate" /\ w = [u EXCEPT !.credential = r.credential, !.staged = r.staged]
    BY <1>1, <1>2, <2>1, Zenon
  <2> QED
    BY <2>2, Zenon DEF IsWork
<1>4. PICK about : about = About(r.staged, None, None)
  BY Zenon
<1>5. Ask(h, w, Request("rotate", r.credential, w.target, w.request, about))
  BY <1>1, <1>4, Zenon DEF RotateAtRealm
<1>6. w.op # "complete" /\ w.op # "mutate"
  BY <1>3, Zenon
<1> QED
  BY <1>2, <1>3, <1>5, <1>6, Asks, Zenon

LEMMA DoCheckRotationReceipt ==
  ASSUME ConnectionsInv, NEW h \in Handlers, handler[h] # Idle, workload' \in Workload,
         CheckRotationReceipt(h)
  PROVE  ConnectionsInv' /\ Stays
<1>1. handler[h].at = "receipt" /\ UNCHANGED <<fleet, realm, made>>
  BY Zenon DEF CheckRotationReceipt
<1>2. Frame
  BY <1>1, FrameKept, Zenon
<1>3. CASE Done(h) /\ UNCHANGED calls
  <2>1. handler[h].at # "await" /\ calls' = calls
    BY <1>1, <1>3, Zenon
  <2> QED
    BY <1>2, <1>3, <2>1, QuietDone, Zenon
<1>4. CASE RotateAtRealm(h, handler[h].subject)
  BY <1>1, <1>2, <1>4, DoRotateAtRealm, Zenon
<1>5. CASE Go(h, [handler[h] EXCEPT !.at = "stage"]) /\ UNCHANGED calls
  <2>1. PICK v : v = [handler[h] EXCEPT !.at = "stage"]
    BY Zenon
  <2>2. IsWork(handler[h]) /\ handler[h].op = "rotate"
    BY <1>1, Busy, Zenon DEF IsWork
  <2>3. IsWork(v) /\ v.at = "stage"
    BY <2>1, <2>2, AtSet, SMT
  <2>4. Tame(handler[h], v) /\ ~Mutated(v)
    BY <2>3, Zenon DEF Tame, Mutated, Paired
  <2>5. Go(h, v) /\ calls' = calls /\ handler[h].at # "await"
    BY <1>1, <1>5, <2>1, Zenon
  <2> QED
    BY <1>2, <2>3, <2>4, <2>5, QuietTurn, Zenon
<1> QED
  BY <1>3, <1>4, <1>5, Zenon DEF CheckRotationReceipt

LEMMA DoStage ==
  ASSUME ConnectionsInv, NEW h \in Handlers, handler[h] # Idle, workload' \in Workload,
         stage_fleet_connection_credential(h)
  PROVE  ConnectionsInv' /\ Stays
<1> DEFINE n == handler[h].target
           old == connections[n]
           new == [old EXCEPT !.staged = made + 1, !.rotation = handler[h].request]
<1>1. /\ handler[h].at = "stage"
      /\ UNCHANGED <<attempts, receipts, audit, epoch, reserved, realm>>
  BY Zenon DEF stage_fleet_connection_credential
<1>2. UNCHANGED <<grants, mutations, effects>>
  BY <1>1, Zenon DEF realm
<1>3. connections' = connections /\ made' = made => Frame
  BY <1>1, <1>2, Kept, Zenon DEF ConnectionsInv, Frame
<1>4. CASE Done(h) /\ UNCHANGED <<connections, calls, made>>
  <2>1. handler[h].at # "await" /\ calls' = calls
    BY <1>1, <1>4, Zenon
  <2> QED
    BY <1>3, <1>4, <2>1, QuietDone, Zenon
<1>5. CASE RotateAtRealm(h, old) /\ UNCHANGED <<connections, made>>
  BY <1>1, <1>3, <1>5, DoRotateAtRealm, Zenon
<1>6. CASE /\ old.state # "revoked" /\ connections' = [connections EXCEPT ![n] = new]
           /\ made' = made + 1 /\ RotateAtRealm(h, new)
  <2>1. PICK r : r = new
    BY Zenon
  <2>2. n \in DOMAIN connections =>
          IsConnection(r) /\ r.epoch = connections[n].epoch /\ r.environment = connections[n].environment
    <3>1. PICK s : s = connections[n]
      BY Zenon
    <3>2. r = [s EXCEPT !.staged = made + 1, !.rotation = handler[h].request]
      BY <2>1, <3>1, Zenon
    <3>3. n \in DOMAIN connections => IsConnection(s)
      BY <3>1, Zenon DEF ConnectionsInv, EpochInv
    <3>4. IsConnection(s) => IsConnection(r) /\ r.epoch = s.epoch /\ r.environment = s.environment
      BY <3>2, Zenon DEF IsConnection
    <3> QED
      BY <3>1, <3>3, <3>4, Zenon
  <2>3. ConnectionsKept
    BY <1>6, <2>1, <2>2, Amended, Zenon DEF ConnectionsInv
  <2>4. Frame
    BY <1>1, <1>2, <1>6, <2>3, Kept, Zenon DEF ConnectionsInv, Frame
  <2>5. RotateAtRealm(h, r) /\ handler[h].at \in {"receipt", "stage"}
    BY <1>1, <1>6, <2>1, Zenon
  <2> QED
    BY <2>4, <2>5, DoRotateAtRealm, Zenon
<1> QED
  BY <1>1, <1>4, <1>5, <1>6, Zenon DEF stage_fleet_connection_credential

LEMMA DoRetryWithStaged ==
  ASSUME ConnectionsInv, NEW h \in Handlers, handler[h] # Idle, workload' \in Workload,
         RetryWithStaged(h)
  PROVE  ConnectionsInv' /\ Stays
<1>1. PICK w : w = [handler[h] EXCEPT !.second = TRUE]
  BY Zenon
<1>2. PICK about : about = About(handler[h].staged, None, None)
  BY Zenon
<1>3. /\ handler[h].at = "failed" /\ handler[h].op = "rotate" /\ UNCHANGED <<fleet, realm, made>>
      /\ Ask(h, w, Request("rotate", handler[h].staged, handler[h].target, handler[h].request, about))
  BY <1>1, <1>2, Zenon DEF RetryWithStaged
<1>4. IsWork(handler[h])
  BY Busy, Zenon
<1>5. IsWork(w) /\ w.op = "rotate" /\ w.request = handler[h].request
  BY <1>1, <1>3, <1>4, SecondSet, SMT
<1>6. w.op # "complete" /\ w.op # "mutate" /\ handler[h].at # "await"
  BY <1>3, <1>5, Zenon
<1>7. Frame
  BY <1>3, FrameKept, Zenon
<1> QED
  BY <1>3, <1>5, <1>6, <1>7, Asks, Zenon

\* The call of a handler that stops waiting goes on.
LEMMA DoTimeout ==
  ASSUME ConnectionsInv, NEW h \in Handlers, handler[h] # Idle, workload' \in Workload, Timeout(h)
  PROVE  ConnectionsInv' /\ Stays
<1>1. PICK c \in calls : /\ c.from = h
                         /\ calls' = (calls \ {c}) \cup {[c EXCEPT !.from = None]}
                         /\ Go(h, [handler[h] EXCEPT !.at = "failed"])
                         /\ UNCHANGED <<fleet, realm, made>>
  BY Zenon DEF Timeout
<1>2. PICK v : v = [handler[h] EXCEPT !.at = "failed"]
  BY Zenon
<1>3. IsWork(v) /\ v.at = "failed"
  BY <1>2, Busy, AtSet, SMT
<1>4. Turned(h, v) /\ h # None
  BY <1>1, <1>2, Turns, FleetConnectionsConstants, Zenon DEF ConnectionsInv
<1>5. LinkInv' /\ MutationCalls /\ EpochCalls
  BY <1>1, <1>3, <1>4, CallLetGo, Zenon DEF ConnectionsInv
<1>6. Tame(handler[h], v) /\ ~Mutated(v)
  BY <1>3, Zenon DEF Tame, Mutated, Paired
<1>7. HandlersTame
  BY <1>4, <1>6, Zenon DEF HandlersTame, Turned
<1>8. Frame
  BY <1>1, FrameKept, Zenon
<1> QED
  BY <1>5, <1>7, <1>8, Quiet, Zenon

LEMMA DoAbandon ==
  ASSUME ConnectionsInv, NEW h \in Handlers, workload' \in Workload, Abandon(h)
  PROVE  ConnectionsInv' /\ Stays
<1>1. /\ Done(h) /\ UNCHANGED <<fleet, realm, made>>
      /\ calls' = {IF c.from = h THEN [c EXCEPT !.from = None] ELSE c : c \in calls}
  BY Zenon DEF Abandon
<1>2. Turned(h, Idle) /\ h # None
  BY <1>1, Turns, FleetConnectionsConstants, Zenon DEF ConnectionsInv, Done
<1>3. LinkInv' /\ MutationCalls /\ EpochCalls
  <2>1. CASE \A c \in calls : c.from # h
    <3>1. calls' = calls
      BY <1>1, <2>1, Zenon
    <3> QED
      BY <1>2, <2>1, <3>1, HandlerTurns, Zenon DEF ConnectionsInv
  <2>2. ASSUME NEW c \in calls, c.from = h PROVE LinkInv' /\ MutationCalls /\ EpochCalls
    <3>1. \A d \in calls : d.from = h => d = c
      BY <1>2, <2>2, Zenon DEF ConnectionsInv, LinkInv
    <3>2. calls' = (calls \ {c}) \cup {[c EXCEPT !.from = None]}
      BY <1>1, <2>2, <3>1, Zenon
    <3> QED
      BY <1>2, <2>2, <3>2, CallLetGo, Zenon DEF ConnectionsInv
  <2> QED
    BY <2>1, <2>2, Zenon
<1>4. HandlersTame
  BY <1>2, IdleIs, Zenon DEF HandlersTame, Turned
<1>5. Frame
  BY <1>1, FrameKept, Zenon
<1> QED
  BY <1>3, <1>4, <1>5, Quiet, Zenon

-----------------------------------------------------------------------------
(* New calls at Fleet. *)

LEMMA WorkIs ==
  ASSUME NEW op, NEW at, NEW q, NEW target, NEW subject,
         op = "mutate" => q \in RequestIds /\ subject \in Operations,
         at \in {"receipt", "stage"} => op = "rotate",
         NEW w, w = Work(op, at, q, target, subject)
  PROVE  IsWork(w) /\ w.op = op /\ w.at = at /\ w.request = q /\ w.subject = subject
BY Zenon DEF Work, IsWork

\* A handler starts, and has not called the realm.
LEMMA Starts ==
  ASSUME ConnectionsInv, NEW h \in Handlers, handler[h] = Idle, workload' \in Workload,
         NEW op, NEW at, NEW q, NEW target, NEW subject, Go(h, Work(op, at, q, target, subject)),
         op \in {"complete", "pair", "rotate", "revoke"}, at \in {"reserve", "lookup", "receipt", "answered"},
         at = "receipt" => op = "rotate", at = "answered" => op = "revoke",
         calls' = calls, UNCHANGED <<fleet, realm, made>>
  PROVE  ConnectionsInv' /\ Stays
<1>1. PICK w : w = Work(op, at, q, target, subject)
  BY Zenon
<1>2. IsWork(w) /\ w.op = op /\ w.at = at
  <2>1. op # "mutate" /\ (at \in {"receipt", "stage"} => op = "rotate")
    BY Zenon
  <2> QED
    BY <1>1, <2>1, WorkIs, SMT
<1>3. Tame(handler[h], w) /\ ~Mutated(w)
  BY <1>2, Zenon DEF Tame, Mutated, Paired
<1>4. Frame /\ handler[h].at # "await"
  BY FrameKept, IdleIs, Zenon
<1> QED
  BY <1>1, <1>2, <1>3, <1>4, QuietTurn, Zenon

LEMMA DoCompleteConnection ==
  ASSUME ConnectionsInv, NEW h \in Handlers, workload' \in Workload,
         NEW q, NEW a, NEW code, complete_connection(h, q, a, code)
  PROVE  ConnectionsInv' /\ Stays
<1>1. PICK subject : subject = [code |-> code, attempt |-> attempts[a]]
  BY Zenon
<1>2. /\ handler[h] = Idle /\ Go(h, Work("complete", "reserve", q, a, subject))
      /\ calls' = calls /\ UNCHANGED <<fleet, realm, made>>
  BY <1>1, Zenon DEF complete_connection
<1> QED
  BY <1>2, Starts, Zenon

LEMMA DoPairOutbound ==
  ASSUME ConnectionsInv, NEW h \in Handlers, workload' \in Workload,
         NEW a, NEW code, pair_outbound(h, a, code)
  PROVE  ConnectionsInv' /\ Stays
<1>1. PICK subject : subject = [code |-> code, attempt |-> attempts[a]]
  BY Zenon
<1>2. /\ handler[h] = Idle /\ Go(h, Work("pair", "lookup", a, a, subject))
      /\ calls' = calls /\ UNCHANGED <<fleet, realm, made>>
  BY <1>1, Zenon DEF pair_outbound
<1> QED
  BY <1>2, Starts, Zenon

LEMMA DoRotateConnection ==
  ASSUME ConnectionsInv, NEW h \in Handlers, workload' \in Workload,
         NEW q, NEW n, rotate_connection(h, q, n)
  PROVE  ConnectionsInv' /\ Stays
<1>1. /\ handler[h] = Idle /\ Go(h, Work("rotate", "receipt", q, n, connections[n]))
      /\ calls' = calls /\ UNCHANGED <<fleet, realm, made>>
  BY Zenon DEF rotate_connection
<1> QED
  BY <1>1, Starts, SMT

\* A handler starts with a call.
LEMMA StartsAsking ==
  ASSUME ConnectionsInv, NEW h \in Handlers, handler[h] = Idle, workload' \in Workload,
         NEW op, op \in {"revoke", "mutate", "read"}, NEW at, at \in {"await", "answered"},
         NEW q, NEW n, NEW subject, op = "mutate" => q \in RequestIds /\ subject \in Operations,
         NEW bearer, NEW about, op = "mutate" => about.operation = subject,
         Ask(h, Work(op, at, q, n, subject), Request(op, bearer, n, q, about)),
         UNCHANGED <<fleet, realm, made>>
  PROVE  ConnectionsInv' /\ Stays
<1>1. PICK w : w = Work(op, at, q, n, subject)
  BY Zenon
<1>2. IsWork(w) /\ w.op = op /\ w.request = q /\ w.subject = subject
  <2>1. at \in {"receipt", "stage"} => op = "rotate"
    BY Zenon
  <2> QED
    BY <1>1, <2>1, WorkIs, SMT
<1>3. Ask(h, w, Request(op, bearer, n, w.request, about))
  BY <1>1, <1>2, Zenon
<1>4. Frame /\ handler[h].at # "await"
  BY FrameKept, IdleIs, Zenon
<1>5. op # "consume" /\ op # "exchange" /\ op # "complete"
  BY Zenon
<1> QED
  BY <1>2, <1>3, <1>4, <1>5, Asks, Zenon

LEMMA DoRevokeConnection ==
  ASSUME ConnectionsInv, NEW h \in Handlers, workload' \in Workload,
         NEW q, NEW n, revoke_connection(h, q, n)
  PROVE  ConnectionsInv' /\ Stays
<1>1. handler[h] = Idle /\ UNCHANGED <<fleet, realm, made>>
  BY Zenon DEF revoke_connection
<1>2. CASE Go(h, Work("revoke", "answered", q, n, None)) /\ UNCHANGED calls
  BY <1>1, <1>2, Starts, Zenon
<1>3. CASE Ask(h, Work("revoke", "answered", q, n, None),
               Request("revoke", connections[n].credential, n, q, About(None, None, None)))
  BY <1>1, <1>3, StartsAsking, Zenon
<1> QED
  BY <1>2, <1>3, Zenon DEF revoke_connection

LEMMA DoExecuteRealmMutation ==
  ASSUME ConnectionsInv, NEW h \in Handlers, workload' \in Workload,
         NEW q \in RequestIds, NEW n, NEW o \in Operations, execute_realm_mutation(h, q, n, o)
  PROVE  ConnectionsInv' /\ Stays
<1>1. PICK about : about = About(None, None, o)
  BY Zenon
<1>2. /\ handler[h] = Idle /\ UNCHANGED <<fleet, realm, made>>
      /\ Ask(h, Work("mutate", "await", q, n, o), Request("mutate", connections[n].credential, n, q, about))
  BY <1>1, Zenon DEF execute_realm_mutation
<1>3. about.operation = o
  BY <1>1, Zenon DEF About
<1> QED
  BY <1>2, <1>3, StartsAsking, Zenon

LEMMA DoGetRealmOperations ==
  ASSUME ConnectionsInv, NEW h \in Handlers, workload' \in Workload,
         NEW n, get_realm_operations(h, n)
  PROVE  ConnectionsInv' /\ Stays
<1>1. /\ handler[h] = Idle /\ UNCHANGED <<fleet, realm, made>>
      /\ Ask(h, Work("read", "await", None, n, None),
             Request("read", connections[n].credential, n, None, About(None, None, None)))
  BY Zenon DEF get_realm_operations
<1> QED
  BY <1>1, StartsAsking, Zenon

LEMMA DoCalls ==
  ASSUME ConnectionsInv, NEW h \in workload.handlers, Calls(h)
  PROVE  ConnectionsInv' /\ Stays
<1>1. workload \in Workload /\ workload.left > 0 /\ workload' = [workload EXCEPT !.left = @ - 1]
  BY Zenon DEF ConnectionsInv, LinkInv, Calls
<1>2. h \in Handlers /\ workload.requests \subseteq RequestIds /\ workload' \in Workload
  BY <1>1, SMT DEF Workload
<1> QED
  BY <1>2, DoCompleteConnection, DoPairOutbound, DoRotateConnection, DoRevokeConnection,
     DoExecuteRealmMutation, DoGetRealmOperations, Zenon DEF Calls

\* Attempts and pairing codes are made, and attempts expire.
LEMMA DoBegin ==
  ASSUME ConnectionsInv, workload' = workload, Begin
  PROVE  ConnectionsInv' /\ Stays
<1>1. UNCHANGED <<handler, calls, connections, epoch, reserved, grants, mutations, effects, made>>
  BY Zenon DEF Begin, create_realm_pairing, ExpireAttempt, create_fleet_connection_attempt, fleet, realm
<1>2. AuditGrows /\ ReceiptsGrow
  <2>1. CASE UNCHANGED <<receipts, audit>>
    BY <2>1, Kept, Zenon DEF ConnectionsInv
  <2>2. ASSUME NEW q, persist_fleet_mutation(q, "connection.begin", Attempt(q))
        PROVE  AuditGrows /\ ReceiptsGrow
    <3>1. "connection.begin" \notin Operations /\ "connection.begin" # "connection.complete"
      BY FleetConnectionsConstants, Zenon
    <3> QED
      BY <2>2, <3>1, Persisted, SMT
  <2> QED
    BY <2>1, <2>2, Zenon
      DEF Begin, create_realm_pairing, ExpireAttempt, create_fleet_connection_attempt, fleet
<1>3. Frame
  BY <1>1, <1>2, Kept, Zenon DEF ConnectionsInv, Frame
<1>4. LinkInv'
  BY <1>1, Zenon DEF ConnectionsInv, LinkInv
<1>5. MutationCalls /\ EpochCalls /\ HandlersTame
  BY <1>1, Zenon DEF MutationCalls, EpochCalls, Like, HandlersTame
<1> QED
  BY <1>3, <1>4, <1>5, Quiet, Zenon

-----------------------------------------------------------------------------
(* The realm. *)

LEMMA DoLoseCall ==
  ASSUME ConnectionsInv, NEW c \in calls, workload' \in Workload, LoseCall(c)
  PROVE  ConnectionsInv' /\ Stays
<1>1. calls' = calls \ {c} /\ Frame
  BY FrameKept, Zenon DEF LoseCall
<1>2. CASE c.from = None
  <2>1. handler' = handler
    BY <1>2, Zenon DEF LoseCall
  <2>2. LinkInv' /\ MutationCalls /\ EpochCalls
    BY <1>1, <2>1, CallEnds, Zenon DEF ConnectionsInv
  <2>3. HandlersTame
    BY <2>1, Zenon DEF HandlersTame
  <2> QED
    BY <1>1, <2>2, <2>3, Quiet, Zenon
<1>3. CASE c.from # None
  <2>1. c.from \in Handlers /\ IsWork(handler[c.from])
    <3>1. c.from \in Handlers /\ Awaits(handler[c.from], c)
      BY <1>3, Zenon DEF ConnectionsInv, LinkInv
    <3>2. handler[c.from] # Idle
      BY <3>1, IdleIs, Zenon DEF Awaits
    <3> QED
      BY <3>1, <3>2, Busy, Zenon
  <2>2. PICK v : v = [handler[c.from] EXCEPT !.at = "failed"]
    BY Zenon
  <2>3. IsWork(v) /\ v.at = "failed"
    BY <2>1, <2>2, AtSet, SMT
  <2>4. Turned(c.from, v)
    BY <1>3, <2>1, <2>2, Turns, Zenon DEF LoseCall, ConnectionsInv
  <2>5. LinkInv' /\ MutationCalls /\ EpochCalls
    BY <1>1, <1>3, <2>3, <2>4, CallEnds, Zenon DEF ConnectionsInv
  <2>6. Tame(handler[c.from], v) /\ ~Mutated(v)
    BY <2>3, Zenon DEF Tame, Mutated, Paired
  <2>7. HandlersTame
    BY <2>4, <2>6, Zenon DEF HandlersTame, Turned
  <2> QED
    BY <1>1, <2>5, <2>7, Quiet, Zenon
<1> QED
  BY <1>2, <1>3, Zenon

LEMMA DoTakePairing ==
  ASSUME ConnectionsInv, NEW c \in calls, workload' \in Workload, TakePairing(c)
  PROVE  ConnectionsInv' /\ Stays
<1>1. UNCHANGED <<connections, receipts, audit, epoch, reserved, grants, mutations, effects, made>>
  BY Zenon DEF TakePairing, fleet
<1>2. Frame
  BY <1>1, Kept, Zenon DEF ConnectionsInv, Frame
<1>3. CASE Refuse(c)
  BY <1>2, <1>3, QuietEnd, Zenon DEF Refuse
<1>4. CASE calls' = (calls \ {c}) \cup {[c EXCEPT !.at = "taken"]} /\ UNCHANGED handler
  BY <1>2, <1>4, QuietGo, Zenon
<1> QED
  BY <1>3, <1>4, Zenon DEF TakePairing

LEMMA DoGrantByCredential ==
  ASSUME ConnectionsInv, NEW c \in calls, workload' \in Workload, realm_fleet_grant_by_credential(c)
  PROVE  ConnectionsInv' /\ Stays
<1>1. Frame
  BY FrameKept, Zenon DEF realm_fleet_grant_by_credential
<1>2. CASE Refuse(c)
  BY <1>1, <1>2, QuietEnd, Zenon DEF Refuse
<1>3. CASE calls' = (calls \ {c}) \cup {[c EXCEPT !.at = "granted"]} /\ UNCHANGED handler
  BY <1>1, <1>3, QuietGo, Zenon
<1> QED
  BY <1>2, <1>3, Zenon DEF realm_fleet_grant_by_credential

LEMMA DoOperationalSnapshot ==
  ASSUME ConnectionsInv, NEW c \in calls, workload' \in Workload, operational_snapshot(c)
  PROVE  ConnectionsInv' /\ Stays
<1>1. Frame /\ Reply(c, "answered", None) /\ c.kind = "read"
  BY FrameKept, Zenon DEF operational_snapshot, Answer
<1>2. c.kind \notin {"exchange", "mutate"}
  BY <1>1, Zenon
<1> QED
  BY <1>1, <1>2, QuietEnd, Zenon

\* A grant whose digest or revocation is set keeps its epoch.
LEMMA GrantSet ==
  ASSUME EpochInv, NEW n, NEW x,
         grants' = [grants EXCEPT ![n].revoked = x] \/ grants' = [grants EXCEPT ![n].digest = x]
  PROVE  GrantsKept
<1>1. ASSUME NEW m \in DOMAIN grants
      PROVE  /\ DOMAIN grants'[m] = {"digest", "epoch", "revoked"}
             /\ grants'[m].epoch = grants[m].epoch
  <2>1. PICK g : g = grants[m]
    BY Zenon
  <2>2. DOMAIN g = {"digest", "epoch", "revoked"}
    BY <2>1, Zenon DEF EpochInv
  <2>3. \/ grants'[m] = g \/ grants'[m] = [g EXCEPT !.revoked = x]
        \/ grants'[m] = [g EXCEPT !.digest = x]
    BY <2>1, Zenon
  <2> QED
    BY <2>1, <2>2, <2>3, Zenon
<1>2. DOMAIN grants' = DOMAIN grants
  BY Zenon
<1> QED
  BY <1>1, <1>2, Zenon DEF GrantsKept

LEMMA DoRevokeRealmFleetGrant ==
  ASSUME ConnectionsInv, NEW c \in calls, workload' \in Workload, revoke_realm_fleet_grant(c)
  PROVE  ConnectionsInv' /\ Stays
<1>1. /\ UNCHANGED <<connections, receipts, audit, epoch, reserved, mutations, effects, made>>
      /\ grants' = [grants EXCEPT ![c.connection].revoked = TRUE]
      /\ Reply(c, "answered", None) /\ c.kind = "revoke"
  BY Zenon DEF revoke_realm_fleet_grant, fleet, Answer
<1>2. GrantsKept
  BY <1>1, GrantSet, Zenon DEF ConnectionsInv
<1>3. Frame
  BY <1>1, <1>2, Kept, Zenon DEF ConnectionsInv, Frame
<1>4. c.kind \notin {"exchange", "mutate"}
  BY <1>1, Zenon
<1> QED
  BY <1>1, <1>3, <1>4, QuietEnd, Zenon

LEMMA DoRotateRealmFleetGrant ==
  ASSUME ConnectionsInv, NEW c \in calls, workload' \in Workload, rotate_realm_fleet_grant(c)
  PROVE  ConnectionsInv' /\ Stays
<1>1. /\ UNCHANGED <<connections, receipts, audit, epoch, reserved, mutations, effects, made>>
      /\ c.kind = "rotate"
  BY Zenon DEF rotate_realm_fleet_grant, fleet
<1>2. PICK d : grants' = grants \/ grants' = [grants EXCEPT ![c.connection].digest = d]
  BY Zenon DEF rotate_realm_fleet_grant
<1>3. GrantsKept
  BY <1>2, Kept, GrantSet, Zenon DEF ConnectionsInv
<1>4. Frame
  BY <1>1, <1>3, Kept, Zenon DEF ConnectionsInv, Frame
<1>5. c.kind \notin {"exchange", "mutate"}
  BY <1>1, Zenon
<1>6. Reply(c, "answered", None) \/ Reply(c, "failed", None)
  BY Zenon DEF rotate_realm_fleet_grant, Answer, Refuse
<1> QED
  BY <1>4, <1>5, <1>6, QuietEnd, Zenon

-----------------------------------------------------------------------------
(* Remote mutations. *)

\* What the steps of a mutation leave alone.
LEMMA EpochAside ==
  ASSUME ConnectionsInv, UNCHANGED <<connections, receipts, epoch, reserved, grants, made>>,
         EpochHandlers, EpochCalls
  PROVE  EpochInv' /\ OneLivePerEnvironment' /\ Stays
<1>1. ConnectionsKept /\ GrantsKept /\ ReceiptsGrow /\ made' \in Nat /\ made' >= made
  BY Kept, Zenon DEF ConnectionsInv
<1> QED
  BY <1>1, EpochQuiet, KeptConnections, Zenon DEF ConnectionsInv

\* An answer to a mutation is no grant.
LEMMA MutationReplied ==
  ASSUME LinkInv, NEW c \in calls, c.kind = "mutate", workload' \in Workload,
         NEW at, at \in {"answered", "failed"}, NEW value, Reply(c, at, value)
  PROVE  /\ LinkInv' /\ MutationCalls /\ EpochCalls /\ EpochHandlers
         /\ \A k \in Handlers : Mutated(handler'[k]) =>
              \/ handler'[k] = handler[k]
              \/ /\ at = "answered"
                 /\ handler'[k].request = c.request /\ handler'[k].subject = c.about.operation
<1>1. /\ LinkInv' /\ MutationCalls /\ EpochCalls
      /\ \/ handler' = handler
         \/ /\ c.from \in Handlers /\ IsWork(handler[c.from]) /\ Awaits(handler[c.from], c)
            /\ Turned(c.from, [handler[c.from] EXCEPT !.at = at, !.reply = value])
  BY Replied, Zenon
<1>2. CASE handler' = handler
  BY <1>1, <1>2, Zenon DEF EpochHandlers
<1>3. CASE /\ c.from \in Handlers /\ IsWork(handler[c.from]) /\ Awaits(handler[c.from], c)
           /\ Turned(c.from, [handler[c.from] EXCEPT !.at = at, !.reply = value])
  <2>1. PICK w : w = handler[c.from]
    BY Zenon
  <2>2. PICK v : v = [w EXCEPT !.at = at, !.reply = value]
    BY Zenon
  <2>3. v.at = at /\ v.op = w.op /\ v.request = w.request /\ v.subject = w.subject
    <3>1. IsWork(w)
      BY <1>3, <2>1, Zenon
    <3> QED
      BY <2>2, <3>1, Zenon DEF IsWork
  <2>4. Tame(w, v)
    BY <1>3, <2>1, <2>2, ReplyTame, Zenon
  <2>5. Mutated(v) => at = "answered" /\ v.request = c.request /\ v.subject = c.about.operation
    BY <1>3, <2>1, <2>3, Zenon DEF Mutated, Awaits
  <2>6. \A k \in Handlers : handler'[k] = IF k = c.from THEN v ELSE handler[k]
    BY <1>3, <2>1, <2>2, Zenon DEF Turned
  <2>7. EpochHandlers
    BY <2>1, <2>4, <2>6, Zenon DEF EpochHandlers
  <2> QED
    BY <1>1, <2>5, <2>6, <2>7, Zenon
<1> QED
  BY <1>1, <1>2, <1>3, Zenon

LEMMA MutationGoesOn ==
  ASSUME ConnectionsInv, NEW c \in calls, c.kind = "mutate", workload' \in Workload, NEW at, NEW d,
         d = [c EXCEPT !.at = at], calls' = (calls \ {c}) \cup {d}, handler' = handler
  PROVE  /\ LinkInv' /\ EpochCalls /\ EpochHandlers
         /\ d.kind = "mutate" /\ d.request = c.request /\ d.about = c.about /\ d.at = at
<1>1. IsCall(d) /\ Like(d, c) /\ d.from = c.from /\ d.at = at
  BY CallSet, ZenonT(30) DEF ConnectionsInv, LinkInv
<1>2. LinkInv' /\ EpochCalls
  BY <1>1, CallGoesOn, Zenon DEF ConnectionsInv
<1>3. EpochHandlers
  BY Zenon DEF EpochHandlers
<1> QED
  BY <1>1, <1>2, <1>3, Zenon DEF Like

\* The parts of the invariant, when nothing takes effect and nothing is audited.
LEMMA MutationParts ==
  ASSUME MutationInv, UNCHANGED <<effects, audit>>, DOMAIN mutations \subseteq DOMAIN mutations',
         \A q \in RequestIds : q \in DOMAIN mutations' /\ mutations'[q].state = "succeeded"
                               => effects[q] = <<mutations'[q].digest>>,
         \A e \in calls' : Past(e) => Claims(e)',
         \A e, g \in calls' : Past(e) /\ Past(g) /\ e.request = g.request => e = g,
         \A k \in Handlers : Mutated(handler'[k]) => effects[handler'[k].request] = <<handler'[k].subject>>
  PROVE  MutationInv'
<1>1. \A i \in DOMAIN audit' : Applied(audit[i])'
  BY Zenon DEF MutationInv, Applied
<1>2. \A q \in RequestIds : q \notin DOMAIN mutations' => effects'[q] = <<>>
  BY Zenon DEF MutationInv
<1> QED
  BY <1>1, <1>2, Zenon DEF MutationInv, Past, Mutated

LEMMA DoClaim ==
  ASSUME ConnectionsInv, NEW c \in calls, workload' \in Workload, claim_remote_mutation(c)
  PROVE  ConnectionsInv' /\ Stays
<1> DEFINE q == c.request
           o == c.about.operation
<1>1. /\ UNCHANGED <<connections, receipts, audit, epoch, reserved, grants, effects, made>>
      /\ c.kind = "mutate" /\ c.at = "granted"
  BY Zenon DEF claim_remote_mutation, fleet
<1>2. q \in RequestIds /\ o \in Operations
  BY <1>1, Zenon DEF ConnectionsInv, LinkInv, IsCall
<1>3. CASE /\ q \notin DOMAIN mutations /\ handler' = handler
           /\ mutations' = With(mutations, q, [digest |-> o, state |-> "pending"])
           /\ calls' = (calls \ {c}) \cup {[c EXCEPT !.at = "claimed"]}
  <2>1. PICK d : d = [c EXCEPT !.at = "claimed"]
    BY Zenon
  <2>2. /\ LinkInv' /\ EpochCalls /\ EpochHandlers
        /\ d.kind = "mutate" /\ d.request = q /\ d.about = c.about /\ d.at = "claimed"
    BY <1>1, <1>3, <2>1, MutationGoesOn, ZenonT(30)
  <2>3. /\ DOMAIN mutations' = DOMAIN mutations \cup {q}
        /\ mutations'[q] = [digest |-> o, state |-> "pending"]
        /\ \A p \in DOMAIN mutations : mutations'[p] = mutations[p]
    <3>1. PICK m : m = [digest |-> o, state |-> "pending"]
      BY Zenon
    <3>2. /\ DOMAIN mutations' = DOMAIN mutations \cup {q} /\ mutations'[q] = m
          /\ \A p \in DOMAIN mutations : p # q => mutations'[p] = mutations[p]
      <4>1. mutations' = With(mutations, q, m)
        BY <1>3, <3>1, Zenon
      <4> QED
        BY <4>1, Zenon DEF With
    <3> QED
      BY <1>3, <3>1, <3>2, Zenon
  <2>4. mutations'[q].state # "succeeded"
    <3>1. mutations'[q].state = "pending"
      BY <2>3, SMT
    <3> QED
      BY <3>1, Zenon
  <2>5. \A e \in calls : Past(e) => Claims(e)' /\ e.request # q
    BY <1>1, <1>3, <2>3, Zenon DEF ConnectionsInv, MutationInv, Claims
  <2>6. Claims(d)'
    BY <1>1, <1>2, <1>3, <2>2, <2>3, ZenonT(30) DEF ConnectionsInv, MutationInv, Claims
  <2>7. \A e \in calls' : e = d \/ e \in calls
    BY <1>3, <2>1, Zenon
  <2>8. \A e, g \in calls' : Past(e) /\ Past(g) /\ e.request = g.request => e = g
    BY <2>2, <2>5, <2>7, Zenon DEF ConnectionsInv, MutationInv
  <2>9. \A p \in RequestIds : p \in DOMAIN mutations' /\ mutations'[p].state = "succeeded"
                              => effects[p] = <<mutations'[p].digest>>
    BY <2>3, <2>4, Zenon DEF ConnectionsInv, MutationInv
  <2>10. \A k \in Handlers : Mutated(handler'[k]) => effects[handler'[k].request] = <<handler'[k].subject>>
    BY <1>3, Zenon DEF ConnectionsInv, MutationInv
  <2>11. \A e \in calls' : Past(e) => Claims(e)'
    BY <2>5, <2>6, <2>7, Zenon
  <2>12. MutationInv'
    BY <1>1, <2>3, <2>8, <2>9, <2>10, <2>11, MutationParts, Zenon DEF ConnectionsInv
  <2> QED
    BY <1>1, <2>2, <2>12, EpochAside, Zenon DEF ConnectionsInv
<1>4. CASE /\ q \in DOMAIN mutations /\ mutations' = mutations
           /\ \/ Reply(c, "failed", None)
              \/ /\ mutations[q] = [digest |-> o, state |-> "succeeded"]
                 /\ Reply(c, "answered", None)
  <2>1. mutations[q] = [digest |-> o, state |-> "succeeded"] => effects[q] = <<o>>
    <3>1. SUFFICES ASSUME mutations[q] = [digest |-> o, state |-> "succeeded"] PROVE effects[q] = <<o>>
      BY Zenon
    <3>2. mutations[q].digest = o /\ mutations[q].state = "succeeded"
      BY <3>1, SMT
    <3>3. effects[q] = <<mutations[q].digest>>
      BY <1>2, <1>4, <3>2, Zenon DEF ConnectionsInv, MutationInv
    <3> QED
      BY <3>2, <3>3, Zenon
  <2>2. PICK at : /\ at \in {"answered", "failed"} /\ Reply(c, at, None)
                  /\ at = "answered" => effects[q] = <<o>>
    BY <1>4, <2>1, Zenon
  <2>3. /\ LinkInv' /\ MutationCalls /\ EpochCalls /\ EpochHandlers
        /\ \A k \in Handlers : Mutated(handler'[k]) =>
             \/ handler'[k] = handler[k]
             \/ /\ at = "answered" /\ handler'[k].request = q /\ handler'[k].subject = o
    BY <1>1, <2>2, MutationReplied, Zenon DEF ConnectionsInv
  <2>4. \A k \in Handlers : Mutated(handler'[k]) => effects[handler'[k].request] = <<handler'[k].subject>>
    BY <2>2, <2>3, Zenon DEF ConnectionsInv, MutationInv
  <2>5. calls' \subseteq calls
    BY <2>2, Zenon DEF Reply
  <2>6. \A e \in calls' : Past(e) => Claims(e)'
    BY <1>1, <1>4, <2>5, ZenonT(30) DEF ConnectionsInv, MutationInv, Claims
  <2>7. \A e, g \in calls' : Past(e) /\ Past(g) /\ e.request = g.request => e = g
    BY <2>5, Zenon DEF ConnectionsInv, MutationInv
  <2>8. \A p \in RequestIds : p \in DOMAIN mutations' /\ mutations'[p].state = "succeeded"
                              => effects[p] = <<mutations'[p].digest>>
    BY <1>4, Zenon DEF ConnectionsInv, MutationInv
  <2>9. MutationInv'
    BY <1>1, <1>4, <2>4, <2>6, <2>7, <2>8, MutationParts, Zenon DEF ConnectionsInv
  <2> QED
    BY <1>1, <2>3, <2>9, EpochAside, Zenon DEF ConnectionsInv
<1> QED
  BY <1>1, <1>3, <1>4, Zenon DEF claim_remote_mutation, Answer, Refuse

LEMMA NotEmpty == \A x : <<x>> # <<>>
BY SMT

LEMMA DoApply ==
  ASSUME ConnectionsInv, NEW c \in calls, workload' \in Workload, apply_remote_mutation(c)
  PROVE  ConnectionsInv' /\ Stays
<1> DEFINE q == c.request
           o == c.about.operation
<1>1. /\ UNCHANGED <<connections, receipts, audit, epoch, reserved, grants, mutations, handler, made>>
      /\ c.kind = "mutate" /\ c.at = "claimed"
  BY Zenon DEF apply_remote_mutation, fleet
<1>2. PICK ok \in BOOLEAN :
        /\ effects' = IF ok THEN [effects EXCEPT ![q] = Append(@, o)] ELSE effects
        /\ calls' = (calls \ {c}) \cup {[c EXCEPT !.at = IF ok THEN "applied" ELSE "unapplied"]}
  BY Zenon DEF apply_remote_mutation
<1>3. q \in RequestIds /\ o \in Operations
  BY <1>1, Zenon DEF ConnectionsInv, LinkInv, IsCall
<1>4. /\ Past(c) /\ q \in DOMAIN mutations /\ mutations[q].state = "pending" /\ effects[q] = <<>>
      /\ mutations[q] = [digest |-> o, state |-> "pending"]
  <2>1. Past(c)
    BY <1>1, Zenon DEF Past
  <2>2. Claims(c)
    BY <2>1, Zenon DEF ConnectionsInv, MutationInv
  <2>3. mutations[q] = [digest |-> o, state |-> "pending"] /\ q \in DOMAIN mutations /\ effects[q] = <<>>
    BY <1>1, <2>2, Zenon DEF Claims
  <2>4. mutations[q].state = "pending"
    BY <2>3, SMT
  <2> QED
    BY <2>1, <2>3, <2>4, Zenon
<1>5. PICK at : at = IF ok THEN "applied" ELSE "unapplied"
  BY Zenon
<1>6. PICK d : d = [c EXCEPT !.at = at]
  BY Zenon
<1>7. calls' = (calls \ {c}) \cup {d}
  BY <1>2, <1>5, <1>6, Zenon
<1>8. /\ LinkInv' /\ EpochCalls /\ EpochHandlers
      /\ d.kind = "mutate" /\ d.request = q /\ d.about = c.about /\ d.at = at
  <2>1. c.kind = "mutate" /\ handler' = handler
    BY <1>1, Zenon
  <2> QED
    BY <1>6, <1>7, <2>1, MutationGoesOn, SMT
<1>9. Append(<<>>, o) = <<o>>
  BY SMT
<1>10. /\ DOMAIN effects' = RequestIds
       /\ effects'[q] = IF ok THEN <<o>> ELSE <<>>
       /\ \A p \in RequestIds : p # q => effects'[p] = effects[p]
  BY <1>2, <1>3, <1>4, <1>9, Zenon DEF ConnectionsInv, MutationInv
<1>11. Claims(d)'
  BY <1>1, <1>4, <1>5, <1>8, <1>10, Zenon DEF Claims
<1>12. \A e \in calls' : e = d \/ (e \in calls /\ e # c)
  BY <1>7, Zenon
<1>13. \A e \in calls : e # c /\ Past(e) => e.request # q
  BY <1>4, Zenon DEF ConnectionsInv, MutationInv
<1>14. ASSUME NEW e \in calls, e # c, Past(e) PROVE Claims(e)'
  <2>1. Claims(e) /\ e.request # q /\ e.request \in RequestIds
    BY <1>13, <1>14, Zenon DEF ConnectionsInv, MutationInv, LinkInv, IsCall, Past
  <2> QED
    BY <1>1, <1>10, <2>1, Zenon DEF Claims
<1>15. \A e \in calls' : Past(e) => Claims(e)'
  BY <1>11, <1>12, <1>14, Zenon
<1>16. \A e, g \in calls' : Past(e) /\ Past(g) /\ e.request = g.request => e = g
  BY <1>8, <1>12, <1>13, Zenon DEF ConnectionsInv, MutationInv
<1>17. \A x : effects[q] # <<x>>
  BY <1>4, NotEmpty, Zenon
<1>18. ASSUME NEW k \in Handlers, Mutated(handler'[k])
       PROVE  effects'[handler'[k].request] = <<handler'[k].subject>>
  <2>1. handler'[k] = handler[k] /\ effects[handler[k].request] = <<handler[k].subject>>
    BY <1>1, <1>18, Zenon DEF ConnectionsInv, MutationInv
  <2>2. handler[k].request \in RequestIds /\ handler[k].request # q
    <3>1. handler[k].at = "answered" /\ handler[k].op = "mutate"
      BY <1>18, <2>1, Zenon DEF Mutated
    <3>2. handler[k] # Idle
      BY <3>1, IdleIs, Zenon
    <3>3. handler[k].request \in RequestIds
      BY <3>1, <3>2, Busy, Zenon DEF IsWork
    <3> QED
      BY <1>17, <2>1, <3>3, Zenon
  <2> QED
    BY <1>10, <2>1, <2>2, Zenon
<1>19. \A a : Applied(a) => Applied(a)'
  BY <1>10, <1>17, Zenon DEF Applied
<1>20. \A p \in RequestIds : effects'[p] = <<>> \/ \E x \in Operations : effects'[p] = <<x>>
  <2>1. effects'[q] = <<>> \/ effects'[q] = <<o>>
    BY <1>10, Zenon
  <2>2. \A p \in RequestIds : effects[p] = <<>> \/ \E x \in Operations : effects[p] = <<x>>
    BY Zenon DEF ConnectionsInv, MutationInv
  <2> QED
    BY <1>3, <1>10, <2>1, <2>2, Zenon
<1>21. \A p \in RequestIds : p \notin DOMAIN mutations' => effects'[p] = <<>>
  BY <1>1, <1>4, <1>10, ZenonT(30) DEF ConnectionsInv, MutationInv
<1>22. \A p \in RequestIds : p \in DOMAIN mutations' /\ mutations'[p].state = "succeeded"
                             => effects'[p] = <<mutations'[p].digest>>
  BY <1>1, <1>4, <1>10, ZenonT(30) DEF ConnectionsInv, MutationInv
<1>23. (\E S : audit' \in Seq(S)) /\ \A i \in DOMAIN audit' : Applied(audit[i])'
  BY <1>1, <1>19, Zenon DEF ConnectionsInv, MutationInv
<1>24. MutationInv'
  BY <1>10, <1>15, <1>16, <1>18, <1>20, <1>21, <1>22, <1>23, Zenon DEF MutationInv, Past, Mutated
<1> QED
  BY <1>1, <1>8, <1>24, EpochAside, Zenon DEF ConnectionsInv

LEMMA DoLogMutation ==
  ASSUME ConnectionsInv, NEW c \in calls, workload' \in Workload, LogMutation(c)
  PROVE  ConnectionsInv' /\ Stays
<1>1. /\ UNCHANGED <<connections, receipts, audit, epoch, reserved, grants, mutations, effects, handler, made>>
      /\ c.kind = "mutate" /\ c.at = "applied"
  BY Zenon DEF LogMutation, fleet, realm
<1>2. PICK at : /\ at \in {"logged", "unlogged"}
                /\ calls' = (calls \ {c}) \cup {[c EXCEPT !.at = at]}
  BY Zenon DEF LogMutation
<1>3. PICK d : d = [c EXCEPT !.at = at]
  BY Zenon
<1>4. calls' = (calls \ {c}) \cup {d}
  BY <1>2, <1>3, Zenon
<1>5. /\ LinkInv' /\ EpochCalls /\ EpochHandlers
      /\ d.kind = "mutate" /\ d.request = c.request /\ d.about = c.about /\ d.at = at
  <2>1. c.kind = "mutate" /\ handler' = handler
    BY <1>1, Zenon
  <2> QED
    BY <1>3, <1>4, <2>1, MutationGoesOn, SMT
<1>6. Past(c) /\ Claims(c)
  BY <1>1, Zenon DEF Past, ConnectionsInv, MutationInv
<1>7. \A e : Claims(e)' <=> Claims(e)
  BY <1>1, Zenon DEF Claims
<1>8. Claims(d)
  BY <1>1, <1>2, <1>5, <1>6, Zenon DEF Claims
<1>9. \A e \in calls' : Past(e) => Claims(e)'
  BY <1>4, <1>7, <1>8, Zenon DEF ConnectionsInv, MutationInv
<1>10. \A e, g \in calls' : Past(e) /\ Past(g) /\ e.request = g.request => e = g
  BY <1>4, <1>5, <1>6, ZenonT(30) DEF ConnectionsInv, MutationInv
<1>11. /\ \A p \in RequestIds : p \in DOMAIN mutations' /\ mutations'[p].state = "succeeded"
                                => effects[p] = <<mutations'[p].digest>>
       /\ \A k \in Handlers : Mutated(handler'[k]) => effects[handler'[k].request] = <<handler'[k].subject>>
       /\ DOMAIN mutations \subseteq DOMAIN mutations'
  BY <1>1, Zenon DEF ConnectionsInv, MutationInv
<1>12. MutationInv'
  BY <1>1, <1>9, <1>10, <1>11, MutationParts, ZenonT(30) DEF ConnectionsInv
<1> QED
  BY <1>1, <1>5, <1>12, EpochAside, Zenon DEF ConnectionsInv

LEMMA DoCompleteMutation ==
  ASSUME ConnectionsInv, NEW c \in calls, workload' \in Workload, complete_remote_mutation(c)
  PROVE  ConnectionsInv' /\ Stays
<1> DEFINE q == c.request
           o == c.about.operation
<1>1. /\ UNCHANGED <<connections, receipts, audit, epoch, reserved, grants, effects, made>>
      /\ c.kind = "mutate" /\ c.at \in {"unapplied", "unlogged", "logged"}
  BY Zenon DEF complete_remote_mutation, fleet
<1>2. /\ Past(c) /\ Claims(c)
  BY <1>1, Zenon DEF Past, ConnectionsInv, MutationInv
<1>3. /\ q \in DOMAIN mutations /\ mutations[q] = [digest |-> o, state |-> "pending"]
      /\ c.at = "logged" => effects[q] = <<o>>
  BY <1>2, Zenon DEF Claims
<1>4. PICK at : /\ at \in {"answered", "failed"} /\ Reply(c, at, None)
                /\ at = "answered" <=> c.at = "logged"
  <2>1. "answered" # "failed"
    BY Zenon
  <2>2. IF c.at = "logged" THEN Reply(c, "answered", None) ELSE Reply(c, "failed", None)
    BY Zenon DEF complete_remote_mutation, Answer, Refuse
  <2> QED
    BY <2>1, <2>2, Zenon
<1>5. PICK state : /\ state = IF c.at = "logged" THEN "succeeded" ELSE "failed"
                   /\ mutations' = [mutations EXCEPT ![q].state = state]
  <2>1. mutations[q].state = "pending"
    BY <1>3, SMT
  <2> QED
    BY <2>1, Zenon DEF complete_remote_mutation
<1>6. PICK m : m = mutations[q]
  BY Zenon
<1>7. /\ DOMAIN mutations' = DOMAIN mutations
      /\ mutations'[q] = [m EXCEPT !.state = state]
      /\ \A p \in DOMAIN mutations : p # q => mutations'[p] = mutations[p]
  BY <1>3, <1>5, <1>6, Zenon
<1>8. mutations'[q].state = state /\ mutations'[q].digest = o
  <2>1. m = [digest |-> o, state |-> "pending"]
    BY <1>3, <1>6, Zenon
  <2>2. DOMAIN m = {"digest", "state"} /\ m.digest = o
    BY <2>1, SMT
  <2> QED
    BY <1>7, <2>2, Zenon
<1>9. /\ LinkInv' /\ EpochCalls /\ EpochHandlers
      /\ \A k \in Handlers : Mutated(handler'[k]) =>
           \/ handler'[k] = handler[k]
           \/ /\ at = "answered" /\ handler'[k].request = q /\ handler'[k].subject = o
  BY <1>1, <1>4, MutationReplied, Zenon DEF ConnectionsInv
<1>10. \A k \in Handlers : Mutated(handler'[k]) => effects[handler'[k].request] = <<handler'[k].subject>>
  BY <1>3, <1>4, <1>9, Zenon DEF ConnectionsInv, MutationInv
<1>11. \A e \in calls' : e \in calls /\ e # c
  BY <1>4, Zenon DEF Reply
<1>12. ASSUME NEW e \in calls', Past(e) PROVE Claims(e)'
  <2>1. Claims(e) /\ e.request # q
    BY <1>2, <1>11, <1>12, Zenon DEF ConnectionsInv, MutationInv
  <2> QED
    BY <1>1, <1>7, <2>1, Zenon DEF Claims
<1>13. \A e, g \in calls' : Past(e) /\ Past(g) /\ e.request = g.request => e = g
  BY <1>11, Zenon DEF ConnectionsInv, MutationInv
<1>14. state = "succeeded" => c.at = "logged"
  BY <1>5, Zenon
<1>15. \A p \in RequestIds : p \in DOMAIN mutations' /\ mutations'[p].state = "succeeded"
                             => effects[p] = <<mutations'[p].digest>>
  BY <1>3, <1>7, <1>8, <1>14, Zenon DEF ConnectionsInv, MutationInv
<1>16. MutationInv'
  BY <1>1, <1>7, <1>10, <1>12, <1>13, <1>15, MutationParts, Zenon DEF ConnectionsInv
<1> QED
  BY <1>1, <1>9, <1>16, EpochAside, Zenon DEF ConnectionsInv

\* What Fleet's audit says was applied, was: its handler has the realm's answer.
LEMMA DoRecordMutation ==
  ASSUME ConnectionsInv, NEW h \in Handlers, handler[h] # Idle, workload' \in Workload,
         RecordMutation(h)
  PROVE  ConnectionsInv' /\ Stays
<1> DEFINE w == handler[h]
<1>1. /\ w.at = "answered" /\ w.op = "mutate" /\ calls' = calls
      /\ record_fleet_remote_mutation(w.request, w.target, w.subject)
      /\ UNCHANGED <<attempts, connections, epoch, reserved, calls, realm, made>>
  BY Zenon DEF RecordMutation
<1>2. UNCHANGED <<grants, mutations, effects>>
  BY <1>1, Zenon DEF realm
<1>3. IsWork(w) /\ w.request \in RequestIds /\ w.subject \in Operations
  BY <1>1, Busy, Zenon DEF IsWork
<1>4. effects[w.request] = <<w.subject>>
  BY <1>1, Zenon DEF Mutated, ConnectionsInv, MutationInv
<1>5. AuditGrows /\ ReceiptsGrow
  <2>1. CASE UNCHANGED <<receipts, audit>>
    BY <2>1, Kept, Zenon DEF ConnectionsInv
  <2>2. ASSUME NEW n, persist_fleet_mutation(w.request, w.subject, n) PROVE AuditGrows /\ ReceiptsGrow
    <3>1. PICK a : a = [request |-> w.request, action |-> w.subject, resource |-> n]
      BY Zenon
    <3>2. audit' = Append(audit, a) /\ a.request = w.request /\ a.action = w.subject
      BY <2>2, <3>1, Zenon DEF persist_fleet_mutation
    <3>3. AuditGrows
      BY <1>3, <1>4, <3>2, Zenon DEF AuditGrows, Applied
    <3>4. /\ receipts' = With(receipts, w.request, Receipt(w.subject, n))
          /\ Receipt(w.subject, n).action = w.subject
      BY <2>2, Zenon DEF persist_fleet_mutation, Receipt
    <3>5. Receipted(Receipt(w.subject, n))
      BY <1>3, <3>4, FleetConnectionsConstants, Zenon DEF Receipted
    <3>6. PICK t : t = Receipt(w.subject, n)
      BY Zenon
    <3>7. /\ DOMAIN receipts' = DOMAIN receipts \cup {w.request} /\ receipts'[w.request] = t
          /\ \A p \in DOMAIN receipts : p # w.request => receipts'[p] = receipts[p]
      <4>1. receipts' = With(receipts, w.request, t)
        BY <3>4, <3>6, Zenon
      <4> QED
        BY <4>1, Zenon DEF With
    <3> QED
      BY <3>3, <3>5, <3>6, <3>7, Zenon DEF ReceiptsGrow
  <2> QED
    BY <1>1, <2>1, <2>2, Zenon DEF record_fleet_remote_mutation
<1>6. Frame
  BY <1>1, <1>2, <1>5, Kept, Zenon DEF ConnectionsInv, Frame
<1>7. w.at # "await"
  BY <1>1, Zenon
<1>8. CASE Done(h)
  BY <1>1, <1>6, <1>7, <1>8, QuietDone, Zenon
<1>9. CASE Go(h, [w EXCEPT !.at = "recorded"])
  <2>1. PICK v : v = [w EXCEPT !.at = "recorded"]
    BY Zenon
  <2>2. IsWork(v) /\ v.at = "recorded"
    BY <1>3, <2>1, AtSet, SMT
  <2>3. Tame(w, v) /\ ~Mutated(v)
    BY <2>2, Zenon DEF Tame, Mutated, Paired
  <2> QED
    BY <1>1, <1>6, <1>7, <1>9, <2>1, <2>2, <2>3, QuietTurn, Zenon
<1> QED
  BY <1>8, <1>9, Zenon DEF RecordMutation

-----------------------------------------------------------------------------
(* Epochs. *)

\* A step of reserve_fleet_assignment_epoch.
LEMMA EpochTurn ==
  ASSUME ConnectionsInv, NEW h \in Handlers, handler[h].at # "await", NEW v, IsWork(v), Go(h, v),
         v.at \in {"initialize", "increment", "reserved"}, calls' = calls, workload' \in Workload,
         UNCHANGED <<connections, receipts, audit, realm, made>>,
         epoch' \in Int, epoch' >= epoch, reserved' \in Seq(Nat),
         \A i \in DOMAIN reserved' : reserved'[i] \in 1..epoch',
         \A i, j \in DOMAIN reserved' : reserved'[i] = reserved'[j] => i = j,
         HandlerEpoch(v)',
         v.at = "reserved" => \A k \in Handlers : Holds(handler[k]) => handler[k].epoch # v.epoch
  PROVE  ConnectionsInv' /\ Stays
<1>1. Turned(h, v)
  BY Turns, Zenon DEF ConnectionsInv
<1>2. LinkInv' /\ MutationCalls /\ EpochCalls
  BY <1>1, NoCallFrom, HandlerTurns, Zenon DEF ConnectionsInv
<1>3. UNCHANGED <<grants, mutations, effects>>
  BY Zenon DEF realm
<1>4. /\ ConnectionsKept /\ GrantsKept /\ ReceiptsGrow /\ AuditGrows
      /\ made' \in Nat /\ made' >= made
  BY <1>3, Kept, Zenon DEF ConnectionsInv
<1>5. MutationHandlers
  BY <1>1, Zenon DEF MutationHandlers, Turned, Mutated
<1>6. MutationInv'
  BY <1>2, <1>3, <1>4, <1>5, MutationQuiet, ZenonT(30) DEF ConnectionsInv
<1>7. 1..epoch \subseteq 1..epoch' /\ (epoch' = NoEpoch => epoch = NoEpoch)
  BY SMT DEF ConnectionsInv, EpochInv, NoEpoch
<1>8. \A e : Unused(e) => Unused(e)'
  BY <1>7, Zenon DEF Unused
<1>9. ASSUME NEW k \in Handlers PROVE HandlerEpoch(handler[k])'
  <2>1. CASE k = h
    BY <1>1, <2>1, Zenon DEF Turned, HandlerEpoch, Holds, Paired
  <2>2. CASE k # h
    <3>1. handler'[k] = handler[k] /\ HandlerEpoch(handler[k])
      BY <1>1, <2>2, Zenon DEF Turned, ConnectionsInv, EpochInv
    <3> QED
      BY <1>3, <1>7, <1>8, <3>1, Zenon DEF HandlerEpoch, Holds, Paired
  <2> QED
    BY <2>1, <2>2, Zenon
<1>10. Holds(v) => v.at = "reserved"
  BY Zenon DEF Holds
<1>11. Distinct'
  <2>1. \A k \in Handlers : k # h => handler'[k] = handler[k]
    BY <1>1, Zenon DEF Turned
  <2>2. handler'[h] = v
    BY <1>1, Zenon DEF Turned
  <2>3. \A k \in Handlers : k # h /\ Holds(handler'[k]) /\ Holds(v) => handler'[k].epoch # v.epoch
    BY <1>10, <2>1, Zenon
  <2>4. \A j, k \in Handlers :
          Holds(handler[j]) /\ Holds(handler[k]) /\ handler[j].epoch = handler[k].epoch => j = k
    BY Zenon DEF ConnectionsInv, EpochInv
  <2>5. \A j, k \in Handlers :
          Holds(handler'[j]) /\ Holds(handler'[k]) /\ handler'[j].epoch = handler'[k].epoch => j = k
    BY <2>1, <2>2, <2>3, <2>4, Zenon
  <2> QED
    BY <2>5, Zenon DEF Distinct, Holds
<1>12. \A c \in calls' : Tells(c)
  BY Zenon DEF ConnectionsInv, EpochInv
<1>13. GrantsFit
  <2>1. 1..made \subseteq 1..made'
    BY Zenon
  <2> QED
    BY <1>3, <2>1, Zenon DEF ConnectionsInv, EpochInv, EpochsNeverReused, GrantsFit
<1>14. EpochInv'
  BY <1>4, <1>9, <1>11, <1>12, <1>13, EpochRest, Zenon DEF ConnectionsInv
<1>15. OneLivePerEnvironment' /\ Stays
  BY <1>4, KeptConnections, Zenon DEF ConnectionsInv
<1> QED
  BY <1>2, <1>6, <1>14, <1>15, Zenon DEF ConnectionsInv

\* Without an epoch there is no connection yet, and the last epoch is 0.
LEMMA NoLastEpoch ==
  ASSUME EpochInv, epoch = NoEpoch
  PROVE  LastEpoch = 0
<1>1. 1..epoch = {}
  BY SMT DEF NoEpoch
<1>2. DOMAIN connections = {}
  BY <1>1, Zenon DEF EpochInv
<1>3. {0} \cup {connections[n].epoch : n \in DOMAIN connections} = {0}
  BY <1>2, Zenon
<1>4. \A x \in {0} : (\A y \in {0} : y <= x) => x = 0
  BY Zenon
<1>5. \E x \in {0} : \A y \in {0} : y <= x
  BY SMT
<1>6. (CHOOSE x \in {0} : \A y \in {0} : y <= x) \in {0}
  BY <1>5, Zenon
<1> QED
  BY <1>3, <1>6, Zenon DEF LastEpoch

LEMMA DoReadEpoch ==
  ASSUME ConnectionsInv, NEW h \in Handlers, handler[h] # Idle, workload' \in Workload, ReadEpoch(h)
  PROVE  ConnectionsInv' /\ Stays
<1>1. PICK v : v = [handler[h] EXCEPT !.at = "initialize", !.epoch = LastEpoch]
  BY Zenon
<1>2. /\ handler[h].at = "reserve" /\ Go(h, v) /\ calls' = calls
      /\ UNCHANGED <<connections, receipts, audit, epoch, reserved, realm, made>>
  BY <1>1, Zenon DEF ReadEpoch, fleet
<1>3. IsWork(v) /\ v.at = "initialize" /\ v.epoch = LastEpoch
  <2>1. PICK w : w = handler[h]
    BY Zenon
  <2>2. PICK e : e = LastEpoch
    BY Zenon
  <2>3. IsWork(w) /\ v = [w EXCEPT !.at = "initialize", !.epoch = e]
    BY <1>1, <2>1, <2>2, Busy, Zenon
  <2>4. IsWork(v) /\ v.at = "initialize" /\ v.epoch = e
    BY <2>3, Zenon DEF IsWork
  <2> QED
    BY <2>2, <2>4, Zenon
<1>4. HandlerEpoch(v)'
  BY <1>2, <1>3, NoLastEpoch, Zenon DEF HandlerEpoch, Holds, Paired, ConnectionsInv
<1>5. /\ epoch' \in Int /\ epoch' >= epoch /\ reserved' \in Seq(Nat)
      /\ \A i \in DOMAIN reserved' : reserved'[i] \in 1..epoch'
      /\ \A i, j \in DOMAIN reserved' : reserved'[i] = reserved'[j] => i = j
  <2>1. epoch \in Int /\ epoch >= epoch
    BY SMT DEF ConnectionsInv, EpochInv
  <2> QED
    BY <1>2, <2>1, Zenon DEF ConnectionsInv, EpochInv, EpochsNeverReused
<1>6. handler[h].at # "await"
  BY <1>2, Zenon
<1> QED
  BY <1>2, <1>3, <1>4, <1>5, <1>6, EpochTurn, Zenon

LEMMA DoInitializeEpoch ==
  ASSUME ConnectionsInv, NEW h \in Handlers, handler[h] # Idle, workload' \in Workload,
         InitializeEpoch(h)
  PROVE  ConnectionsInv' /\ Stays
<1>1. PICK v : v = [handler[h] EXCEPT !.at = "increment"]
  BY Zenon
<1>2. /\ handler[h].at = "initialize" /\ Go(h, v) /\ calls' = calls
      /\ epoch' = IF epoch = NoEpoch THEN handler[h].epoch ELSE epoch
      /\ UNCHANGED <<connections, receipts, audit, reserved, realm, made>>
  BY <1>1, Zenon DEF InitializeEpoch
<1>3. IsWork(v) /\ v.at = "increment"
  BY <1>1, Busy, AtSet, SMT
<1>4. epoch' = IF epoch = NoEpoch THEN 0 ELSE epoch
  BY <1>2, Zenon DEF ConnectionsInv, EpochInv, HandlerEpoch
<1>5. epoch \in Int /\ epoch >= NoEpoch
  BY Zenon DEF ConnectionsInv, EpochInv
<1>6. epoch' \in Int /\ epoch' >= epoch /\ epoch' # NoEpoch /\ 1..epoch \subseteq 1..epoch'
  BY <1>4, <1>5, SMT DEF NoEpoch
<1>7. HandlerEpoch(v)'
  BY <1>3, <1>6, Zenon DEF HandlerEpoch, Holds, Paired
<1>8. /\ reserved' \in Seq(Nat)
      /\ \A i \in DOMAIN reserved' : reserved'[i] \in 1..epoch'
      /\ \A i, j \in DOMAIN reserved' : reserved'[i] = reserved'[j] => i = j
  BY <1>2, <1>6, Zenon DEF ConnectionsInv, EpochInv, EpochsNeverReused
<1>9. handler[h].at # "await"
  BY <1>2, Zenon
<1> QED
  BY <1>2, <1>3, <1>6, <1>7, <1>8, <1>9, EpochTurn, Zenon

LEMMA DoIncrementEpoch ==
  ASSUME ConnectionsInv, NEW h \in Handlers, handler[h] # Idle, workload' \in Workload,
         IncrementEpoch(h)
  PROVE  ConnectionsInv' /\ Stays
<1>1. PICK v : v = [handler[h] EXCEPT !.at = "reserved", !.epoch = epoch + 1]
  BY Zenon
<1>2. /\ handler[h].at = "increment" /\ Go(h, v) /\ calls' = calls
      /\ epoch' = epoch + 1 /\ reserved' = Append(reserved, epoch + 1)
      /\ UNCHANGED <<connections, receipts, audit, realm, made>>
  BY <1>1, Zenon DEF IncrementEpoch
<1>3. IsWork(v) /\ v.at = "reserved" /\ v.epoch = epoch + 1
  <2>1. PICK w : w = handler[h]
    BY Zenon
  <2>2. PICK e : e = epoch + 1
    BY Zenon
  <2>3. IsWork(w) /\ v = [w EXCEPT !.at = "reserved", !.epoch = e]
    BY <1>1, <2>1, <2>2, Busy, Zenon
  <2>4. IsWork(v) /\ v.at = "reserved" /\ v.epoch = e
    BY <2>3, Zenon DEF IsWork
  <2> QED
    BY <2>2, <2>4, Zenon
<1>4. epoch # NoEpoch /\ epoch \in Int /\ epoch >= NoEpoch
  BY <1>2, Zenon DEF ConnectionsInv, EpochInv, HandlerEpoch
<1>5. /\ epoch \in Nat /\ epoch' \in Int /\ epoch' >= epoch /\ epoch' # NoEpoch
      /\ epoch + 1 \in 1..epoch' /\ epoch + 1 \notin 1..epoch
  BY <1>2, <1>4, SMT DEF NoEpoch
<1>6. Unused(v.epoch)'
  BY <1>2, <1>3, <1>5, ZenonT(30) DEF Unused, ConnectionsInv, EpochInv
<1>7. HandlerEpoch(v)'
  BY <1>3, <1>6, Zenon DEF HandlerEpoch, Paired
<1>8. \A k \in Handlers : Holds(handler[k]) => handler[k].epoch # v.epoch
  BY <1>3, <1>5, Zenon DEF ConnectionsInv, EpochInv, HandlerEpoch, Unused
<1>9. /\ reserved \in Seq(Nat) /\ \A i \in DOMAIN reserved : reserved[i] \in 1..epoch
      /\ \A i, j \in DOMAIN reserved : reserved[i] = reserved[j] => i = j
  BY Zenon DEF ConnectionsInv, EpochInv, EpochsNeverReused
<1>10. /\ reserved' \in Seq(Nat)
       /\ \A i \in DOMAIN reserved' : reserved'[i] \in 1..epoch'
       /\ \A i, j \in DOMAIN reserved' : reserved'[i] = reserved'[j] => i = j
  BY <1>2, <1>5, <1>9, SMTT(30)
<1>11. handler[h].at # "await"
  BY <1>2, Zenon
<1> QED
  BY <1>2, <1>3, <1>5, <1>7, <1>8, <1>10, <1>11, EpochTurn, Zenon

-----------------------------------------------------------------------------
(* Grants and connections. *)

\* The realm makes a grant for the epoch that it is told.
LEMMA DoExchange ==
  ASSUME ConnectionsInv, NEW c \in calls, workload' \in Workload, exchange_realm_pairing(c)
  PROVE  ConnectionsInv' /\ Stays
<1> DEFINE n == made + 1
<1>1. PICK g : g = [digest |-> credential_digest(n), epoch |-> c.about.epoch, revoked |-> FALSE]
  BY Zenon
<1>2. DOMAIN g = {"digest", "epoch", "revoked"} /\ g.epoch = c.about.epoch
  BY <1>1, Zenon
<1>3. /\ c.kind = "exchange" /\ grants' = With(grants, n, g) /\ made' = made + 1
      /\ Reply(c, "answered", n)
      /\ UNCHANGED <<connections, receipts, audit, epoch, reserved, mutations, effects>>
  BY <1>1, Zenon DEF exchange_realm_pairing, Answer, fleet
<1>4. /\ LinkInv' /\ MutationCalls /\ EpochCalls
      /\ \/ handler' = handler
         \/ /\ c.from \in Handlers /\ IsWork(handler[c.from]) /\ Awaits(handler[c.from], c)
            /\ Turned(c.from, [handler[c.from] EXCEPT !.at = "answered", !.reply = n])
  BY <1>3, Replied, Zenon DEF ConnectionsInv
<1>5. made \in Nat /\ DOMAIN connections \subseteq 1..made /\ DOMAIN grants \subseteq 1..made
  BY Zenon DEF ConnectionsInv, EpochInv
<1>6. /\ n \notin DOMAIN connections /\ n \notin DOMAIN grants /\ n \in 1..made'
      /\ 1..made \subseteq 1..made' /\ made' \in Nat /\ made' >= made
  BY <1>3, <1>5, SMT
<1> HIDE DEF n
<1>7. /\ DOMAIN grants' = DOMAIN grants \cup {n} /\ grants'[n] = g
      /\ \A m \in DOMAIN grants : m # n => grants'[m] = grants[m]
  BY <1>3, Zenon DEF With
<1>8. \A m \in DOMAIN grants : grants'[m] = grants[m]
  BY <1>6, <1>7, Zenon
<1>9. ConnectionsKept /\ ReceiptsGrow /\ AuditGrows
  BY <1>3, Kept, Zenon DEF ConnectionsInv
<1>10. \A k \in Handlers :
         \/ handler'[k] = handler[k]
         \/ /\ k = c.from /\ IsWork(handler[k]) /\ Awaits(handler[k], c)
            /\ handler'[k] = [handler[k] EXCEPT !.at = "answered", !.reply = n]
  BY <1>4, Zenon DEF Turned
<1>11. ASSUME NEW k \in Handlers
       PROVE  \/ handler'[k] = handler[k]
              \/ /\ Paired(handler'[k]) /\ Holds(handler[k]) /\ handler[k].epoch = c.about.epoch
                 /\ handler'[k].epoch = handler[k].epoch /\ handler'[k].reply = n
                 /\ handler'[k].op = "complete" /\ handler'[k].at = "answered"
  <2>1. CASE handler'[k] = handler[k]
    BY <2>1, Zenon
  <2>2. CASE /\ IsWork(handler[k]) /\ Awaits(handler[k], c)
             /\ handler'[k] = [handler[k] EXCEPT !.at = "answered", !.reply = n]
    <3>1. /\ handler'[k].at = "answered" /\ handler'[k].op = handler[k].op
          /\ handler'[k].epoch = handler[k].epoch /\ handler'[k].reply = n
      <4>1. PICK w : w = handler[k]
        BY Zenon
      <4>2. PICK v : v = handler'[k]
        BY Zenon
      <4>3. IsWork(w) /\ v = [w EXCEPT !.at = "answered", !.reply = n]
        BY <2>2, <4>1, <4>2, Zenon
      <4>4. v.at = "answered" /\ v.op = w.op /\ v.epoch = w.epoch /\ v.reply = n
        BY <4>3, Zenon DEF IsWork
      <4> QED
        BY <4>1, <4>2, <4>4, Zenon
    <3>2. handler[k].at = "await" /\ handler[k].op = "complete" /\ handler[k].epoch = c.about.epoch
      BY <1>3, <2>2, Zenon DEF Awaits
    <3> QED
      BY <3>1, <3>2, Zenon DEF Paired, Holds
  <2> QED
    BY <1>10, <2>1, <2>2, Zenon
<1>12. MutationHandlers
  BY <1>11, Zenon DEF MutationHandlers, Mutated
<1>13. MutationInv'
  BY <1>3, <1>4, <1>9, <1>12, MutationQuiet, Zenon DEF ConnectionsInv
<1>14. \A e : Unused(e)' <=> Unused(e)
  BY <1>3, Zenon DEF Unused
<1>15. ASSUME NEW k \in Handlers PROVE HandlerEpoch(handler[k])'
  <2>0. HandlerEpoch(handler[k])
    BY Zenon DEF ConnectionsInv, EpochInv
  <2>1. CASE handler'[k] = handler[k]
    BY <1>3, <1>7, <1>8, <1>14, <2>0, <2>1, Zenon DEF HandlerEpoch, Holds, Paired
  <2>2. CASE /\ Paired(handler'[k]) /\ Holds(handler[k]) /\ handler[k].epoch = c.about.epoch
             /\ handler'[k].epoch = handler[k].epoch /\ handler'[k].reply = n
             /\ handler'[k].op = "complete" /\ handler'[k].at = "answered"
    BY <1>2, <1>7, <1>14, <2>0, <2>2, Zenon DEF HandlerEpoch, Paired
  <2> QED
    BY <1>11, <2>1, <2>2, Zenon
<1>16. Distinct'
  <2>1. \A k \in Handlers : Holds(handler'[k]) => Holds(handler[k]) /\ handler'[k].epoch = handler[k].epoch
    BY <1>11, Zenon
  <2>2. \A j, k \in Handlers :
          Holds(handler[j]) /\ Holds(handler[k]) /\ handler[j].epoch = handler[k].epoch => j = k
    BY Zenon DEF ConnectionsInv, EpochInv
  <2>3. \A j, k \in Handlers :
          Holds(handler'[j]) /\ Holds(handler'[k]) /\ handler'[j].epoch = handler'[k].epoch => j = k
    BY <2>1, <2>2, Zenon
  <2> QED
    BY <2>3, Zenon DEF Distinct, Holds
<1>17. GrantsFit
  BY <1>2, <1>5, <1>6, <1>7, <1>8, Zenon DEF GrantsFit, ConnectionsInv, EpochInv, EpochsNeverReused
<1>18. \A d \in calls' : Tells(d)
  BY <1>4, Zenon DEF ConnectionsInv, EpochInv, EpochCalls, Like, Tells
<1>19. EpochInv'
  <2>1. epoch' \in Int /\ epoch' >= epoch
    BY <1>3, SMT DEF ConnectionsInv, EpochInv
  <2>2. /\ reserved' \in Seq(Nat) /\ \A i \in DOMAIN reserved' : reserved'[i] \in 1..epoch'
        /\ \A i, j \in DOMAIN reserved' : reserved'[i] = reserved'[j] => i = j
    BY <1>3, Zenon DEF ConnectionsInv, EpochInv, EpochsNeverReused
  <2> QED
    BY <1>6, <1>9, <1>15, <1>16, <1>17, <1>18, <2>1, <2>2, EpochRest, Zenon DEF ConnectionsInv
<1>20. OneLivePerEnvironment' /\ Stays
  BY <1>9, KeptConnections, Zenon DEF ConnectionsInv
<1> QED
  BY <1>4, <1>13, <1>19, <1>20, Zenon DEF ConnectionsInv

\* A private realm makes its grant from what Fleet told it of a connection.  A handler that
\* still waits to store its connection has another one: the epoch of this one is in use.
LEMMA DoConsume ==
  ASSUME ConnectionsInv, NEW c \in calls, workload' \in Workload, consume_outbound_realm_pairing(c)
  PROVE  ConnectionsInv' /\ Stays
<1> DEFINE n == c.connection
<1>1. PICK g : g = [digest |-> credential_digest(c.about.credential), epoch |-> c.about.epoch, revoked |-> FALSE]
  BY Zenon
<1>2. DOMAIN g = {"digest", "epoch", "revoked"} /\ g.epoch = c.about.epoch
  BY <1>1, Zenon
<1>3. /\ c.kind = "consume" /\ grants' = With(grants, n, g) /\ calls' = calls \ {c} /\ handler' = handler
      /\ UNCHANGED <<connections, receipts, audit, epoch, reserved, mutations, effects, made>>
  BY <1>1, Zenon DEF consume_outbound_realm_pairing, fleet
<1>4. LinkInv' /\ MutationCalls /\ EpochCalls
  BY <1>3, CallEnds, Zenon DEF ConnectionsInv
<1>5. n \in DOMAIN connections /\ g.epoch = connections[n].epoch
  BY <1>2, <1>3, Zenon DEF ConnectionsInv, EpochInv, Tells
<1>6. /\ DOMAIN grants' = DOMAIN grants \cup {n} /\ grants'[n] = g
      /\ \A m \in DOMAIN grants : m # n => grants'[m] = grants[m]
  BY <1>3, Zenon DEF With
<1>7. /\ ConnectionsKept /\ ReceiptsGrow /\ AuditGrows /\ made' \in Nat /\ made' >= made
  BY <1>3, Kept, Zenon DEF ConnectionsInv
<1>8. MutationInv'
  BY <1>3, <1>4, <1>7, MutationQuiet, Zenon DEF ConnectionsInv, MutationHandlers
<1>9. ASSUME NEW k \in Handlers PROVE HandlerEpoch(handler[k])'
  <2>1. HandlerEpoch(handler[k]) /\ handler'[k] = handler[k]
    BY <1>3, Zenon DEF ConnectionsInv, EpochInv
  <2>2. Paired(handler[k]) => Unused(handler[k].epoch)
    BY <2>1, Zenon DEF HandlerEpoch, Paired, Holds
  <2>3. Paired(handler[k]) => handler[k].reply # n
    <3>1. SUFFICES ASSUME Paired(handler[k]), handler[k].reply = n PROVE FALSE
      BY Zenon
    <3>2. n \in DOMAIN grants /\ grants[n].epoch = handler[k].epoch
      BY <2>1, <3>1, Zenon DEF HandlerEpoch
    <3>3. grants[n].epoch = connections[n].epoch
      BY <1>5, <3>2, Zenon DEF ConnectionsInv, EpochInv, EpochsNeverReused
    <3> QED
      BY <1>5, <2>2, <3>1, <3>2, <3>3, Zenon DEF Unused
  <2>4. Paired(handler[k]) => handler[k].reply \in DOMAIN grants' /\ grants'[handler[k].reply].epoch = handler[k].epoch
    BY <1>6, <2>1, <2>3, Zenon DEF HandlerEpoch
  <2>5. \A e : Unused(e)' <=> Unused(e)
    BY <1>3, Zenon DEF Unused
  <2> QED
    BY <1>3, <2>1, <2>4, <2>5, Zenon DEF HandlerEpoch, Holds, Paired
<1>10. Distinct'
  BY <1>3, Zenon DEF Distinct, Holds, ConnectionsInv, EpochInv
<1>11. GrantsFit
  <2>1. n \in 1..made'
    BY <1>3, <1>5, Zenon DEF ConnectionsInv, EpochInv
  <2> QED
    BY <1>2, <1>3, <1>5, <1>6, <2>1, Zenon DEF GrantsFit, ConnectionsInv, EpochInv, EpochsNeverReused
<1>12. \A d \in calls' : Tells(d)
  BY <1>3, Zenon DEF ConnectionsInv, EpochInv
<1>13. EpochInv'
  <2>1. epoch' \in Int /\ epoch' >= epoch
    BY <1>3, SMT DEF ConnectionsInv, EpochInv
  <2>2. /\ reserved' \in Seq(Nat) /\ \A i \in DOMAIN reserved' : reserved'[i] \in 1..epoch'
        /\ \A i, j \in DOMAIN reserved' : reserved'[i] = reserved'[j] => i = j
    BY <1>3, Zenon DEF ConnectionsInv, EpochInv, EpochsNeverReused
  <2> QED
    BY <1>7, <1>9, <1>10, <1>11, <1>12, <2>1, <2>2, EpochRest, Zenon DEF ConnectionsInv
<1>14. OneLivePerEnvironment' /\ Stays
  BY <1>7, KeptConnections, Zenon DEF ConnectionsInv
<1> QED
  BY <1>4, <1>8, <1>13, <1>14, Zenon DEF ConnectionsInv

\* A handler answers a private realm, and is done.
LEMMA Grants ==
  ASSUME ConnectionsInv, NEW h \in Handlers, handler[h].at # "await", workload' \in Workload,
         NEW n, NEW cred, GrantPairing(h, n, cred)
  PROVE  /\ LinkInv' /\ MutationCalls /\ Turned(h, Idle)
         /\ \A d \in calls' : d \in calls \/ (d.kind = "consume" /\ d.connection = n
                                              /\ d.about.epoch = connections'[n].epoch)
<1> DEFINE about == About(cred, connections'[n].epoch, None)
<1>1. PICK c : c = Request("consume", handler[h].subject.code, n, None, about)
  BY Zenon
<1>2. /\ DOMAIN c = {"kind", "bearer", "connection", "request", "about", "from", "at"}
      /\ c.kind = "consume" /\ c.connection = n /\ c.about = about /\ c.from = None /\ c.at = "sent"
  BY <1>1, RequestIs, SMT
<1>3. about.epoch = connections'[n].epoch
  BY Zenon DEF About
<1>4. Done(h) /\ calls' = calls \cup {c}
  BY <1>1, Zenon DEF GrantPairing
<1> HIDE DEF about
<1>5. IsCall(c)
  BY <1>2, Zenon DEF IsCall
<1>6. Turned(h, Idle)
  BY <1>4, Turns, Zenon DEF Done, ConnectionsInv
<1>7. LinkInv' /\ MutationCalls
  BY <1>2, <1>4, <1>5, <1>6, HandlerSends, Zenon DEF ConnectionsInv
<1> QED
  BY <1>2, <1>3, <1>4, <1>6, <1>7, Zenon

\* What is answered is what is stored already.
LEMMA GrantsStored ==
  ASSUME ConnectionsInv, NEW h \in Handlers, handler[h].at # "await", workload' \in Workload,
         NEW n \in DOMAIN connections, NEW cred, GrantPairing(h, n, cred), connections' = connections, Frame
  PROVE  ConnectionsInv' /\ Stays
<1>1. /\ LinkInv' /\ MutationCalls /\ Turned(h, Idle)
      /\ \A d \in calls' : d \in calls \/ (d.kind = "consume" /\ d.connection = n
                                           /\ d.about.epoch = connections'[n].epoch)
  BY Grants, Zenon
<1>2. HandlersTame
  BY <1>1, IdleIs, Zenon DEF HandlersTame, Turned
<1>3. MutationInv'
  BY <1>1, <1>2, MutationQuiet, Zenon DEF ConnectionsInv, Frame, HandlersTame, MutationHandlers
<1>4. \A d \in calls' : Tells(d)
  BY <1>1, Zenon DEF Tells, ConnectionsInv, EpochInv
<1>5. (\A k \in Handlers : HandlerEpoch(handler[k])') /\ Distinct'
  BY <1>2, HandlersKept, Zenon DEF ConnectionsInv, Frame, HandlersTame, EpochHandlers
<1>6. EpochInv'
  BY <1>4, <1>5, EpochsKept, EpochRest, Zenon DEF ConnectionsInv, Frame
<1>7. OneLivePerEnvironment' /\ Stays
  BY KeptConnections, Zenon DEF ConnectionsInv, Frame
<1> QED
  BY <1>1, <1>3, <1>6, <1>7, Zenon DEF ConnectionsInv

LEMMA DoLookupCompletion ==
  ASSUME ConnectionsInv, NEW h \in Handlers, handler[h] # Idle, workload' \in Workload,
         LookupCompletion(h)
  PROVE  ConnectionsInv' /\ Stays
<1> DEFINE q == handler[h].request
           n == receipts[q].resource
<1>1. /\ handler[h].at = "lookup" /\ UNCHANGED <<fleet, realm, made>>
      /\ IF fleet_idempotent_resource("connection.complete", q) = "completed"
         THEN GrantPairing(h, n, connections[n].credential)
         ELSE Go(h, [handler[h] EXCEPT !.at = "reserve"]) /\ calls' = calls
  BY Zenon DEF LookupCompletion
<1>2. Frame /\ handler[h].at # "await" /\ connections' = connections
  BY <1>1, FrameKept, Zenon DEF fleet
<1>3. CASE fleet_idempotent_resource("connection.complete", q) = "completed"
  <2>1. q \in DOMAIN receipts /\ receipts[q].action = "connection.complete"
    BY <1>3, Zenon DEF fleet_idempotent_resource
  <2>2. n \in DOMAIN connections
    BY <2>1, Zenon DEF ConnectionsInv, EpochInv, Receipted
  <2> QED
    BY <1>1, <1>2, <1>3, <2>2, GrantsStored, Zenon
<1>4. CASE fleet_idempotent_resource("connection.complete", q) # "completed"
  <2>1. PICK v : v = [handler[h] EXCEPT !.at = "reserve"]
    BY Zenon
  <2>2. IsWork(v) /\ v.at = "reserve"
    BY <2>1, Busy, AtSet, SMT
  <2>3. Tame(handler[h], v) /\ ~Mutated(v)
    BY <2>2, Zenon DEF Tame, Mutated, Paired
  <2> QED
    BY <1>1, <1>2, <1>4, <2>1, <2>2, <2>3, QuietTurn, Zenon
<1> QED
  BY <1>3, <1>4, Zenon

\* A handler's epoch goes to a new connection, the first live one of its environment.
LEMMA ConnectionAdded ==
  ASSUME ConnectionsInv, NEW h \in Handlers, Holds(handler[h]), Turned(h, Idle), LinkInv', MutationCalls,
         NEW n, NEW a, NEW q, made' \in Nat, made' >= made, n \in 1..made', n \notin DOMAIN connections,
         n \in DOMAIN grants => grants[n].epoch = handler[h].epoch,
         connections' = With(connections, n, Record(a, n, handler[h].epoch)),
         \A m \in DOMAIN connections : connections[m].environment = a.environment
                                       => connections[m].state = "revoked",
         persist_fleet_mutation(q, "connection.complete", n),
         UNCHANGED <<epoch, reserved, grants, effects, mutations>>,
         \A d \in calls' : d \in calls \/ (d.kind = "consume" /\ d.connection = n
                                           /\ d.about.epoch = connections'[n].epoch)
  PROVE  ConnectionsInv' /\ Stays
<1> DEFINE e == handler[h].epoch
<1>1. PICK r : r = Record(a, n, e)
  BY Zenon
<1>2. IsConnection(r) /\ r.epoch = e /\ r.environment = a.environment
  BY <1>1, Zenon DEF Record, IsConnection
<1>3. DOMAIN connections' = DOMAIN connections \cup {n} /\ connections'[n] = r
  <2>1. connections' = With(connections, n, r)
    BY <1>1, Zenon
  <2> QED
    BY <2>1, Zenon DEF With
<1>4. \A m \in DOMAIN connections : connections'[m] = connections[m] /\ m # n
  <2>1. \A m \in DOMAIN connections : m # n => connections'[m] = connections[m]
    <3>1. connections' = With(connections, n, r)
      BY <1>1, Zenon
    <3> QED
      BY <3>1, ZenonT(30) DEF With
  <2> QED
    BY <2>1, Zenon
<1>5. Unused(e)
  BY Zenon DEF ConnectionsInv, EpochInv, HandlerEpoch
<1> HIDE DEF e
<1>6. "connection.complete" \notin Operations
  BY FleetConnectionsConstants, Zenon
<1>7. AuditGrows
  BY <1>6, Persisted, Zenon
<1>8. MutationInv'
  <2>1. MutationHandlers
    BY IdleIs, Zenon DEF Turned, MutationHandlers
  <2> QED
    BY <1>7, <2>1, MutationQuiet, Zenon DEF ConnectionsInv
<1>9. EpochsNeverReused'
  <2>1. \A m \in DOMAIN connections : connections[m].epoch # e
    BY <1>5, Zenon DEF Unused
  <2>2. \A m, k \in DOMAIN connections' : connections'[m].epoch = connections'[k].epoch => m = k
    <3>1. \A m, k \in DOMAIN connections : connections[m].epoch = connections[k].epoch => m = k
      BY Zenon DEF ConnectionsInv, EpochInv, EpochsNeverReused
    <3>2. \A m \in DOMAIN connections' :
            \/ m \in DOMAIN connections /\ connections'[m] = connections[m]
            \/ m = n /\ connections'[m] = r
      BY <1>3, <1>4, Zenon
    <3> QED
      BY <1>2, <2>1, <3>1, <3>2, SMTT(30)
  <2>3. \A m \in DOMAIN connections' \cap DOMAIN grants' : grants'[m].epoch = connections'[m].epoch
    BY <1>2, <1>3, <1>4, ZenonT(30) DEF ConnectionsInv, EpochInv, EpochsNeverReused, e
  <2> QED
    BY <2>2, <2>3, Zenon DEF ConnectionsInv, EpochInv, EpochsNeverReused
<1>10. handler'[h] = Idle /\ \A k \in Handlers : k # h => handler'[k] = handler[k]
  BY Zenon DEF Turned
<1>11. ~Holds(Idle) /\ ~Paired(Idle) /\ Idle.at = "idle"
  BY Zenon DEF Idle, Holds, Paired
<1>12. ASSUME NEW k \in Handlers PROVE HandlerEpoch(handler[k])'
  <2>1. CASE k = h
    BY <1>10, <1>11, <2>1, Zenon DEF HandlerEpoch, Holds, Paired
  <2>2. CASE k # h
    <3>1. handler'[k] = handler[k] /\ HandlerEpoch(handler[k])
      BY <1>10, <2>2, ZenonT(30) DEF ConnectionsInv, EpochInv
    <3>2. Holds(handler[k]) => handler[k].epoch # e
      BY <2>2, Zenon DEF ConnectionsInv, EpochInv, e
    <3>3. Holds(handler[k]) => Unused(handler[k].epoch)'
      BY <1>2, <1>3, <1>4, <3>1, <3>2, ZenonT(30) DEF HandlerEpoch, Unused
    <3> QED
      BY <3>1, <3>3, Zenon DEF HandlerEpoch, Holds, Paired
  <2> QED
    BY <2>1, <2>2, Zenon
<1>13. \A j, k \in Handlers :
         Holds(handler'[j]) /\ Holds(handler'[k]) /\ handler'[j].epoch = handler'[k].epoch => j = k
  BY <1>10, <1>11, ZenonT(30) DEF ConnectionsInv, EpochInv
<1>14. 1..made \subseteq 1..made'
  BY SMT DEF ConnectionsInv, EpochInv
<1>15. DOMAIN connections' \subseteq 1..made' /\ DOMAIN grants' \subseteq 1..made'
  BY <1>3, <1>14, Zenon DEF ConnectionsInv, EpochInv
<1>16. \A m \in DOMAIN connections' : IsConnection(connections'[m]) /\ connections'[m].epoch \in 1..epoch'
  BY <1>2, <1>3, <1>4, <1>5, ZenonT(30) DEF Unused, ConnectionsInv, EpochInv
<1>17. \A c \in calls' : Tells(c)'
  <2>1. \A c \in calls : Tells(c)
    BY Zenon DEF ConnectionsInv, EpochInv
  <2>2. \A c \in calls' : c.kind = "consume" =>
          c.connection \in DOMAIN connections' /\ c.about.epoch = connections'[c.connection].epoch
    <3>1. ASSUME NEW c \in calls', c.kind = "consume"
          PROVE  c.connection \in DOMAIN connections' /\ c.about.epoch = connections'[c.connection].epoch
      <4>1. CASE c \in calls
        BY <1>3, <1>4, <2>1, <3>1, <4>1, Zenon DEF Tells
      <4>2. CASE c.connection = n /\ c.about.epoch = connections'[n].epoch
        BY <1>3, <4>2, ZenonT(30)
      <4> QED
        BY <3>1, <4>1, <4>2, Zenon
    <3> QED
      BY <3>1, Zenon
  <2> QED
    BY <2>2, Zenon DEF Tells
<1>18. \A p \in DOMAIN receipts' : Receipted(receipts[p])'
  <2>1. PICK t : t = Receipt("connection.complete", n)
    BY Zenon
  <2>2. t.resource = n /\ receipts' = With(receipts, q, t)
    BY <2>1, Zenon DEF Receipt, persist_fleet_mutation
  <2>3. \A p \in DOMAIN receipts' : receipts'[p] = t \/ (p \in DOMAIN receipts /\ receipts'[p] = receipts[p])
    <3>1. /\ DOMAIN receipts' = DOMAIN receipts \cup {q} /\ receipts'[q] = t
          /\ \A p \in DOMAIN receipts : p # q => receipts'[p] = receipts[p]
      BY <2>2, Zenon DEF With
    <3> QED
      BY <3>1, Zenon
  <2> QED
    BY <1>3, <2>2, <2>3, ZenonT(30) DEF Receipted, ConnectionsInv, EpochInv
<1>19. EpochInv'
  BY <1>9, <1>12, <1>13, <1>15, <1>16, <1>17, <1>18, ZenonT(30) DEF ConnectionsInv, EpochInv, Holds
<1>20. OneLivePerEnvironment'
  <2>1. \A m, k \in DOMAIN connections' :
          /\ connections'[m].environment = connections'[k].environment
          /\ connections'[m].state # "revoked" /\ connections'[k].state # "revoked"
          => m = k
    <3>1. \A m \in DOMAIN connections' :
            \/ m \in DOMAIN connections /\ connections'[m] = connections[m]
            \/ m = n /\ connections'[m] = r
      BY <1>3, <1>4, Zenon
    <3>2. \A m, k \in DOMAIN connections :
            /\ connections[m].environment = connections[k].environment
            /\ connections[m].state # "revoked" /\ connections[k].state # "revoked"
            => m = k
      BY Zenon DEF ConnectionsInv, OneLivePerEnvironment
    <3> QED
      BY <1>2, <3>1, <3>2, SMT
  <2> QED
    BY <2>1, ZenonT(30) DEF OneLivePerEnvironment
<1>21. Stays
  BY <1>3, <1>4, Zenon DEF Stays
<1> QED
  BY <1>8, <1>19, <1>20, <1>21, Zenon DEF ConnectionsInv

\* complete_fleet_connection stores the record, or leaves everything as it is.
LEMMA CompletesOrRefuses ==
  ASSUME NEW h, NEW n, NEW a, NEW e, complete_fleet_connection(h, n, Record(a, n, e))
  PROVE  /\ UNCHANGED <<epoch, reserved>>
         /\ \/ UNCHANGED <<connections, receipts, audit>>
            \/ /\ connections' = With(connections, n, Record(a, n, e))
               /\ persist_fleet_mutation(handler[h].request, "connection.complete", n)
               /\ \A m \in DOMAIN connections : connections[m].environment = a.environment
                                                => connections[m].state = "revoked"
<1>1. PICK r : r = Record(a, n, e)
  BY Zenon
<1>2. r.environment = a.environment
  BY <1>1, Zenon DEF Record
<1>3. complete_fleet_connection(h, n, r)
  BY <1>1, Zenon
<1>4. /\ UNCHANGED <<epoch, reserved>>
      /\ \/ UNCHANGED <<connections, receipts, audit>>
         \/ /\ connections' = With(connections, n, r)
            /\ persist_fleet_mutation(handler[h].request, "connection.complete", n)
            /\ ~\E m \in DOMAIN connections :
                  connections[m].environment = r.environment /\ connections[m].state # "revoked"
  BY <1>3, Zenon DEF complete_fleet_connection
<1> QED
  BY <1>1, <1>2, <1>4, Zenon

LEMMA DoStoreConnection ==
  ASSUME ConnectionsInv, NEW h \in Handlers, workload' \in Workload, StoreConnection(h)
  PROVE  ConnectionsInv' /\ Stays
<1> DEFINE w == handler[h]
           n == w.reply
           a == w.subject.attempt
<1>1. /\ w.at = "answered" /\ w.op = "complete" /\ Done(h) /\ calls' = calls
      /\ complete_fleet_connection(h, n, Record(a, n, w.epoch)) /\ UNCHANGED <<realm, made>>
  BY Zenon DEF StoreConnection
<1>2. UNCHANGED <<grants, mutations, effects, made>>
  BY <1>1, Zenon DEF realm
<1>3. UNCHANGED <<epoch, reserved>>
  BY <1>1, CompletesOrRefuses, Zenon
<1>4. GrantsKept /\ made' \in Nat /\ made' >= made
  BY <1>2, Kept, Zenon DEF ConnectionsInv
<1>5. CASE UNCHANGED <<connections, receipts, audit>>
  <2>1. Frame
    BY <1>2, <1>3, <1>4, <1>5, Kept, Zenon DEF ConnectionsInv, Frame
  <2>2. w.at # "await"
    BY <1>1, Zenon
  <2> QED
    BY <1>1, <2>1, <2>2, QuietDone, Zenon
<1>6. CASE /\ connections' = With(connections, n, Record(a, n, w.epoch))
           /\ persist_fleet_mutation(w.request, "connection.complete", n)
           /\ \A m \in DOMAIN connections : connections[m].environment = a.environment
                                            => connections[m].state = "revoked"
  <2>1. Holds(w) /\ Paired(w)
    BY <1>1, Zenon DEF Holds, Paired
  <2>2. Unused(w.epoch) /\ n \in DOMAIN grants /\ grants[n].epoch = w.epoch
    BY <2>1, Zenon DEF ConnectionsInv, EpochInv, HandlerEpoch
  <2>3. n \notin DOMAIN connections
    BY <2>2, Zenon DEF Unused, ConnectionsInv, EpochInv, EpochsNeverReused
  <2>4. n \in 1..made'
    BY <1>2, <2>2, ZenonT(30) DEF ConnectionsInv, EpochInv
  <2>5. Turned(h, Idle)
    BY <1>1, Turns, Zenon DEF Done, ConnectionsInv
  <2>6. handler[h].at # "await"
    BY <1>1, Zenon
  <2>7. LinkInv' /\ MutationCalls
    BY <1>1, <2>5, <2>6, NoCallFrom, HandlerTurns, ZenonT(30) DEF ConnectionsInv
  <2>8. \A d \in calls' : d \in calls
    BY <1>1, Zenon
  <2> QED
    BY <1>2, <1>3, <1>4, <1>6, <2>1, <2>2, <2>3, <2>4, <2>5, <2>7, <2>8, ConnectionAdded, Zenon
<1> QED
  BY <1>1, <1>5, <1>6, CompletesOrRefuses, SMT

LEMMA DoCompletePairing ==
  ASSUME ConnectionsInv, NEW h \in Handlers, workload' \in Workload, CompletePairing(h)
  PROVE  ConnectionsInv' /\ Stays
<1> DEFINE w == handler[h]
           n == made + 1
           a == w.subject.attempt
           q == w.request
           completed == q \in DOMAIN receipts' /\ receipts'[q].action = "connection.complete"
<1>1. /\ w.at = "reserved" /\ made' = n
      /\ complete_fleet_connection(h, n, Record(a, n, w.epoch)) /\ UNCHANGED realm
      /\ IF completed THEN GrantPairing(h, receipts'[q].resource, n) ELSE Done(h) /\ calls' = calls
  BY Zenon DEF CompletePairing
<1>2. UNCHANGED <<grants, mutations, effects>> /\ UNCHANGED <<epoch, reserved>>
  BY <1>1, CompletesOrRefuses, Zenon DEF realm
<1>3. GrantsKept /\ made' \in Nat /\ made' >= made
  BY <1>1, <1>2, Kept, Zenon DEF ConnectionsInv
<1>4. w.at # "await"
  BY <1>1, Zenon
<1>5. CASE UNCHANGED <<connections, receipts, audit>>
  <2>1. Frame
    BY <1>2, <1>3, <1>5, Kept, Zenon DEF ConnectionsInv, Frame
  <2>2. CASE completed
    <3>1. receipts'[q].resource \in DOMAIN connections
      BY <1>5, <2>2, Zenon DEF ConnectionsInv, EpochInv, Receipted
    <3> QED
      BY <1>1, <1>4, <1>5, <2>1, <2>2, <3>1, GrantsStored, Zenon
  <2>3. CASE ~completed
    BY <1>1, <1>4, <2>1, <2>3, QuietDone, ZenonT(30)
  <2> QED
    BY <2>2, <2>3, Zenon
<1>6. CASE /\ connections' = With(connections, n, Record(a, n, w.epoch))
           /\ persist_fleet_mutation(q, "connection.complete", n)
           /\ \A m \in DOMAIN connections : connections[m].environment = a.environment
                                            => connections[m].state = "revoked"
  <2>1. made \in Nat /\ DOMAIN connections \subseteq 1..made /\ DOMAIN grants \subseteq 1..made
    BY Zenon DEF ConnectionsInv, EpochInv
  <2>2. n \notin DOMAIN connections /\ n \notin DOMAIN grants /\ n \in 1..made'
    BY <1>1, <2>1, SMT
  <2>3. PICK t : t = Receipt("connection.complete", n)
    BY Zenon
  <2>4. t.resource = n /\ t.action = "connection.complete" /\ receipts' = With(receipts, q, t)
    BY <1>6, <2>3, Zenon DEF Receipt, persist_fleet_mutation
  <2>5. q \in DOMAIN receipts' /\ receipts'[q] = t
    BY <2>4, Zenon DEF With
  <2>6. GrantPairing(h, n, n)
    BY <1>1, <2>4, <2>5, Zenon
  <2> HIDE DEF n
  <2>7. /\ LinkInv' /\ MutationCalls /\ Turned(h, Idle)
        /\ \A d \in calls' : d \in calls \/ (d.kind = "consume" /\ d.connection = n
                                             /\ d.about.epoch = connections'[n].epoch)
    BY <1>4, <2>6, Grants, Zenon
  <2>8. Holds(w)
    BY <1>1, Zenon DEF Holds
  <2> QED
    BY <1>2, <1>3, <1>6, <2>2, <2>7, <2>8, ConnectionAdded, SMT
<1> QED
  BY <1>1, <1>5, <1>6, CompletesOrRefuses, SMT

-----------------------------------------------------------------------------
(* The theorems. *)

LEMMA HandlerStepKeeps ==
  ASSUME ConnectionsInv, NEW h \in Handlers, workload' = workload, HandlerStep(h)
  PROVE  ConnectionsInv' /\ Stays
<1>1. workload' \in Workload /\ handler[h] # Idle
  BY Zenon DEF ConnectionsInv, LinkInv, HandlerStep
<1>2. CASE ReadEpoch(h) \/ InitializeEpoch(h) \/ IncrementEpoch(h)
  BY <1>1, <1>2, DoReadEpoch, DoInitializeEpoch, DoIncrementEpoch, Zenon
<1>3. CASE ExchangePairingCode(h) \/ StoreConnection(h) \/ LookupCompletion(h) \/ CompletePairing(h)
  BY <1>1, <1>3, DoExchangePairingCode, DoStoreConnection, DoLookupCompletion, DoCompletePairing, Zenon
<1>4. CASE \/ CheckRotationReceipt(h) \/ stage_fleet_connection_credential(h)
           \/ RetryWithStaged(h) \/ StoreRotation(h)
  BY <1>1, <1>4, DoCheckRotationReceipt, DoStage, DoRetryWithStaged, DoStoreRotation, Zenon
<1>5. CASE StoreRevocation(h) \/ RecordMutation(h) \/ Observe(h) \/ GiveUp(h)
  BY <1>1, <1>5, DoStoreRevocation, DoRecordMutation, DoObserve, DoGiveUp, Zenon
<1>6. CASE Timeout(h) \/ Abandon(h)
  BY <1>1, <1>6, DoTimeout, DoAbandon, Zenon
<1> QED
  BY <1>2, <1>3, <1>4, <1>5, <1>6, Zenon DEF HandlerStep

LEMMA RealmStepKeeps ==
  ASSUME ConnectionsInv, NEW c \in calls, workload' = workload, RealmStep(c) \/ LoseCall(c)
  PROVE  ConnectionsInv' /\ Stays
<1>1. workload' \in Workload
  BY Zenon DEF ConnectionsInv, LinkInv
<1>2. CASE TakePairing(c) \/ exchange_realm_pairing(c) \/ consume_outbound_realm_pairing(c)
  BY <1>1, <1>2, DoTakePairing, DoExchange, DoConsume, ZenonT(30)
<1>3. CASE \/ realm_fleet_grant_by_credential(c) \/ operational_snapshot(c)
           \/ revoke_realm_fleet_grant(c) \/ rotate_realm_fleet_grant(c)
  BY <1>1, <1>3, DoGrantByCredential, DoOperationalSnapshot, DoRevokeRealmFleetGrant,
     DoRotateRealmFleetGrant, Zenon
<1>4. CASE \/ claim_remote_mutation(c) \/ apply_remote_mutation(c) \/ LogMutation(c)
           \/ complete_remote_mutation(c)
  BY <1>1, <1>4, DoClaim, DoApply, DoLogMutation, DoCompleteMutation, Zenon
<1>5. CASE LoseCall(c)
  BY <1>1, <1>5, DoLoseCall, ZenonT(30)
<1> QED
  BY <1>2, <1>3, <1>4, <1>5, ZenonT(30) DEF RealmStep

LEMMA StepKeeps ==
  ASSUME ConnectionsInv, [Next]_vars
  PROVE  ConnectionsInv' /\ Stays
<1>0. workload.handlers \subseteq Handlers
  BY Zenon DEF ConnectionsInv, LinkInv, Workload
<1>1. ASSUME NEW h \in workload.handlers, Calls(h) PROVE ConnectionsInv' /\ Stays
  BY <1>1, DoCalls, Zenon
<1>2. CASE Begin /\ workload' = workload
  BY <1>2, DoBegin, Zenon
<1>3. ASSUME NEW h \in workload.handlers, HandlerStep(h), workload' = workload PROVE ConnectionsInv' /\ Stays
  BY <1>0, <1>3, HandlerStepKeeps, Zenon
<1>4. ASSUME NEW c \in calls, RealmStep(c) \/ LoseCall(c), workload' = workload PROVE ConnectionsInv' /\ Stays
  BY <1>4, RealmStepKeeps, Zenon
<1>5. CASE UNCHANGED vars
  <2>1. UNCHANGED <<fleet, realm, made, handler, calls, workload>>
    BY <1>5, Zenon DEF vars
  <2>2. Frame
    BY <2>1, FrameKept, Zenon
  <2>3. LinkInv' /\ MutationCalls /\ EpochCalls /\ HandlersTame
    BY <2>1, Zenon DEF ConnectionsInv, LinkInv, MutationCalls, EpochCalls, Like, HandlersTame
  <2> QED
    BY <2>2, <2>3, Quiet, Zenon
<1> QED
  BY <1>1, <1>2, <1>3, <1>4, <1>5, Zenon DEF Next

LEMMA InitHolds == Init => ConnectionsInv
<1> SUFFICES ASSUME Init PROVE ConnectionsInv
  OBVIOUS
<1> DEFINE paired == workload.ops \cap {"begin", "complete", "pair"} = {}
           one    == IF paired THEN {1} ELSE {}
           grant  == [digest |-> credential_digest(1), epoch |-> 1, revoked |-> FALSE]
<1>1. /\ workload \in Workloads /\ connections = [n \in one |-> Connected(1)]
      /\ grants = [n \in one |-> grant] /\ epoch = IF paired THEN 1 ELSE NoEpoch
      /\ made = Cardinality(one) /\ reserved = IF paired THEN <<1>> ELSE <<>>
      /\ receipts = Empty /\ audit = <<>> /\ handler = [h \in Handlers |-> Idle] /\ calls = {}
      /\ mutations = Empty /\ effects = [q \in RequestIds |-> <<>>]
  BY Zenon DEF Init
<1>2. LinkInv
  <2>1. workload \in Workload
    BY <1>1, FleetConnectionsConstants, Zenon DEF Workload
  <2> QED
    BY <1>1, <2>1, Zenon DEF LinkInv
<1>3. MutationInv
  <2>1. DOMAIN Empty = {}
    BY Zenon DEF Empty
  <2>2. audit \in Seq(Nat) /\ DOMAIN audit = {}
    BY <1>1, SMT
  <2>3. \A h \in Handlers : ~Mutated(handler[h])
    BY <1>1, IdleIs, Zenon
  <2>4. DOMAIN effects = RequestIds /\ \A q \in RequestIds : effects[q] = <<>>
    BY <1>1, Zenon
  <2> QED
    BY <1>1, <2>1, <2>2, <2>3, <2>4, Zenon DEF MutationInv
<1>4. \A n \in DOMAIN connections : n = 1 /\ connections[n] = Connected(1) /\ paired
  BY <1>1, Zenon
<1>5. \A n \in DOMAIN grants : n = 1 /\ grants[n] = grant /\ paired
  BY <1>1, ZenonT(30)
<1>6. IsConnection(Connected(1)) /\ Connected(1).epoch = 1
  BY SMT DEF IsConnection, Connected
<1>7. DOMAIN grant = {"digest", "epoch", "revoked"} /\ grant.epoch = 1
  BY Zenon
<1>8. made \in Nat /\ (paired => made = 1)
  <2>1. Cardinality({}) = 0 /\ Cardinality({1}) = 1
    BY FS_EmptySet, FS_Singleton, Zenon
  <2>2. made = IF paired THEN 1 ELSE 0
    BY <1>1, <2>1, Zenon
  <2> HIDE DEF paired
  <2> QED
    BY <2>2, SMT
<1>9. /\ epoch \in Int /\ epoch >= NoEpoch /\ (paired => epoch = 1)
      /\ reserved \in Seq(Nat) /\ \A i \in DOMAIN reserved : reserved[i] \in 1..epoch /\ i = 1
  BY <1>1, SMT DEF NoEpoch
<1>10. paired => 1 \in 1..made /\ 1 \in 1..epoch
  BY <1>8, <1>9, SMT
<1> HIDE DEF paired, one, grant
<1>11. EpochInv
  <2>1. EpochsNeverReused
    BY <1>4, <1>5, <1>6, <1>7, <1>9, Zenon DEF EpochsNeverReused
  <2>2. \A h \in Handlers : HandlerEpoch(handler[h]) /\ ~Holds(handler[h])
    BY <1>1, IdleIs, Zenon DEF HandlerEpoch, Holds, Paired, Idle
  <2>3. DOMAIN connections \subseteq 1..made /\ DOMAIN grants \subseteq 1..made
    BY <1>4, <1>5, <1>10, Zenon
  <2>4. \A n \in DOMAIN connections : IsConnection(connections[n]) /\ connections[n].epoch \in 1..epoch
    BY <1>4, <1>6, <1>10, Zenon
  <2>5. \A n \in DOMAIN grants : DOMAIN grants[n] = {"digest", "epoch", "revoked"}
    BY <1>5, <1>7, Zenon
  <2>6. DOMAIN receipts = {}
    BY <1>1, Zenon DEF Empty
  <2> QED
    BY <1>1, <1>8, <1>9, <2>1, <2>2, <2>3, <2>4, <2>5, <2>6, Zenon DEF EpochInv
<1>12. OneLivePerEnvironment
  BY <1>4, Zenon DEF OneLivePerEnvironment
<1> QED
  BY <1>2, <1>3, <1>11, <1>12, ZenonT(30) DEF ConnectionsInv

\* In every reachable state handlers and calls fit together, a claim at the realm belongs to
\* one call, and an epoch belongs to one handler or one connection.
THEOREM ConnectionsStayConsistent == Spec => []ConnectionsInv
<1>1. ConnectionsInv /\ [Next]_vars => ConnectionsInv'
  BY StepKeeps, Zenon
<1> QED
  BY InitHolds, <1>1, PTL DEF Spec

\* claim_remote_mutation: a request's mutation is applied at the realm at most once, however
\* often the request is sent, lost or given up, and Fleet's audit names what was applied.
THEOREM MutationsAtMostOnce == Spec => []MutationAtMostOnce
<1>1. ConnectionsInv => MutationAtMostOnce
  <2> SUFFICES ASSUME ConnectionsInv PROVE MutationAtMostOnce
    OBVIOUS
  <2>1. \A q \in RequestIds : effects[q] = <<>> \/ \E o \in Operations : effects[q] = <<o>>
    BY Zenon DEF ConnectionsInv, MutationInv
  <2>2. Len(<<>>) <= 1 /\ \A o : Len(<<o>>) <= 1
    BY SMT
  <2>3. \A q \in RequestIds : Len(effects[q]) <= 1
    BY <2>1, <2>2, Zenon
  <2>4. \A i \in DOMAIN audit, o \in Operations : audit[i].action = o => effects[audit[i].request] = <<o>>
    BY Zenon DEF ConnectionsInv, MutationInv, Applied
  <2> QED
    BY <2>3, <2>4, Zenon DEF MutationAtMostOnce
<1> QED
  BY <1>1, ConnectionsStayConsistent, PTL

\* reserve_fleet_assignment_epoch: no epoch is reserved twice or given to two connections,
\* and the realm's grant has the epoch of Fleet's connection.
THEOREM EpochsAreNeverReused == Spec => []EpochsNeverReused
<1>1. ConnectionsInv => EpochsNeverReused
  BY Zenon DEF ConnectionsInv, EpochInv
<1> QED
  BY <1>1, ConnectionsStayConsistent, PTL

\* complete_fleet_connection: an environment never has two connections that are not revoked,
\* whichever handlers pair it at the same time.
THEOREM LiveConnectionIsUnique == Spec => []OneLivePerEnvironment
<1>1. ConnectionsInv => OneLivePerEnvironment
  BY Zenon DEF ConnectionsInv
<1> QED
  BY <1>1, ConnectionsStayConsistent, PTL

\* observe_fleet_connection, rotate_fleet_connection_credential and
\* stage_fleet_connection_credential: no late answer changes a revoked connection.
THEOREM RevokedStaysRevoked == Spec => RevokedIsFinal
<1>1. ConnectionsInv /\ [Next]_vars =>
        [\A n \in DOMAIN connections :
           connections[n].state = "revoked" => n \in DOMAIN connections' /\ connections'[n] = connections[n]]_vars
  BY StepKeeps, Zenon DEF Stays
<1> QED
  BY <1>1, ConnectionsStayConsistent, PTL DEF Spec, RevokedIsFinal
=============================================================================
