--------------------------- MODULE SessionsProofs ---------------------------
(***************************************************************************)
(* What a session is accepted on, for any number of requests, tokens and   *)
(* passkeys and for every setting of the time limits: a revocation ends    *)
(* what rests on it, the written-behind activity carries no session past   *)
(* its bounds, and the account keeps a passkey.                            *)
(***************************************************************************)
EXTENDS Sessions, FiniteSetTheorems, TLAPS

Places == {"idle", "session", "user", "delete", "act", "lock", "handoff", "create", "append",
           "relock", "mark"}

Request == [op : AllOperations, token : Tokens \cup {Nobody},
            cred : Credentials \cup {NoCredential}, sess : Session \cup {Nobody},
            version : Nat, now : Nat, deadline : Nat]

\* A record, or a copy of one that a request has read, fits what its token was created from
\* and has been used for since.
Linked(s, t) ==
  /\ s \in Session
  /\ s.version = born[t].version /\ s.expires = born[t].expires
  /\ s.seen <= used[t]
  /\ s.cred = NoCredential <=> born[t].proven = {}
  /\ s.cred # NoCredential => s.cred \in born[t].proven
  /\ s.method = "passkey" => s.cred # NoCredential

\* What a request q at this place has established.
Fits(q, at) ==
  /\ q \in Request /\ at \in Places
  /\ at # "idle" /\ q.op \notin {"signIn", "agent"} => q.token \in DOMAIN born
  /\ at \in {"session", "user", "delete", "act"} => q.op \notin {"signIn", "agent"}
  /\ at = "handoff" => q.op = "agent"
  /\ at \in {"relock", "mark"} => q.op = "stepUp"
  /\ q.op \in {"stepUp", "addPasskey"} => q.cred \in Credentials
  /\ at \in {"user", "act", "mark"} => Linked(q.sess, q.token)
  /\ at = "create" /\ q.op = "deviceToken" => Linked(q.sess, q.token)
  /\ at = "user" => ~session_expired(q.sess, q.now)
  /\ at \in {"lock", "relock", "mark"} /\ q.op = "stepUp" => born[q.token].proven # {}

AccountInv ==
  /\ user \in [version : Nat, passkeys : SUBSET Credentials] /\ user.passkeys # {}
  /\ known \subseteq Credentials

HistoryInv ==
  /\ clock \in Nat
  /\ DOMAIN born \subseteq Tokens /\ \A t \in DOMAIN born : born[t] \in Birth
  /\ DOMAIN used = DOMAIN born /\ \A t \in DOMAIN born : used[t] \in Nat

RecordsInv == \A t \in DOMAIN sessions : t \in DOMAIN born /\ Linked(sessions[t], t)

\* No activity, written or under way, is later than its token's last use.
Observed(t, at) == t \in DOMAIN born /\ at \in Nat /\ at <= used[t]

ActivityInv == \A t \in DOMAIN activity : Observed(t, activity[t])
BatchInv    == \A t \in DOMAIN batch : Observed(t, batch[t])

Touch == [token : Tokens, at : Nat, ttl : Nat \ {0}]

QueueInv ==
  /\ queue \in Seq(Touch)
  /\ \A i \in DOMAIN queue : Observed(queue[i].token, queue[i].at)

RequestInv ==
  /\ DOMAIN pc = Requests /\ DOMAIN req = Requests
  /\ \A r \in Requests : Fits(req[r], pc[r])

LocksInv == mutation \in Requests \cup {Nobody} /\ writing \in BOOLEAN

SessionInv ==
  /\ AccountInv /\ HistoryInv /\ RecordsInv /\ ActivityInv /\ BatchInv /\ QueueInv
  /\ RequestInv /\ LocksInv

-----------------------------------------------------------------------------
(* History only grows. *)

\* Tokens keep what they were created from; a token that rests on a passkey rests on one
\* for ever; and uses only get later.
Ages ==
  /\ HistoryInv'
  /\ \A t \in DOMAIN born :
       /\ t \in DOMAIN born' /\ born'[t].version = born[t].version
       /\ born'[t].expires = born[t].expires /\ born[t].proven \subseteq born'[t].proven
       /\ born[t].proven = {} <=> born'[t].proven = {}
       /\ used[t] <= used'[t]

LEMMA SameHistory ==
  ASSUME HistoryInv, UNCHANGED <<born, used>>, clock' \in Nat
  PROVE  Ages
BY DEF HistoryInv, Ages

LEMMA LinkedStays ==
  ASSUME HistoryInv, Ages, NEW s, NEW t \in DOMAIN born, Linked(s, t)
  PROVE  Linked(s, t)'
<1>1. s.seen <= used'[t]
  <2>1. s.seen \in Nat /\ used[t] \in Nat /\ used'[t] \in Nat
    BY DEF Linked, Session, HistoryInv, Ages
  <2> QED
    BY <2>1 DEF Linked, Ages
<1> QED
  BY <1>1 DEF Linked, Ages

LEMMA ObservedStays ==
  ASSUME HistoryInv, Ages, NEW t, NEW at, Observed(t, at)
  PROVE  Observed(t, at)'
<1>1. used[t] \in Nat /\ used'[t] \in Nat /\ used[t] <= used'[t] /\ t \in DOMAIN born'
  BY DEF Observed, HistoryInv, Ages
<1> QED
  BY <1>1 DEF Observed

LEMMA FitsStays ==
  ASSUME HistoryInv, Ages, NEW q, NEW at, Fits(q, at)
  PROVE  Fits(q, at)'
<1>1. at # "idle" /\ q.op \notin {"signIn", "agent"} => q.token \in DOMAIN born /\ q.token \in DOMAIN born'
  BY DEF Fits, Ages
<1>2. at \in {"user", "act", "mark"} => Linked(q.sess, q.token)'
  <2> SUFFICES ASSUME at \in {"user", "act", "mark"} PROVE Linked(q.sess, q.token)'
    OBVIOUS
  <2> PICK s, t : s = q.sess /\ t = q.token
    OBVIOUS
  <2>1. t \in DOMAIN born /\ Linked(s, t)
    BY <1>1 DEF Fits
  <2>2. Linked(s, t)'
    BY <2>1, LinkedStays
  <2> QED
    BY <2>2
<1>3. at = "create" /\ q.op = "deviceToken" => Linked(q.sess, q.token)'
  <2> SUFFICES ASSUME at = "create", q.op = "deviceToken" PROVE Linked(q.sess, q.token)'
    OBVIOUS
  <2> PICK s, t : s = q.sess /\ t = q.token
    OBVIOUS
  <2>1. t \in DOMAIN born /\ Linked(s, t)
    BY <1>1 DEF Fits
  <2>2. Linked(s, t)'
    BY <2>1, LinkedStays
  <2> QED
    BY <2>2
<1>4. at \in {"lock", "relock", "mark"} /\ q.op = "stepUp" => born'[q.token].proven # {}
  BY <1>1 DEF Fits, Ages
<1>5. ~session_expired(q.sess, q.now) => ~session_expired(q.sess, q.now)'
  BY DEF session_expired
<1> QED
  BY <1>1, <1>2, <1>3, <1>4, <1>5 DEF Fits

\* What is kept of the records and of the touches stays fitting.
LEMMA RecordsStay ==
  ASSUME HistoryInv, Ages, RecordsInv,
         \A t \in DOMAIN sessions' : t \in DOMAIN sessions /\ sessions'[t] = sessions[t]
  PROVE  RecordsInv'
<1> SUFFICES ASSUME NEW t \in DOMAIN sessions'
             PROVE  t \in DOMAIN born' /\ Linked(sessions[t], t)'
  BY DEF RecordsInv
<1> PICK s : s = sessions[t]
  OBVIOUS
<1>1. t \in DOMAIN born /\ Linked(s, t)
  BY DEF RecordsInv
<1>2. Linked(s, t)' /\ t \in DOMAIN born'
  BY <1>1, LinkedStays DEF Ages
<1> QED
  BY <1>2

LEMMA ActivityStays ==
  ASSUME HistoryInv, Ages, ActivityInv,
         \A t \in DOMAIN activity' : t \in DOMAIN activity /\ activity'[t] = activity[t]
  PROVE  ActivityInv'
<1> SUFFICES ASSUME NEW t \in DOMAIN activity'
             PROVE  Observed(t, activity[t])'
  BY DEF ActivityInv
<1> PICK at : at = activity[t]
  OBVIOUS
<1>1. Observed(t, at)'
  BY ObservedStays DEF ActivityInv
<1> QED
  BY <1>1

LEMMA BatchStays ==
  ASSUME HistoryInv, Ages, BatchInv,
         \A t \in DOMAIN batch' : t \in DOMAIN batch /\ batch'[t] = batch[t]
  PROVE  BatchInv'
<1> SUFFICES ASSUME NEW t \in DOMAIN batch'
             PROVE  Observed(t, batch[t])'
  BY DEF BatchInv
<1> PICK at : at = batch[t]
  OBVIOUS
<1>1. Observed(t, at)'
  BY ObservedStays DEF BatchInv
<1> QED
  BY <1>1

LEMMA QueueStays ==
  ASSUME HistoryInv, Ages, QueueInv, UNCHANGED queue
  PROVE  QueueInv'
<1> SUFFICES ASSUME NEW i \in DOMAIN queue
             PROVE  Observed(queue[i].token, queue[i].at)'
  BY DEF QueueInv
<1> PICK t, at : t = queue[i].token /\ at = queue[i].at
  OBVIOUS
<1>1. Observed(t, at)'
  BY ObservedStays DEF QueueInv
<1> QED
  BY <1>1

\* One request moves; what the others have established stays so.
LEMMA RequestMoves ==
  ASSUME HistoryInv, Ages, RequestInv, NEW r \in Requests, NEW q, NEW at,
         DOMAIN pc' = Requests, DOMAIN req' = Requests, pc'[r] = at, req'[r] = q, Fits(q, at)',
         \A x \in Requests : x # r => pc'[x] = pc[x] /\ req'[x] = req[x]
  PROVE  RequestInv'
<1> SUFFICES ASSUME NEW x \in Requests PROVE Fits(req[x], pc[x])'
  BY DEF RequestInv
<1>1. CASE x = r
  BY <1>1
<1>2. CASE x # r
  <2> PICK p, a : p = req[x] /\ a = pc[x]
    OBVIOUS
  <2>1. Fits(p, a)'
    BY FitsStays DEF RequestInv
  <2> QED
    BY <1>2, <2>1
<1> QED
  BY <1>1, <1>2

LEMMA RequestsStay ==
  ASSUME HistoryInv, Ages, RequestInv, UNCHANGED <<pc, req>>
  PROVE  RequestInv'
<1> SUFFICES ASSUME NEW x \in Requests PROVE Fits(req[x], pc[x])'
  BY DEF RequestInv
<1> PICK p, a : p = req[x] /\ a = pc[x]
  OBVIOUS
<1>1. Fits(p, a)'
  BY FitsStays DEF RequestInv
<1> QED
  BY <1>1

\* A request that has ended fits anything.
LEMMA EndedFits ==
  ASSUME HistoryInv
  PROVE  Fits(NoReq, "idle") /\ Fits(NoReq, "idle")'
<1>1. NoReq \in Request /\ NoReq.op = "token"
  BY DEF NoReq, Request, AllOperations
<1> QED
  BY <1>1 DEF Fits, Places

LEMMA RequestEnds ==
  ASSUME HistoryInv, Ages, RequestInv, NEW r \in Requests, End(r)
  PROVE  RequestInv'
<1>1. /\ DOMAIN pc' = Requests /\ DOMAIN req' = Requests /\ pc'[r] = "idle" /\ req'[r] = NoReq
      /\ \A x \in Requests : x # r => pc'[x] = pc[x] /\ req'[x] = req[x]
  BY Zenon DEF End, RequestInv
<1>2. Fits(NoReq, "idle")'
  BY EndedFits, Zenon
<1> QED
  BY <1>1, <1>2, RequestMoves, Zenon

LEMMA RequestGoesOn ==
  ASSUME HistoryInv, Ages, RequestInv, NEW r \in Requests, NEW at, Goto(r, at), UNCHANGED req,
         Fits(req[r], at)
  PROVE  RequestInv'
<1> PICK q : q = req[r]
  BY Zenon
<1>1. /\ DOMAIN pc' = Requests /\ DOMAIN req' = Requests /\ pc'[r] = at /\ req'[r] = q
      /\ \A x \in Requests : x # r => pc'[x] = pc[x] /\ req'[x] = req[x]
  BY Zenon DEF Goto, RequestInv
<1>2. Fits(q, at)'
  BY FitsStays, Zenon
<1> QED
  BY <1>1, <1>2, RequestMoves, Zenon

\* A step that changes only requests and locks.
LEMMA StoreStays ==
  ASSUME SessionInv, UNCHANGED <<store, touches, history>>, clock' \in Nat, RequestInv',
         mutation' \in Requests \cup {Nobody}
  PROVE  SessionInv'
<1>1. Ages
  BY SameHistory, Zenon DEF SessionInv, history
<1>2. RecordsInv' /\ ActivityInv' /\ BatchInv'
  BY <1>1, RecordsStay, ActivityStays, BatchStays, Zenon DEF SessionInv, store, touches
<1>3. QueueInv'
  BY <1>1, QueueStays, Zenon DEF SessionInv, touches
<1>4. AccountInv' /\ LocksInv'
  BY Zenon DEF SessionInv, AccountInv, LocksInv, store, touches, history
<1> QED
  BY <1>1, <1>2, <1>3, <1>4, Zenon DEF SessionInv, Ages

-----------------------------------------------------------------------------
(* One lemma for each action. *)

\* A request begins with what was presented to it.
LEMMA BeginKeeps ==
  ASSUME SessionInv, NEW r \in Requests, NEW op \in AllOperations, NEW t \in Tokens \cup {Nobody},
         NEW c \in Credentials \cup {NoCredential}, NEW at,
         at \in {"session", "delete", "lock", "handoff"}, Begin(r, op, t, c, at),
         op \notin {"signIn", "agent"} => t \in DOMAIN born,
         at \in {"session", "delete"} => op \notin {"signIn", "agent"},
         at = "handoff" => op = "agent",
         at = "lock" => op = "signIn",
         op \in {"stepUp", "addPasskey"} => c \in Credentials
  PROVE  SessionInv'
<1> PICK q : q = [NoReq EXCEPT !.op = op, !.token = t, !.cred = c,
                               !.deadline = clock + RequestTimeout]
  BY Zenon
<1>1. clock \in Nat /\ clock + RequestTimeout \in Nat
  BY SessionConstants DEF SessionInv, HistoryInv
<1>2. q \in Request /\ q.op = op /\ q.token = t /\ q.cred = c
  BY <1>1 DEF NoReq, Request
<1>3. Fits(q, at)
  BY <1>2 DEF Fits, Places
<1>4. /\ DOMAIN pc' = Requests /\ DOMAIN req' = Requests /\ pc'[r] = at /\ req'[r] = q
      /\ \A x \in Requests : x # r => pc'[x] = pc[x] /\ req'[x] = req[x]
  BY Zenon DEF Begin, Goto, RequestInv, SessionInv
<1>5. Ages
  BY <1>1, SameHistory, Zenon DEF SessionInv, history, Begin
<1>6. RequestInv'
  BY <1>3, <1>4, <1>5, FitsStays, RequestMoves, Zenon DEF SessionInv
<1> QED
  BY <1>1, <1>6, StoreStays, Zenon DEF Begin, SessionInv, LocksInv

LEMMA PresentKeeps ==
  ASSUME SessionInv, NEW r \in Requests, Present(r)
  PROVE  SessionInv'
<1> PICK t \in DOMAIN born :
      \/ \E op \in {"token", "revokeAll", "deviceToken"} : Begin(r, op, t, NoCredential, "session")
      \/ \E op \in {"revokePasskey", "stepUp"}, c \in known : Begin(r, op, t, c, "session")
      \/ \E c \in Credentials \ known : Begin(r, "addPasskey", t, c, "session")
      \/ Begin(r, "signOut", t, NoCredential, "delete")
  BY Zenon DEF Present
<1>1. t \in Tokens /\ known \subseteq Credentials
  BY Zenon DEF SessionInv, HistoryInv, AccountInv
<1>2. ASSUME NEW op \in AllOperations \ {"signIn", "agent"}, NEW c \in Credentials \cup {NoCredential},
             NEW at \in {"session", "delete"}, Begin(r, op, t, c, at), op \in {"stepUp", "addPasskey"} => c \in Credentials
      PROVE  SessionInv'
  BY <1>1, <1>2, BeginKeeps, SMTT(30)
<1>3. /\ {"token", "revokeAll", "deviceToken", "revokePasskey", "stepUp", "addPasskey", "signOut"}
           \subseteq AllOperations \ {"signIn", "agent"}
  BY Zenon DEF AllOperations
<1>4. ASSUME NEW op \in {"token", "revokeAll", "deviceToken"}, Begin(r, op, t, NoCredential, "session")
      PROVE  SessionInv'
  BY <1>2, <1>3, <1>4, Zenon
<1>5. ASSUME NEW op \in {"revokePasskey", "stepUp"}, NEW c \in known, Begin(r, op, t, c, "session")
      PROVE  SessionInv'
  BY <1>1, <1>2, <1>3, <1>5, Zenon
<1>6. ASSUME NEW c \in Credentials \ known, Begin(r, "addPasskey", t, c, "session")
      PROVE  SessionInv'
  BY <1>2, <1>3, <1>6, Zenon
<1>7. ASSUME Begin(r, "signOut", t, NoCredential, "delete")
      PROVE  SessionInv'
  BY <1>2, <1>3, <1>7, Zenon
<1> QED
  BY <1>4, <1>5, <1>6, <1>7, Zenon

LEMMA ArriveKeeps ==
  ASSUME SessionInv, NEW r \in Requests, Arrive(r)
  PROVE  SessionInv'
<1>1. known \subseteq Credentials /\ {"signIn", "agent"} \subseteq AllOperations
  BY Zenon DEF SessionInv, AccountInv, AllOperations
<1>2. ASSUME NEW c \in known, Begin(r, "signIn", Nobody, c, "lock")
      PROVE  SessionInv'
  BY <1>1, <1>2, BeginKeeps, SMTT(30)
<1>3. ASSUME Begin(r, "agent", Nobody, NoCredential, "handoff")
      PROVE  SessionInv'
  BY <1>1, <1>3, BeginKeeps, SMTT(30)
<1> QED
  BY <1>2, <1>3, Zenon DEF Arrive

\* The copy that Store::session takes fits: the activity that it adds is no later than
\* the session's last use.
LEMMA ReadFits ==
  ASSUME HistoryInv, NEW t \in DOMAIN born, NEW s, Linked(s, t), ActivityInv
  PROVE  Linked(apply_session_activity(s, t, clock), t)
<1>1. CASE t \in DOMAIN activity /\ activity[t] <= clock
  <2> PICK x : x = [s EXCEPT !.seen = Later(@, activity[t])]
    BY Zenon
  <2>1. /\ s \in Session /\ s.seen \in Nat /\ activity[t] \in Nat /\ used[t] \in Nat
        /\ s.seen <= used[t] /\ activity[t] <= used[t]
    BY <1>1 DEF Linked, Session, ActivityInv, Observed, HistoryInv
  <2>2. Later(s.seen, activity[t]) \in Nat /\ Later(s.seen, activity[t]) <= used[t]
    BY <2>1 DEF Later
  <2>3. /\ x \in Session /\ x.cred = s.cred /\ x.method = s.method /\ x.version = s.version
        /\ x.expires = s.expires /\ x.seen <= used[t]
    BY <2>1, <2>2 DEF Session
  <2>4. Linked(x, t)
    BY <2>3, Zenon DEF Linked
  <2> QED
    BY <1>1, <2>4, Zenon DEF apply_session_activity
<1>2. CASE ~(t \in DOMAIN activity /\ activity[t] <= clock)
  BY <1>2, Zenon DEF apply_session_activity
<1> QED
  BY <1>1, <1>2, Zenon

LEMMA ReadSessionKeeps ==
  ASSUME SessionInv, NEW r \in Requests, ReadSession(r)
  PROVE  SessionInv'
<1> PICK q : q = req[r]
  BY Zenon
<1> PICK t : t = q.token
  BY Zenon
<1>1. Fits(q, "session") /\ clock \in Nat
  BY Zenon DEF SessionInv, RequestInv, HistoryInv, ReadSession
<1>2. q \in Request /\ q.op \notin {"signIn", "agent"} /\ t \in DOMAIN born
  BY <1>1, SMTT(30) DEF Fits
<1>3. Ages
  BY SameHistory, Zenon DEF SessionInv, HistoryInv, history, ReadSession
<1>4. RequestInv'
  <2>1. CASE t \notin DOMAIN sessions
    BY <1>3, <2>1, RequestEnds, Zenon DEF SessionInv, ReadSession
  <2>2. CASE t \in DOMAIN sessions
    <3> PICK s : s = apply_session_activity(sessions[t], t, clock)
      BY Zenon
    <3> PICK at : at = IF session_expired(s, clock) THEN "delete" ELSE "user"
      BY Zenon
    <3> PICK n : n = [q EXCEPT !.sess = s, !.now = clock]
      BY Zenon
    <3>1. Linked(s, t)
      BY <1>2, <2>2, ReadFits, Zenon DEF SessionInv, RecordsInv
    <3>2. /\ n \in Request /\ n.op = q.op /\ n.token = t /\ n.cred = q.cred /\ n.sess = s
          /\ n.now = clock
      BY <1>1, <1>2, <3>1 DEF Request, Linked
    <3>3. /\ at \in {"delete", "user"}
          /\ at = "user" => ~session_expired(s, clock)
      BY Zenon
    <3>4. at \in Places /\ at \notin {"act", "mark", "create", "handoff", "relock", "lock", "session", "idle"}
      BY <3>3 DEF Places
    <3>5. q.op \in {"stepUp", "addPasskey"} => q.cred \in Credentials
      BY <1>1, Zenon DEF Fits
    <3>6. Fits(n, at)
      BY <1>2, <3>1, <3>2, <3>3, <3>4, <3>5, SMTT(30) DEF Fits
    <3>7. /\ DOMAIN pc' = Requests /\ DOMAIN req' = Requests /\ pc'[r] = at /\ req'[r] = n
          /\ \A x \in Requests : x # r => pc'[x] = pc[x] /\ req'[x] = req[x]
      <4>1. req' = [req EXCEPT ![r].sess = s, ![r].now = clock] /\ Goto(r, at)
        BY <2>2, Zenon DEF ReadSession
      <4> QED
        BY <4>1 DEF Goto, RequestInv, SessionInv
    <3> QED
      BY <1>3, <3>6, <3>7, FitsStays, RequestMoves, Zenon DEF SessionInv
  <2> QED
    BY <2>1, <2>2, Zenon
<1> QED
  BY <1>1, <1>4, StoreStays, Zenon DEF ReadSession, SessionInv, LocksInv

\* A use of a session makes its last use later and nothing else.
LEMMA UseAges ==
  ASSUME HistoryInv, NEW t \in DOMAIN born, NEW now \in Nat, UNCHANGED <<born, clock>>,
         used' = [used EXCEPT ![t] = Later(@, now)]
  PROVE  Ages /\ now <= used'[t]
<1>1. /\ DOMAIN used' = DOMAIN used /\ used'[t] = Later(used[t], now)
      /\ \A x \in DOMAIN used : x # t => used'[x] = used[x]
  BY Zenon DEF HistoryInv
<1>2. \A x \in DOMAIN born : used[x] \in Nat /\ used[x] <= used[x]
  BY DEF HistoryInv
<1>3. Later(used[t], now) \in Nat /\ used[t] <= Later(used[t], now) /\ now <= Later(used[t], now)
  BY <1>2 DEF Later
<1>4. \A x \in DOMAIN born : used'[x] \in Nat /\ used[x] <= used'[x]
  BY <1>1, <1>2, <1>3, Zenon DEF HistoryInv
<1>5. HistoryInv'
  BY <1>1, <1>4, Zenon DEF HistoryInv
<1> QED
  BY <1>1, <1>3, <1>4, <1>5, Zenon DEF Ages

LEMMA CheckSessionKeeps ==
  ASSUME SessionInv, NEW r \in Requests, CheckSession(r)
  PROVE  SessionInv'
<1> PICK q : q = req[r]
  BY Zenon
<1> PICK t, now : t = q.token /\ now = q.now
  BY Zenon
<1>1. Fits(q, "user") /\ q \in Request
  BY Zenon DEF SessionInv, RequestInv, CheckSession, Fits
<1>2. q.op \notin {"signIn", "agent"} /\ t \in DOMAIN born /\ t \in Tokens /\ now \in Nat
  BY <1>1, SMTT(30) DEF Fits, SessionInv, HistoryInv, Request
<1>3. Linked(q.sess, t) /\ ~session_expired(q.sess, now) /\ q.sess \in Session
  BY <1>1, Zenon DEF Fits, Linked
<1>4. q.op \in {"stepUp", "addPasskey"} => q.cred \in Credentials
  BY <1>1, Zenon DEF Fits
<1>5. UNCHANGED <<user, sessions, activity, batch, writing, mutation, clock, born, known>>
  BY Zenon DEF CheckSession, store
<1>6. CASE Valid(q.sess)
  <2>1. /\ Enqueue(r) /\ used' = [used EXCEPT ![t] = Later(@, now)]
        /\ req' = [req EXCEPT ![r].version = user.version] /\ Goto(r, "act")
    BY <1>6, Zenon DEF CheckSession
  <2>2. Ages /\ now <= used'[t]
    BY <1>2, <1>5, <2>1, UseAges, Zenon DEF SessionInv
  <2>3. RequestInv'
    <3> PICK n : n = [q EXCEPT !.version = user.version]
      BY Zenon
    <3>1. user.version \in Nat
      BY DEF SessionInv, AccountInv
    <3>2. /\ n \in Request /\ n.op = q.op /\ n.token = t /\ n.cred = q.cred /\ n.sess = q.sess
      BY <1>1, <3>1 DEF Request
    <3>3. Fits(n, "act")
      BY <1>2, <1>3, <1>4, <3>2, SMTT(30) DEF Fits, Places
    <3>4. /\ DOMAIN pc' = Requests /\ DOMAIN req' = Requests /\ pc'[r] = "act" /\ req'[r] = n
          /\ \A x \in Requests : x # r => pc'[x] = pc[x] /\ req'[x] = req[x]
      BY <2>1 DEF Goto, RequestInv, SessionInv
    <3> QED
      BY <2>2, <3>3, <3>4, FitsStays, RequestMoves, Zenon DEF SessionInv
  <2>4. QueueInv'
    <3> PICK h : h = [token |-> t, at |-> now, ttl |-> q.sess.expires - now]
      BY Zenon
    <3>1. q.sess.expires \in Nat /\ q.sess.expires > now /\ q.sess.seen \in Nat
      BY <1>2, <1>3, SessionConstants DEF session_expired, Session
    <3>2. h \in Touch /\ h.token = t /\ h.at = now
      BY <1>2, <3>1 DEF Touch
    <3>3. Observed(t, now)'
      BY <1>2, <1>5, <2>2, Zenon DEF Observed
    <3>4. queue' = queue \/ queue' = Append(queue, h)
      BY <2>1, Zenon DEF Enqueue
    <3>5. CASE queue' = queue
      BY <2>2, <3>5, QueueStays, Zenon DEF SessionInv
    <3>6. CASE queue' = Append(queue, h)
      <4>1. /\ queue \in Seq(Touch)
            /\ \A i \in DOMAIN queue : Observed(queue[i].token, queue[i].at)
        BY Zenon DEF SessionInv, QueueInv
      <4>2. /\ queue' \in Seq(Touch)
            /\ \A i \in DOMAIN queue' : (i \in DOMAIN queue /\ queue'[i] = queue[i]) \/ queue'[i] = h
        BY <3>2, <3>6, <4>1
      <4>3. ASSUME NEW i \in DOMAIN queue'
            PROVE  Observed(queue[i].token, queue[i].at)'
        <5> PICK y : y = queue'[i]
          BY Zenon
        <5>1. CASE y = h
          BY <3>2, <3>3, <5>1, Zenon DEF Observed
        <5>2. CASE i \in DOMAIN queue /\ y = queue[i]
          <6> PICK a, b : a = y.token /\ b = y.at
            BY Zenon
          <6>1. Observed(a, b)
            BY <4>1, <5>2, Zenon
          <6>2. Observed(a, b)'
            BY <2>2, <6>1, ObservedStays, Zenon DEF SessionInv
          <6> QED
            BY <6>2, Zenon DEF Observed
        <5> QED
          BY <4>2, <5>1, <5>2, Zenon
      <4> QED
        BY <4>2, <4>3, Zenon DEF QueueInv, Observed
    <3> QED
      BY <3>4, <3>5, <3>6, Zenon
  <2>5. RecordsInv' /\ ActivityInv' /\ BatchInv'
    BY <1>5, <2>2, RecordsStay, ActivityStays, BatchStays, Zenon DEF SessionInv
  <2> QED
    BY <1>5, <2>2, <2>3, <2>4, <2>5, Zenon DEF SessionInv, AccountInv, LocksInv, Ages
<1>7. CASE ~Valid(q.sess)
  <2>1. Goto(r, "delete") /\ UNCHANGED <<queue, used, req>>
    BY <1>7, Zenon DEF CheckSession
  <2>2. Fits(q, "delete")
    BY <1>1, <1>2, <1>4, SMTT(30) DEF Fits, Places
  <2>3. clock \in Nat /\ Ages
    BY <1>5, <2>1, SameHistory, Zenon DEF SessionInv, HistoryInv
  <2>4. RequestInv'
    BY <2>1, <2>2, <2>3, RequestGoesOn, Zenon DEF SessionInv
  <2> QED
    BY <1>5, <2>1, <2>3, <2>4, StoreStays, Zenon DEF store, touches, history, SessionInv, LocksInv
<1> QED
  BY <1>6, <1>7, Zenon

\* delete_session_records, and a record whose time is over.
LEMMA RecordGoes ==
  ASSUME SessionInv, Ages, NEW t, sessions' = Without(sessions, t),
         activity' = activity \/ activity' = Without(activity, t)
  PROVE  RecordsInv' /\ ActivityInv'
<1>1. \A x \in DOMAIN sessions' : x \in DOMAIN sessions /\ sessions'[x] = sessions[x]
  BY Zenon DEF Without
<1>2. \A x \in DOMAIN activity' : x \in DOMAIN activity /\ activity'[x] = activity[x]
  BY Zenon DEF Without
<1> QED
  BY <1>1, <1>2, RecordsStay, ActivityStays, Zenon DEF SessionInv

LEMMA DeleteSessionKeeps ==
  ASSUME SessionInv, NEW r \in Requests, DeleteSession(r)
  PROVE  SessionInv'
<1> PICK t : t = req[r].token
  BY Zenon
<1>1. UNCHANGED <<user, queue, batch, writing, mutation, clock, born, used, known>> /\ End(r)
  BY Zenon DEF DeleteSession, touches
<1>2. Ages
  BY <1>1, SameHistory, Zenon DEF SessionInv, HistoryInv
<1>3. RecordsInv' /\ ActivityInv'
  <2>1. sessions' = Without(sessions, t) /\ activity' = Without(activity, t)
    BY Zenon DEF DeleteSession
  <2> QED
    BY <1>2, <2>1, RecordGoes, Zenon
<1>4. BatchInv' /\ QueueInv' /\ RequestInv'
  BY <1>1, <1>2, BatchStays, QueueStays, RequestEnds, Zenon DEF SessionInv
<1> QED
  BY <1>1, <1>2, <1>3, <1>4, Zenon DEF SessionInv, AccountInv, LocksInv, Ages

LEMMA ActKeeps ==
  ASSUME SessionInv, NEW r \in Requests, Act(r)
  PROVE  SessionInv'
<1> PICK q : q = req[r]
  BY Zenon
<1>1. Fits(q, "act") /\ q \in Request /\ clock \in Nat
  BY Zenon DEF SessionInv, RequestInv, HistoryInv, Act, Fits
<1>2. /\ UNCHANGED <<store, touches, mutation, clock, history>>
      /\ \/ End(r)
         \/ q.op = "deviceToken" /\ Goto(r, "create") /\ UNCHANGED req
         \/ q.op # "deviceToken" /\ Permitted(r) /\ q.op # "token" /\ Goto(r, "lock") /\ UNCHANGED req
  BY Zenon DEF Act
<1>3. Ages
  BY <1>1, <1>2, SameHistory, Zenon DEF SessionInv, history
<1>4. RequestInv'
  <2>1. CASE End(r)
    BY <1>3, <2>1, RequestEnds, Zenon DEF SessionInv
  <2>2. CASE q.op = "deviceToken" /\ Goto(r, "create") /\ UNCHANGED req
    <3>1. Fits(q, "create")
      BY <1>1, <2>2, SMTT(30) DEF Fits, Places
    <3> QED
      BY <1>3, <2>2, <3>1, RequestGoesOn, Zenon DEF SessionInv
  <2>3. CASE q.op # "deviceToken" /\ Permitted(r) /\ q.op # "token" /\ Goto(r, "lock") /\ UNCHANGED req
    <3>1. q.sess.method = "passkey"
      BY <2>3, Zenon DEF Permitted
    <3>2. Linked(q.sess, q.token)
      BY <1>1, Zenon DEF Fits
    <3>3. born[q.token].proven # {}
      BY <3>1, <3>2, Zenon DEF Linked
    <3>4. Fits(q, "lock")
      BY <1>1, <3>3, SMTT(30) DEF Fits, Places
    <3> QED
      BY <1>3, <2>3, <3>4, RequestGoesOn, Zenon DEF SessionInv
  <2> QED
    BY <1>2, <2>1, <2>2, <2>3, Zenon
<1> QED
  BY <1>1, <1>2, <1>4, StoreStays, Zenon DEF SessionInv, LocksInv

\* A record under a new token, which fits what it is created from.
LEMMA PutKeeps ==
  ASSUME SessionInv, NEW t \in Fresh, NEW s, NEW b \in Birth, PutSession(t, s, b), clock' = clock,
         s \in Session, s.version = b.version, s.expires = b.expires, s.seen = clock,
         s.cred = NoCredential <=> b.proven = {},
         s.cred # NoCredential => s.cred \in b.proven,
         s.method = "passkey" => s.cred # NoCredential
  PROVE  Ages /\ RecordsInv'
<1>1. t \in Tokens /\ t \notin DOMAIN born /\ clock \in Nat
  BY Zenon DEF Fresh, SessionInv, HistoryInv
<1>2. /\ DOMAIN born' = DOMAIN born \cup {t} /\ born'[t] = b
      /\ \A x \in DOMAIN born : born'[x] = born[x]
  BY <1>1, Zenon DEF PutSession, With
<1>3. /\ DOMAIN used' = DOMAIN born \cup {t} /\ used'[t] = clock
      /\ \A x \in DOMAIN born : used'[x] = used[x]
  BY <1>1, Zenon DEF PutSession, With, SessionInv, HistoryInv
<1>4. /\ DOMAIN sessions' = DOMAIN sessions \cup {t} /\ sessions'[t] = s
      /\ \A x \in DOMAIN sessions : x # t => sessions'[x] = sessions[x]
  BY Zenon DEF PutSession, With
<1>5. HistoryInv'
  BY <1>1, <1>2, <1>3, Zenon DEF SessionInv, HistoryInv
<1>6. \A x \in DOMAIN born : used[x] <= used[x]
  BY DEF SessionInv, HistoryInv
<1>7. Ages
  BY <1>2, <1>3, <1>5, <1>6, Zenon DEF Ages
<1>8. ASSUME NEW x \in DOMAIN sessions'
      PROVE  x \in DOMAIN born' /\ Linked(sessions[x], x)'
  <2> PICK y : y = sessions'[x]
    BY Zenon
  <2>1. CASE x = t
    <3>1. clock <= clock
      BY <1>1
    <3>2. Linked(s, t)'
      BY <1>2, <1>3, <3>1, Zenon DEF Linked
    <3> QED
      BY <1>2, <1>4, <2>1, <3>2, Zenon DEF Linked
  <2>2. CASE x # t
    <3>1. x \in DOMAIN born /\ Linked(y, x)
      BY <1>4, <2>2, Zenon DEF SessionInv, RecordsInv
    <3>2. Linked(y, x)'
      BY <1>7, <3>1, LinkedStays, Zenon DEF SessionInv
    <3> QED
      BY <1>2, <3>1, <3>2, Zenon DEF Linked
  <2> QED
    BY <2>1, <2>2, Zenon
<1> QED
  BY <1>7, <1>8, Zenon DEF RecordsInv, Linked

LEMMA SignInKeeps ==
  ASSUME SessionInv, NEW r \in Requests, SignIn(r)
  PROVE  SessionInv'
<1> PICK c : c = req[r].cred
  BY Zenon
<1>1. /\ UNCHANGED <<user, activity, queue, batch, writing, mutation, clock, known>> /\ End(r)
  BY Zenon DEF SignIn, touches
<1>2. Ages /\ RecordsInv'
  <2>1. CASE UNCHANGED <<sessions, born, used>>
    <3>1. Ages
      BY <1>1, <2>1, SameHistory, Zenon DEF SessionInv, HistoryInv
    <3> QED
      BY <2>1, <3>1, RecordsStay, Zenon DEF SessionInv
  <2>2. CASE ~UNCHANGED <<sessions, born, used>>
    <3> PICK s : s = prepare_session(c, "passkey", user.version, AbsoluteSeconds)
      BY Zenon
    <3> PICK b : b = [proven |-> {c}, version |-> user.version, expires |-> clock + AbsoluteSeconds]
      BY Zenon
    <3>1. PICK t \in Fresh : PutSession(t, s, b)
      BY <2>2, Zenon DEF SignIn
    <3>2. /\ c \in Credentials /\ c # NoCredential /\ user.version \in Nat /\ clock \in Nat
          /\ clock + AbsoluteSeconds \in Nat
      <4>1. c \in user.passkeys
        BY <2>2, Zenon DEF SignIn
      <4> QED
        BY <4>1, SessionConstants DEF SessionInv, AccountInv, HistoryInv
    <3>3. b \in Birth /\ b.proven = {c} /\ b.version = user.version /\ b.expires = clock + AbsoluteSeconds
      BY <3>2 DEF Birth
    <3>4. /\ s \in Session /\ s.cred = c /\ s.version = user.version /\ s.seen = clock
          /\ s.expires = clock + AbsoluteSeconds
      BY <3>2 DEF prepare_session, Session
    <3> QED
      BY <1>1, <3>1, <3>2, <3>3, <3>4, PutKeeps, Zenon
  <2> QED
    BY <2>1, <2>2, Zenon
<1>3. ActivityInv' /\ BatchInv' /\ QueueInv' /\ RequestInv'
  BY <1>1, <1>2, ActivityStays, BatchStays, QueueStays, RequestEnds, Zenon DEF SessionInv
<1> QED
  BY <1>1, <1>2, <1>3, Zenon DEF SessionInv, AccountInv, LocksInv, Ages

\* The account is changed, and what it has stays an account.
LEMMA AccountChanges ==
  ASSUME SessionInv, NEW r \in Requests, End(r), AccountInv',
         UNCHANGED <<sessions, activity, queue, batch, writing, mutation, clock, born, used>>
  PROVE  SessionInv'
<1>1. Ages
  BY SameHistory, Zenon DEF SessionInv, HistoryInv
<1>2. RecordsInv' /\ ActivityInv' /\ BatchInv' /\ QueueInv' /\ RequestInv'
  BY <1>1, RecordsStay, ActivityStays, BatchStays, QueueStays, RequestEnds, Zenon DEF SessionInv
<1> QED
  BY <1>1, <1>2, Zenon DEF SessionInv, LocksInv, Ages

LEMMA RevokeAllKeeps ==
  ASSUME SessionInv, NEW r \in Requests, RevokeAll(r)
  PROVE  SessionInv'
<1>1. AccountInv'
  BY DEF RevokeAll, SessionInv, AccountInv, history
<1> QED
  BY <1>1, AccountChanges, Zenon DEF RevokeAll, touches, history

LEMMA AddPasskeyKeeps ==
  ASSUME SessionInv, NEW r \in Requests, AddPasskey(r)
  PROVE  SessionInv'
<1> PICK c : c = req[r].cred
  BY Zenon
<1>1. c \in Credentials
  <2>1. Fits(req[r], "lock") /\ req[r].op = "addPasskey"
    BY Zenon DEF AddPasskey, Locked, SessionInv, RequestInv
  <2> QED
    BY <2>1, Zenon DEF Fits
<1>2. AccountInv'
  BY <1>1 DEF AddPasskey, SessionInv, AccountInv
<1> QED
  BY <1>2, AccountChanges, Zenon DEF AddPasskey, touches

\* revoke_passkey leaves one: with more than one, another remains.
LEMMA RevokePasskeyKeeps ==
  ASSUME SessionInv, NEW r \in Requests, RevokePasskey(r)
  PROVE  SessionInv'
<1> PICK c : c = req[r].cred
  BY Zenon
<1>1. CASE user' = user
  <2>1. AccountInv'
    BY <1>1, Zenon DEF RevokePasskey, SessionInv, AccountInv, history
  <2> QED
    BY <2>1, AccountChanges, Zenon DEF RevokePasskey, touches, history
<1>2. CASE user' # user
  <2>1. /\ user' = [user EXCEPT !.passkeys = @ \ {c}]
        /\ Cardinality(user.passkeys) > 1 /\ c \in user.passkeys
    BY <1>2, Zenon DEF RevokePasskey
  <2>2. user.passkeys \ {c} # {}
    <3> SUFFICES ASSUME user.passkeys \ {c} = {} PROVE FALSE
      BY Zenon
    <3>1. user.passkeys = {c}
      BY <2>1, Zenon
    <3>2. Cardinality({c}) = 1
      BY FS_Singleton, Zenon
    <3> QED
      BY <2>1, <3>1, <3>2
  <2>3. AccountInv'
    BY <2>1, <2>2 DEF RevokePasskey, SessionInv, AccountInv, history
  <2> QED
    BY <2>3, AccountChanges, Zenon DEF RevokePasskey, touches, history
<1> QED
  BY <1>1, <1>2, Zenon

LEMMA HandoffKeeps ==
  ASSUME SessionInv, NEW r \in Requests, Handoff(r)
  PROVE  SessionInv'
<1> PICK q : q = req[r]
  BY Zenon
<1> PICK n : n = [q EXCEPT !.version = user.version]
  BY Zenon
<1>1. Fits(q, "handoff") /\ q \in Request /\ q.op = "agent" /\ clock \in Nat /\ user.version \in Nat
  <2>1. Fits(q, "handoff") /\ clock \in Nat
    BY Zenon DEF SessionInv, RequestInv, HistoryInv, Handoff
  <2>2. user.version \in Nat
    BY DEF SessionInv, AccountInv
  <2> QED
    BY <2>1, <2>2, Zenon DEF Fits
<1>2. n \in Request /\ n.op = "agent"
  BY <1>1 DEF Request
<1>3. Fits(n, "create")
  BY <1>2, SMTT(30) DEF Fits, Places
<1>4. Ages
  BY <1>1, SameHistory, Zenon DEF SessionInv, history, Handoff
<1>5. /\ DOMAIN pc' = Requests /\ DOMAIN req' = Requests /\ pc'[r] = "create" /\ req'[r] = n
      /\ \A x \in Requests : x # r => pc'[x] = pc[x] /\ req'[x] = req[x]
  BY DEF Handoff, Goto, RequestInv, SessionInv
<1>6. RequestInv'
  BY <1>3, <1>4, <1>5, FitsStays, RequestMoves, Zenon DEF SessionInv
<1> QED
  BY <1>1, <1>6, StoreStays, Zenon DEF Handoff, SessionInv, LocksInv

\* A session is minted with the version that its request saw; a device's carries the passkey
\* of the session it is minted from.
LEMMA CreateSessionKeeps ==
  ASSUME SessionInv, NEW r \in Requests, CreateSession(r)
  PROVE  SessionInv'
<1> PICK q : q = req[r]
  BY Zenon
<1>1. Fits(q, "create") /\ q \in Request /\ q.version \in Nat /\ clock \in Nat
  <2>1. Fits(q, "create") /\ clock \in Nat
    BY Zenon DEF SessionInv, RequestInv, HistoryInv, CreateSession, MintSession
  <2> QED
    BY <2>1 DEF Fits, Request
<1>2. /\ UNCHANGED <<user, activity, queue, batch, writing, mutation, clock, req, known>>
      /\ Goto(r, "append")
  BY Zenon DEF CreateSession, MintSession, touches
<1>3. Ages /\ RecordsInv'
  <2>1. CASE q.op = "deviceToken"
    <3> PICK s : s = prepare_session(q.sess.cred, "device", q.version, DeviceSeconds)
      BY Zenon
    <3> PICK b : b = [proven |-> born[q.token].proven, version |-> q.version, expires |-> clock + DeviceSeconds]
      BY Zenon
    <3>1. PICK t \in Fresh : PutSession(t, s, b)
      BY <2>1, Zenon DEF CreateSession, MintSession
    <3>2. Linked(q.sess, q.token) /\ q.token \in DOMAIN born
      BY <1>1, <2>1, SMTT(30) DEF Fits
    <3>3. born[q.token].proven \in SUBSET Credentials /\ q.sess.cred \in Credentials \cup {NoCredential}
      BY <3>2 DEF Linked, Session, SessionInv, HistoryInv, Birth
    <3>4. clock + DeviceSeconds \in Nat
      BY <1>1, SessionConstants
    <3>5. /\ b \in Birth /\ b.proven = born[q.token].proven /\ b.version = q.version
          /\ b.expires = clock + DeviceSeconds
      BY <1>1, <3>3, <3>4 DEF Birth
    <3>6. /\ s \in Session /\ s.cred = q.sess.cred /\ s.version = q.version /\ s.seen = clock
          /\ s.expires = clock + DeviceSeconds /\ s.method # "passkey"
      BY <1>1, <3>3, <3>4 DEF prepare_session, Session
    <3>7. /\ q.sess.cred = NoCredential <=> born[q.token].proven = {}
          /\ q.sess.cred # NoCredential => q.sess.cred \in born[q.token].proven
      BY <3>2, Zenon DEF Linked
    <3> QED
      BY <1>2, <3>1, <3>5, <3>6, <3>7, PutKeeps, Zenon
  <2>2. CASE q.op # "deviceToken"
    <3> PICK s : s = prepare_session(NoCredential, "agent", q.version, AgentSeconds)
      BY Zenon
    <3> PICK b : b = [proven |-> {}, version |-> q.version, expires |-> clock + AgentSeconds]
      BY Zenon
    <3>1. PICK t \in Fresh : PutSession(t, s, b)
      BY <2>2, Zenon DEF CreateSession, MintSession
    <3>2. clock + AgentSeconds \in Nat
      BY <1>1, SessionConstants
    <3>3. b \in Birth /\ b.proven = {} /\ b.version = q.version /\ b.expires = clock + AgentSeconds
      BY <1>1, <3>2 DEF Birth
    <3>4. /\ s \in Session /\ s.cred = NoCredential /\ s.version = q.version /\ s.seen = clock
          /\ s.expires = clock + AgentSeconds /\ s.method # "passkey"
      BY <1>1, <3>2 DEF prepare_session, Session
    <3> QED
      BY <1>2, <3>1, <3>3, <3>4, PutKeeps, Zenon
  <2> QED
    BY <2>1, <2>2, Zenon
<1>4. ActivityInv' /\ BatchInv' /\ QueueInv'
  BY <1>2, <1>3, ActivityStays, BatchStays, QueueStays, Zenon DEF SessionInv
<1>5. Fits(q, "append")
  BY <1>1, SMTT(30) DEF Fits, Places
<1>6. RequestInv'
  BY <1>2, <1>3, <1>5, RequestGoesOn, Zenon DEF SessionInv
<1> QED
  BY <1>2, <1>3, <1>4, <1>6, Zenon DEF SessionInv, AccountInv, LocksInv, Ages

LEMMA AppendEventKeeps ==
  ASSUME SessionInv, NEW r \in Requests, AppendEvent(r)
  PROVE  SessionInv'
<1>1. Ages /\ clock \in Nat
  BY SameHistory, Zenon DEF SessionInv, HistoryInv, history, AppendEvent
<1>2. RequestInv'
  BY <1>1, RequestEnds, Zenon DEF SessionInv, AppendEvent
<1> QED
  BY <1>1, <1>2, StoreStays, Zenon DEF AppendEvent, SessionInv, LocksInv

LEMMA ApplyAuthenticationKeeps ==
  ASSUME SessionInv, NEW r \in Requests, ApplyAuthentication(r)
  PROVE  SessionInv'
<1> PICK q : q = req[r]
  BY Zenon
<1>1. Ages /\ clock \in Nat
  BY SameHistory, Zenon DEF SessionInv, HistoryInv, history, ApplyAuthentication
<1>2. Fits(q, "lock") /\ q.op = "stepUp"
  BY Zenon DEF ApplyAuthentication, Locked, SessionInv, RequestInv
<1>3. Fits(q, "relock")
  BY <1>2, SMTT(30) DEF Fits, Places
<1>4. CASE End(r)
  BY <1>1, <1>4, RequestEnds, StoreStays, Zenon DEF SessionInv, LocksInv, ApplyAuthentication
<1>5. CASE Goto(r, "relock") /\ UNCHANGED req
  BY <1>1, <1>3, <1>5, RequestGoesOn, StoreStays, Zenon DEF SessionInv, LocksInv, ApplyAuthentication
<1> QED
  BY <1>4, <1>5, Zenon DEF ApplyAuthentication

LEMMA MarkReadKeeps ==
  ASSUME SessionInv, NEW r \in Requests, MarkRead(r)
  PROVE  SessionInv'
<1> PICK q : q = req[r]
  BY Zenon
<1> PICK t : t = q.token
  BY Zenon
<1>1. UNCHANGED <<user, activity, queue, batch, writing, clock, born, used, known>>
  BY Zenon DEF MarkRead, touches, history
<1>2. Ages /\ clock \in Nat
  BY <1>1, SameHistory, Zenon DEF SessionInv, HistoryInv
<1>3. BatchInv' /\ QueueInv' /\ AccountInv'
  BY <1>1, <1>2, BatchStays, QueueStays, Zenon DEF SessionInv, AccountInv
<1>4. CASE End(r) /\ UNCHANGED <<sessions, mutation>>
  <2>1. RequestInv'
    BY <1>2, <1>4, RequestEnds, Zenon DEF SessionInv
  <2> QED
    BY <1>1, <1>2, <1>4, <2>1, StoreStays, Zenon DEF store, touches, history, SessionInv, LocksInv
<1>5. CASE sessions' = Without(sessions, t) /\ End(r) /\ UNCHANGED mutation
  <2>1. RequestInv'
    BY <1>2, <1>5, RequestEnds, Zenon DEF SessionInv
  <2>2. RecordsInv' /\ ActivityInv'
    BY <1>1, <1>2, <1>5, RecordGoes, Zenon
  <2> QED
    BY <1>1, <1>2, <1>3, <1>5, <2>1, <2>2, Zenon DEF SessionInv, LocksInv, Ages
<1>6. CASE /\ t \in DOMAIN sessions /\ mutation' = r /\ Goto(r, "mark") /\ UNCHANGED sessions
           /\ req' = [req EXCEPT ![r].sess = sessions[t], ![r].now = clock]
  <2> PICK s : s = sessions[t]
    BY Zenon
  <2> PICK n : n = [q EXCEPT !.sess = s, !.now = clock]
    BY Zenon
  <2>1. Fits(q, "relock") /\ q \in Request
    BY Zenon DEF MarkRead, SessionInv, RequestInv, Fits
  <2>2. Linked(s, t) /\ s \in Session /\ t \in DOMAIN born
    BY <1>6, Zenon DEF SessionInv, RecordsInv, Linked
  <2>3. n \in Request /\ n.op = q.op /\ n.token = t /\ n.cred = q.cred /\ n.sess = s
    BY <1>2, <2>1, <2>2 DEF Request
  <2>4. q.op = "stepUp" /\ q.cred \in Credentials /\ born[t].proven # {}
    BY <2>1, Zenon DEF Fits
  <2>5. Fits(n, "mark")
    BY <2>2, <2>3, <2>4, SMTT(30) DEF Fits, Places
  <2>6. /\ DOMAIN pc' = Requests /\ DOMAIN req' = Requests /\ pc'[r] = "mark" /\ req'[r] = n
        /\ \A x \in Requests : x # r => pc'[x] = pc[x] /\ req'[x] = req[x]
    BY <1>6 DEF Goto, RequestInv, SessionInv
  <2>7. RequestInv'
    BY <1>2, <2>5, <2>6, FitsStays, RequestMoves, Zenon DEF SessionInv
  <2>8. mutation' \in Requests \cup {Nobody}
    BY <1>6, Zenon
  <2> QED
    BY <1>1, <1>2, <1>6, <2>7, <2>8, StoreStays, Zenon DEF store, touches, history
<1> QED
  BY <1>4, <1>5, <1>6, Zenon DEF MarkRead

\* A step-up proves the session with one more passkey and counts as a use of it.
LEMMA MarkWriteKeeps ==
  ASSUME SessionInv, NEW r \in Requests, MarkWrite(r)
  PROVE  SessionInv'
<1> PICK q : q = req[r]
  BY Zenon
<1> PICK t, now, c : t = q.token /\ now = q.now /\ c = q.cred
  BY Zenon
<1>1. /\ UNCHANGED <<user, queue, batch, writing, mutation, clock, req, known>>
      /\ Goto(r, "append")
  BY Zenon DEF MarkWrite, touches
<1>2. Fits(q, "mark") /\ q \in Request /\ q.op = "stepUp"
  <2>1. Fits(q, "mark")
    BY Zenon DEF MarkWrite, SessionInv, RequestInv
  <2> QED
    BY <2>1, Zenon DEF Fits
<1>3. /\ Linked(q.sess, t) /\ t \in DOMAIN born /\ c \in Credentials /\ c # NoCredential
      /\ born[t].proven # {} /\ now \in Nat /\ clock \in Nat
  <2>1. Linked(q.sess, t) /\ c \in Credentials /\ born[t].proven # {}
    BY <1>2, Zenon DEF Fits
  <2>2. t \in DOMAIN born
    BY <1>2, SMTT(30) DEF Fits
  <2>3. now \in Nat
    BY <1>2 DEF Request
  <2>4. clock \in Nat /\ c # NoCredential
    BY <2>1, SessionConstants, Zenon DEF SessionInv, HistoryInv
  <2> QED
    BY <2>1, <2>2, <2>3, <2>4, Zenon
<1> PICK s : s = [q.sess EXCEPT !.method = "passkey", !.cred = c, !.stepUp = now, !.seen = now]
  BY Zenon
<1> PICK b : b = [born[t] EXCEPT !.proven = @ \cup {c}]
  BY Zenon
<1>4. /\ s \in Session /\ s.cred = c /\ s.version = born[t].version /\ s.expires = born[t].expires
      /\ s.seen = now
  BY <1>3 DEF Linked, Session
<1>5. /\ b \in Birth /\ b.proven = born[t].proven \cup {c} /\ b.version = born[t].version
      /\ b.expires = born[t].expires
  BY <1>3 DEF SessionInv, HistoryInv, Birth
<1>6. /\ DOMAIN born' = DOMAIN born /\ born'[t] = b
      /\ \A x \in DOMAIN born : x # t => born'[x] = born[x]
  BY <1>3 DEF MarkWrite
<1>7. /\ DOMAIN used' = DOMAIN born /\ used'[t] = Later(used[t], now)
      /\ \A x \in DOMAIN born : x # t => used'[x] = used[x]
  BY <1>3, Zenon DEF MarkWrite, SessionInv, HistoryInv
<1>8. \A x \in DOMAIN born : used[x] \in Nat /\ used[x] <= used[x]
  BY DEF SessionInv, HistoryInv
<1>9. Later(used[t], now) \in Nat /\ used[t] <= Later(used[t], now) /\ now <= Later(used[t], now)
  BY <1>3, <1>8 DEF Later
<1>10. \A x \in DOMAIN born : used'[x] \in Nat /\ used[x] <= used'[x]
  BY <1>7, <1>8, <1>9, Zenon
<1>11. HistoryInv'
  BY <1>1, <1>5, <1>6, <1>7, <1>10, Zenon DEF SessionInv, HistoryInv
<1>12. Ages
  BY <1>3, <1>5, <1>6, <1>10, <1>11, Zenon DEF Ages
<1>13. /\ DOMAIN sessions' = DOMAIN sessions \cup {t} /\ sessions'[t] = s
       /\ \A x \in DOMAIN sessions : x # t => sessions'[x] = sessions[x]
  BY Zenon DEF MarkWrite, With
<1>14. RecordsInv'
  <2>1. ASSUME NEW x \in DOMAIN sessions'
        PROVE  x \in DOMAIN born' /\ Linked(sessions[x], x)'
    <3> PICK y : y = sessions'[x]
      BY Zenon
    <3>1. CASE x = t
      <4>1. Linked(s, t)'
        BY <1>3, <1>4, <1>5, <1>6, <1>7, <1>9, Zenon DEF Linked
      <4> QED
        BY <1>3, <1>6, <1>13, <3>1, <4>1, Zenon DEF Linked
    <3>2. CASE x # t
      <4>1. x \in DOMAIN born /\ Linked(y, x)
        BY <1>13, <3>2, Zenon DEF SessionInv, RecordsInv
      <4>2. Linked(y, x)'
        BY <1>12, <4>1, LinkedStays, Zenon DEF SessionInv
      <4> QED
        BY <1>6, <4>1, <4>2, Zenon DEF Linked
    <3> QED
      BY <3>1, <3>2, Zenon
  <2> QED
    BY <2>1, Zenon DEF RecordsInv, Linked
<1>15. ActivityInv'
  <2>1. \A x \in DOMAIN activity' : x \in DOMAIN activity /\ activity'[x] = activity[x]
    BY Zenon DEF MarkWrite, Without
  <2> QED
    BY <1>12, <2>1, ActivityStays, Zenon DEF SessionInv
<1>16. BatchInv' /\ QueueInv'
  BY <1>1, <1>12, BatchStays, QueueStays, Zenon DEF SessionInv
<1>17. Fits(q, "append")
  BY <1>2, SMTT(30) DEF Fits, Places
<1>18. RequestInv'
  BY <1>1, <1>12, <1>17, RequestGoesOn, Zenon DEF SessionInv
<1> QED
  BY <1>1, <1>11, <1>14, <1>15, <1>16, <1>18, Zenon DEF SessionInv, AccountInv, LocksInv

\* The touch writer.
LEMMA CollectTouchKeeps ==
  ASSUME SessionInv, CollectTouch
  PROVE  SessionInv'
<1>1. UNCHANGED <<user, sessions, activity, writing, mutation, clock, pc, req, born, used, known>>
  BY Zenon DEF CollectTouch, store, history
<1>2. Ages
  BY <1>1, SameHistory, Zenon DEF SessionInv, HistoryInv
<1> PICK h : h = Head(queue)
  BY Zenon
<1>3. /\ queue \in Seq(Touch) /\ queue # <<>>
      /\ \A i \in DOMAIN queue : Observed(queue[i].token, queue[i].at)
  BY Zenon DEF SessionInv, QueueInv, CollectTouch
<1>4. Observed(h.token, h.at)
  <2>1. 1 \in DOMAIN queue /\ h = queue[1]
    BY <1>3
  <2> QED
    BY <1>3, <2>1, Zenon
<1>5. BatchInv'
  <2>1. batch' = batch \/ batch' = With(batch, h.token, h.at)
    BY Zenon DEF CollectTouch
  <2>2. \A t \in DOMAIN batch' : Observed(t, batch'[t])
    <3>1. \A t \in DOMAIN batch : Observed(t, batch[t])
      BY Zenon DEF SessionInv, BatchInv
    <3>2. CASE batch' = batch
      BY <3>1, <3>2, Zenon
    <3>3. CASE batch' = With(batch, h.token, h.at)
      <4>1. /\ DOMAIN batch' = DOMAIN batch \cup {h.token} /\ batch'[h.token] = h.at
            /\ \A t \in DOMAIN batch : t # h.token => batch'[t] = batch[t]
        BY <3>3, Zenon DEF With
      <4> QED
        BY <1>4, <3>1, <4>1, Zenon
    <3> QED
      BY <2>1, <3>2, <3>3, Zenon
  <2> QED
    BY <1>1, <2>2, Zenon DEF BatchInv, Observed
<1>6. QueueInv'
  <2>1. queue' = Tail(queue)
    BY Zenon DEF CollectTouch
  <2>2. /\ queue' \in Seq(Touch)
        /\ \A i \in DOMAIN queue' : i + 1 \in DOMAIN queue /\ queue'[i] = queue[i + 1]
    BY <1>3, <2>1
  <2>3. \A i \in DOMAIN queue' : Observed(queue'[i].token, queue'[i].at)
    BY <1>3, <2>2, Zenon
  <2> QED
    BY <1>1, <2>2, <2>3, Zenon DEF QueueInv, Observed
<1>7. RecordsInv' /\ ActivityInv' /\ RequestInv'
  BY <1>1, <1>2, RecordsStay, ActivityStays, RequestsStay, Zenon DEF SessionInv
<1> QED
  BY <1>1, <1>2, <1>5, <1>6, <1>7, Zenon DEF SessionInv, AccountInv, LocksInv, Ages

\* What the writer keeps of its batch was in it.
LEMMA BatchShrinks ==
  ASSUME SessionInv, UNCHANGED <<user, sessions, queue, mutation, clock, pc, req, born, used, known>>,
         \A t \in DOMAIN batch' : t \in DOMAIN batch /\ batch'[t] = batch[t],
         writing' \in BOOLEAN,
         \A t \in DOMAIN activity' :
           \/ t \in DOMAIN activity /\ activity'[t] = activity[t]
           \/ t \in DOMAIN batch /\ activity'[t] = batch[t]
  PROVE  SessionInv'
<1>1. Ages
  BY SameHistory, Zenon DEF SessionInv, HistoryInv
<1>2. RecordsInv' /\ BatchInv' /\ QueueInv' /\ RequestInv'
  BY <1>1, RecordsStay, BatchStays, QueueStays, RequestsStay, Zenon DEF SessionInv
<1>3. \A t \in DOMAIN activity' : Observed(t, activity'[t])
  BY Zenon DEF SessionInv, ActivityInv, BatchInv
<1>4. ActivityInv'
  BY <1>3, Zenon DEF ActivityInv, Observed
<1> QED
  BY <1>1, <1>2, <1>4, Zenon DEF SessionInv, AccountInv, LocksInv, Ages

LEMMA SendBatchKeeps ==
  ASSUME SessionInv, SendBatch
  PROVE  SessionInv'
<1>1. writing' \in BOOLEAN
  BY Zenon DEF SendBatch
<1> QED
  BY <1>1, BatchShrinks, Zenon DEF SendBatch, store, history

LEMMA WriteTouchKeeps ==
  ASSUME SessionInv, WriteTouch
  PROVE  SessionInv'
<1>1. PICK t \in DOMAIN batch : /\ activity' = With(activity, t, batch[t])
                                /\ batch' = Without(batch, t) /\ writing' = (DOMAIN batch # {t})
  BY Zenon DEF WriteTouch
<1>2. \A x \in DOMAIN batch' : x \in DOMAIN batch /\ batch'[x] = batch[x]
  BY <1>1, Zenon DEF Without
<1>3. \A x \in DOMAIN activity' :
        \/ x \in DOMAIN activity /\ activity'[x] = activity[x]
        \/ x \in DOMAIN batch /\ activity'[x] = batch[x]
  BY <1>1, Zenon DEF With
<1>4. writing' \in BOOLEAN
  BY <1>1, Zenon
<1> QED
  BY <1>2, <1>3, <1>4, BatchShrinks, Zenon DEF WriteTouch, history

LEMMA LoseBatchKeeps ==
  ASSUME SessionInv, LoseBatch
  PROVE  SessionInv'
<1>1. DOMAIN batch' = {} /\ writing' \in BOOLEAN
  BY Zenon DEF LoseBatch
<1> QED
  BY <1>1, BatchShrinks, Zenon DEF LoseBatch, store, history

LEMMA DropRequestKeeps ==
  ASSUME SessionInv, NEW r \in Requests, DropRequest(r)
  PROVE  SessionInv'
<1>1. Ages /\ clock \in Nat
  BY SameHistory, Zenon DEF SessionInv, HistoryInv, history, DropRequest
<1>2. RequestInv'
  BY <1>1, RequestEnds, Zenon DEF SessionInv, DropRequest
<1>3. mutation' \in Requests \cup {Nobody}
  BY Zenon DEF DropRequest, SessionInv, LocksInv
<1> QED
  BY <1>1, <1>2, <1>3, StoreStays, Zenon DEF DropRequest

LEMMA ExpireKeeps ==
  ASSUME SessionInv, Expire
  PROVE  SessionInv'
<1>1. UNCHANGED <<user, queue, batch, writing, mutation, clock, pc, req, born, used, known>>
  BY Zenon DEF Expire, touches, history
<1>2. Ages
  BY <1>1, SameHistory, Zenon DEF SessionInv, HistoryInv
<1>3. RecordsInv' /\ ActivityInv'
  <2>1. PICK t : sessions' = Without(sessions, t) /\ activity' = Without(activity, t)
    BY Zenon DEF Expire
  <2> QED
    BY <1>2, <2>1, RecordGoes, Zenon
<1>4. BatchInv' /\ QueueInv' /\ RequestInv'
  BY <1>1, <1>2, BatchStays, QueueStays, RequestsStay, Zenon DEF SessionInv
<1> QED
  BY <1>1, <1>2, <1>3, <1>4, Zenon DEF SessionInv, AccountInv, LocksInv, Ages

LEMMA TickKeeps ==
  ASSUME SessionInv, Tick
  PROVE  SessionInv'
<1>1. clock' \in Nat
  BY DEF Tick, SessionInv, HistoryInv
<1>2. Ages
  BY <1>1, SameHistory, Zenon DEF SessionInv, Tick, history
<1>3. RequestInv'
  BY <1>2, RequestsStay, Zenon DEF SessionInv, Tick
<1> QED
  BY <1>1, <1>3, StoreStays, Zenon DEF Tick, SessionInv, LocksInv

LEMMA CrashKeeps ==
  ASSUME SessionInv, Crash
  PROVE  SessionInv'
<1>1. UNCHANGED <<user, sessions, activity, clock, born, used, known>>
  BY Zenon DEF Crash, store, history
<1>2. Ages
  BY <1>1, SameHistory, Zenon DEF SessionInv, HistoryInv
<1>3. RecordsInv' /\ ActivityInv'
  BY <1>1, <1>2, RecordsStay, ActivityStays, Zenon DEF SessionInv
<1>4. BatchInv' /\ LocksInv'
  BY Zenon DEF Crash, BatchInv, LocksInv
<1>5. QueueInv'
  <2>1. queue' = <<>>
    BY Zenon DEF Crash
  <2>2. queue' \in Seq(Touch) /\ DOMAIN queue' = {}
    BY <2>1
  <2> QED
    BY <2>2, Zenon DEF QueueInv
<1>6. RequestInv'
  <2>1. /\ DOMAIN pc' = Requests /\ DOMAIN req' = Requests
        /\ \A r \in Requests : pc'[r] = "idle" /\ req'[r] = NoReq
    BY Zenon DEF Crash
  <2>2. Fits(NoReq, "idle")'
    BY EndedFits, Zenon DEF SessionInv
  <2> QED
    BY <2>1, <2>2, Zenon DEF RequestInv
<1> QED
  BY <1>1, <1>2, <1>3, <1>4, <1>5, <1>6, Zenon DEF SessionInv, AccountInv, Ages

-----------------------------------------------------------------------------
LEMMA SessionsBegin ==
  ASSUME Init
  PROVE  SessionInv
<1>1. AccountInv
  BY SessionConstants DEF Init, AccountInv
<1>2. HistoryInv /\ RecordsInv /\ ActivityInv /\ BatchInv /\ LocksInv
  BY DEF Init, HistoryInv, RecordsInv, ActivityInv, BatchInv, LocksInv
<1>3. QueueInv
  BY DEF Init, QueueInv
<1>4. RequestInv
  <2>1. /\ DOMAIN pc = Requests /\ DOMAIN req = Requests
        /\ \A r \in Requests : pc[r] = "idle" /\ req[r] = NoReq
    BY Zenon DEF Init
  <2> QED
    BY <1>2, <2>1, EndedFits, Zenon DEF RequestInv
<1> QED
  BY <1>1, <1>2, <1>3, <1>4, Zenon DEF SessionInv

LEMMA SessionsNext ==
  ASSUME SessionInv, [Next]_vars
  PROVE  SessionInv'
<1>1. ASSUME UNCHANGED vars PROVE SessionInv'
  <2>1. UNCHANGED <<store, touches, history>> /\ clock' = clock /\ mutation' = mutation /\ UNCHANGED <<pc, req>>
    BY <1>1, Zenon DEF vars
  <2>2. clock \in Nat
    BY Zenon DEF SessionInv, HistoryInv
  <2>3. Ages
    BY <2>1, <2>2, SameHistory, Zenon DEF SessionInv, history
  <2>4. RequestInv'
    BY <2>1, <2>3, RequestsStay, Zenon DEF SessionInv
  <2> QED
    BY <2>1, <2>2, <2>4, StoreStays, Zenon DEF SessionInv, LocksInv
<1>2. ASSUME NEW r \in Requests, Handle(r) PROVE SessionInv'
  BY <1>2, ReadSessionKeeps, CheckSessionKeeps, DeleteSessionKeeps, ActKeeps, SignInKeeps,
     RevokeAllKeeps, AddPasskeyKeeps, RevokePasskeyKeeps, HandoffKeeps, CreateSessionKeeps,
     AppendEventKeeps, ApplyAuthenticationKeeps, MarkReadKeeps, MarkWriteKeeps, Zenon DEF Handle
<1>3. ASSUME NEW r \in Requests, Present(r) \/ Arrive(r) \/ DropRequest(r) PROVE SessionInv'
  BY <1>3, PresentKeeps, ArriveKeeps, DropRequestKeeps, Zenon
<1>4. ASSUME CollectTouch \/ SendBatch \/ WriteTouch \/ LoseBatch PROVE SessionInv'
  BY <1>4, CollectTouchKeeps, SendBatchKeeps, WriteTouchKeeps, LoseBatchKeeps, Zenon
<1>5. ASSUME Expire \/ Tick \/ Crash PROVE SessionInv'
  BY <1>5, ExpireKeeps, TickKeeps, CrashKeeps, Zenon
<1> QED
  BY <1>1, <1>2, <1>3, <1>4, <1>5, Zenon DEF Next

\* Every reachable state satisfies the invariant: each record and each copy of one that a
\* request carries fits what its token was created from, and no activity, stored, batched
\* or queued, is later than the last use of its session.
THEOREM SessionsFit == Spec => []SessionInv
<1>1. Init => SessionInv
  BY SessionsBegin, Zenon
<1>2. SessionInv /\ [Next]_vars => SessionInv'
  BY SessionsNext, Zenon
<1> QED
  BY <1>1, <1>2, PTL DEF Spec

\* Requests that revoke passkeys at the same time never leave the account without one:
\* revoke_passkey counts them under the mutation lock.
THEOREM PasskeyIsKept == Spec => []FinalPasskeyKept
<1>1. SessionInv => FinalPasskeyKept
  BY Zenon DEF SessionInv, AccountInv, FinalPasskeyKept
<1> QED
  BY <1>1, SessionsFit, PTL

\* What a request that is let through was checked against.
LEMMA AcceptedOn ==
  ASSUME SessionInv, [Next]_vars, NEW r \in Requests, Accepts(r)
  PROVE  Fits(req[r], "user") /\ Valid(req[r].sess)
<1>1. Fits(req[r], "user") /\ pc[r] = "user" /\ pc'[r] = "act" /\ DOMAIN pc = Requests
  BY Zenon DEF Accepts, SessionInv, RequestInv
<1>2. Valid(req[r].sess)
  <2>1. CASE CheckSession(r)
    <3> SUFFICES ASSUME ~Valid(req[r].sess) PROVE FALSE
      BY Zenon
    <3>1. pc'[r] = "delete"
      BY <1>1, <2>1, Zenon DEF CheckSession, Goto
    <3> QED
      BY <1>1, <3>1
  <2>2. CASE ~CheckSession(r)
    <3>1. ASSUME NEW x \in Requests, x # r,
                 Present(x) \/ Arrive(x) \/ Handle(x) \/ DropRequest(x)
          PROVE  pc'[r] = pc[r]
      <4>1. \E at : Goto(x, at) \/ End(x)
        BY <3>1, Zenon DEF Present, Arrive, Begin, Handle, DropRequest, ReadSession, CheckSession,
             DeleteSession, Act, SignIn, RevokeAll, AddPasskey, RevokePasskey, Handoff, CreateSession,
             MintSession, AppendEvent, ApplyAuthentication, MarkRead, MarkWrite
      <4> QED
        BY <1>1, <3>1, <4>1, Zenon DEF Goto, End
    <3>2. ASSUME Present(r) \/ Arrive(r) PROVE FALSE
      <4>1. pc[r] = "idle"
        BY <3>2, Zenon DEF Present, Arrive, Begin
      <4> QED
        BY <1>1, <4>1
    <3>3. ASSUME DropRequest(r) PROVE FALSE
      <4>1. pc'[r] = "idle"
        BY <1>1, <3>3, Zenon DEF DropRequest, End
      <4> QED
        BY <1>1, <4>1
    <3>4. ASSUME Handle(r) PROVE FALSE
      <4>1. pc[r] # "user"
        BY <2>2, <3>4 DEF Handle, ReadSession, DeleteSession, Act, SignIn, RevokeAll,
             AddPasskey, RevokePasskey, Locked, Handoff, CreateSession, MintSession, AppendEvent,
             ApplyAuthentication, MarkRead, MarkWrite
      <4> QED
        BY <1>1, <4>1
    <3>5. ASSUME \/ CollectTouch \/ SendBatch \/ WriteTouch \/ LoseBatch \/ Expire \/ Tick
                 \/ UNCHANGED vars
          PROVE  pc' = pc
      BY <3>5, Zenon DEF CollectTouch, SendBatch, WriteTouch, LoseBatch, Expire, Tick, vars
    <3>6. ASSUME Crash PROVE pc'[r] = "idle"
      BY <3>6, Zenon DEF Crash
    <3>7. pc'[r] # pc[r] /\ pc'[r] # "idle"
      BY <1>1
    <3> QED
      BY <3>1, <3>2, <3>3, <3>4, <3>5, <3>6, <3>7, Zenon DEF Next
  <2> QED
    BY <2>1, <2>2, Zenon
<1> QED
  BY <1>1, <1>2, Zenon

\* A session is accepted only within the idle window of its last use and before the end fixed
\* at its creation, whatever becomes of the activity that the touch writer writes behind.
THEOREM BoundsHold == Spec => WithinBounds
<1>1. ASSUME SessionInv, [Next]_vars, NEW r \in Requests, Accepts(r)
      PROVE  /\ req[r].now < used[req[r].token] + IdleSeconds
             /\ req[r].now < born[req[r].token].expires
  <2> PICK q : q = req[r]
    BY Zenon
  <2> PICK t : t = q.token
    BY Zenon
  <2>1. Fits(q, "user")
    BY <1>1, AcceptedOn, Zenon
  <2>2. q \in Request /\ t \in DOMAIN born /\ Linked(q.sess, t) /\ ~session_expired(q.sess, q.now)
    BY <2>1, SMTT(30) DEF Fits
  <2>3. /\ q.now \in Nat /\ q.sess.seen \in Nat /\ q.sess.expires \in Nat /\ used[t] \in Nat
        /\ q.sess.seen <= used[t] /\ q.sess.expires = born[t].expires
    BY <1>1, <2>2 DEF Request, Linked, Session, SessionInv, HistoryInv
  <2> QED
    BY <2>2, <2>3, SessionConstants DEF session_expired
<1>2. SessionInv /\ [Next]_vars =>
        [\A r \in Requests : Accepts(r) =>
           /\ req[r].now < used[req[r].token] + IdleSeconds
           /\ req[r].now < born[req[r].token].expires]_vars
  BY <1>1, Zenon
<1> QED
  BY <1>2, SessionsFit, PTL DEF Spec, WithinBounds

\* After revoke_all_sessions no session is accepted whose creation had not seen it, also when
\* the request that minted it was under way at the time.
THEOREM RevocationIsFinal == Spec => RevokeAllIsFinal
<1>1. ASSUME SessionInv, [Next]_vars, NEW r \in Requests, Accepts(r)
      PROVE  born[req[r].token].version = user.version
  <2>1. Fits(req[r], "user") /\ Valid(req[r].sess)
    BY <1>1, AcceptedOn, Zenon
  <2>2. Linked(req[r].sess, req[r].token)
    BY <2>1, Zenon DEF Fits
  <2> QED
    BY <2>1, <2>2, Zenon DEF Valid, Linked
<1>2. SessionInv /\ [Next]_vars =>
        [\A r \in Requests : Accepts(r) => born[req[r].token].version = user.version]_vars
  BY <1>1, Zenon
<1> QED
  BY <1>2, SessionsFit, PTL DEF Spec, RevokeAllIsFinal

\* A session that passkeys have proven is accepted only while one of them is linked to the
\* account, also a device's, minted from it by a request that the revocation overtook.
THEOREM RevokedPasskeysAreOut == Spec => RevokedPasskeyEndsSessions
<1>1. ASSUME SessionInv, [Next]_vars, NEW r \in Requests, Accepts(r),
             born[req[r].token].proven # {}
      PROVE  born[req[r].token].proven \cap user.passkeys # {}
  <2>1. Fits(req[r], "user") /\ Valid(req[r].sess)
    BY <1>1, AcceptedOn, Zenon
  <2>2. Linked(req[r].sess, req[r].token)
    BY <2>1, Zenon DEF Fits
  <2> QED
    BY <1>1, <2>1, <2>2, Zenon DEF Valid, Linked
<1>2. SessionInv /\ [Next]_vars =>
        [\A r \in Requests : Accepts(r) =>
           LET proven == born[req[r].token].proven
           IN  proven # {} => proven \cap user.passkeys # {}]_vars
  BY <1>1, Zenon
<1> QED
  BY <1>2, SessionsFit, PTL DEF Spec, RevokedPasskeyEndsSessions
=============================================================================
