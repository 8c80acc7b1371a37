------------------------------ MODULE Sessions ------------------------------
(***************************************************************************)
(* The sessions of one account: store/sessions.rs, the session side of     *)
(* store/credentials.rs, and the handlers of auth/ and operator_auth.rs    *)
(* that use them.                                                          *)
(*                                                                         *)
(* Records are read and deleted without a lock; the account is changed     *)
(* under the mutation lock; the last activity of a session is written      *)
(* behind, by a writer with a bounded queue.  A step is one datastore      *)
(* round trip.  A read and write of the account under the mutation lock    *)
(* is one step, because every writer of the account holds that lock.       *)
(*                                                                         *)
(* Bearer tokens are random, so a token is created once and stands for its *)
(* session's id; a registered credential is likewise new.                  *)
(***************************************************************************)
EXTENDS Integers, Sequences, FiniteSets

CONSTANTS
  Requests,         \* concurrent requests
  Operations,       \* what those requests do: a subset of AllOperations
  Tokens,           \* bearer tokens
  Credentials,      \* passkeys
  Enrolled,         \* the passkeys the account starts with
  AbsoluteSeconds,  \* AUTH_SESSION_ABSOLUTE_SECONDS
  AgentSeconds,     \* the 3,600 s of an agent handoff's session
  DeviceSeconds,    \* DEVICE_SESSION_SECONDS, at most the idle window
  IdleSeconds,      \* AUTH_SESSION_IDLE_SECONDS
  StepUpSeconds,    \* CEREMONY_SECONDS and STEP_UP_SECONDS: how recent a passkey must be
  MaxTouchInterval, \* MAX_SESSION_TOUCH_INTERVAL_SECONDS
  QueueLimit,       \* MAX_PENDING_SESSION_TOUCHES
  RequestTimeout,   \* REQUEST_TIMEOUT_SECONDS of the transport's TimeoutLayer
  MaxVersion,       \* bound on session_version
  MaxTime,          \* bound on the clock
  NoCredential, Nobody

AllOperations == {"signIn", "token", "signOut", "revokeAll", "addPasskey", "revokePasskey",
                  "deviceToken", "agent", "stepUp"}

ASSUME SessionConstants ==
  /\ Operations \subseteq AllOperations
  /\ Enrolled \subseteq Credentials /\ Enrolled # {} /\ NoCredential \notin Credentials
  /\ AbsoluteSeconds \in Nat /\ AgentSeconds \in Nat
  /\ DeviceSeconds \in Nat /\ IdleSeconds \in Nat
  /\ StepUpSeconds \in Nat /\ MaxTouchInterval \in Nat \ {0} /\ QueueLimit \in Nat \ {0}
  /\ RequestTimeout \in Nat /\ MaxVersion \in Nat /\ MaxTime \in Nat
  /\ Nobody \notin Requests /\ Nobody \notin Tokens

VARIABLES
  user,      \* auth:user: its session_version and its passkeys
  sessions,  \* auth:session:<digest>, a function on the tokens that have a record
  activity,  \* auth:session-activity:<digest>, a function likewise
  queue,     \* the touches that wait for the writer
  batch,     \* the writer's map from token to the latest observation
  writing,   \* is the writer sending its batch?
  mutation,  \* holder of Store::mutation between two steps, or Nobody
  clock,     \* store::now()
  pc,        \* where each request is
  req,       \* locals of each request
  born,      \* history: what each token was created from, and the passkeys it was proven with
  used,      \* history: when each token was last created, accepted or stepped up
  known      \* history: passkeys ever registered

store   == <<user, sessions, activity>>
touches == <<queue, batch, writing>>
history == <<born, used, known>>
vars    == <<store, touches, mutation, clock, pc, req, history>>

NoTime == -1

Session == [cred : Credentials \cup {NoCredential}, method : {"passkey", "device", "agent"},
            version : Nat, stepUp : Nat \cup {NoTime}, seen : Nat, expires : Nat]
Birth   == [proven : SUBSET Credentials, version : Nat, expires : Nat]
NoReq   == [op |-> "token", token |-> Nobody, cred |-> NoCredential, sess |-> Nobody,
            version |-> 0, now |-> 0, deadline |-> 0]

\* f with, or without, a value for x.
With(f, x, v) == [y \in DOMAIN f \cup {x} |-> IF y = x THEN v ELSE f[y]]
Without(f, x) == [y \in DOMAIN f \ {x} |-> f[y]]
Later(a, b)   == IF a >= b THEN a ELSE b

Init ==
  /\ user = [version |-> 1, passkeys |-> Enrolled]
  /\ sessions = [t \in {} |-> 0] /\ activity = [t \in {} |-> 0]
  /\ queue = <<>> /\ batch = [t \in {} |-> 0] /\ writing = FALSE
  /\ mutation = Nobody
  /\ clock = 0
  /\ pc = [r \in Requests |-> "idle"]
  /\ req = [r \in Requests |-> NoReq]
  /\ born = [t \in {} |-> 0] /\ used = [t \in {} |-> 0] /\ known = Enrolled

-----------------------------------------------------------------------------
(***************************************************************************)
(* The decisions of store/sessions.rs.                                     *)
(***************************************************************************)

\* (Bugs: an operator named Bug... is a wrong variant of the definition after it, kept
\* to show that the properties can tell the difference.)

session_expired(s, now) == s.expires <= now \/ s.seen + IdleSeconds <= now

session_touch_interval ==
  LET sixth == IdleSeconds \div 6
  IN  IF sixth < 1 THEN 1 ELSE IF sixth > MaxTouchInterval THEN MaxTouchInterval ELSE sixth

session_touch_due(s, now) == now - s.seen >= session_touch_interval

apply_session_activity(s, t, now) ==
  IF t \in DOMAIN activity /\ activity[t] <= now
  THEN [s EXCEPT !.seen = Later(@, activity[t])] ELSE s

\* The originating passkey is not looked at.
BugValid(s) == s.version = user.version

\* session_verdict after the expiry checks, which `current` decides alike both times.
Valid(s) ==
  /\ s.version = user.version
  /\ s.cred # NoCredential => s.cred \in user.passkeys

\* require_recent_passkey and require_step_up_for.
Recent(s) == s.stepUp # NoTime /\ s.stepUp <= clock /\ clock - s.stepUp <= StepUpSeconds

\* prepare_session at the current time.
prepare_session(cred, method, version, seconds) ==
  [cred |-> cred, method |-> method, version |-> version,
   stepUp |-> IF method = "agent" THEN NoTime ELSE clock,
   seen |-> clock, expires |-> clock + seconds]

-----------------------------------------------------------------------------
(***************************************************************************)
(* Requests.                                                               *)
(***************************************************************************)

End(r) ==
  /\ pc' = [pc EXCEPT ![r] = "idle"]
  /\ req' = [req EXCEPT ![r] = NoReq]

Goto(r, at) == pc' = [pc EXCEPT ![r] = at]

Begin(r, op, t, c, at) ==
  /\ pc[r] = "idle" /\ op \in Operations
  /\ req' = [req EXCEPT ![r] = [NoReq EXCEPT !.op = op, !.token = t, !.cred = c,
                                             !.deadline = clock + RequestTimeout]]
  /\ Goto(r, at)
  /\ UNCHANGED <<store, touches, mutation, clock, history>>

Fresh == Tokens \ DOMAIN born

\* A request that presents a token.
Present(r) ==
  \E t \in DOMAIN born :
    \/ \E op \in {"token", "revokeAll", "deviceToken"} :
         Begin(r, op, t, NoCredential, "session")
    \/ \E op \in {"revokePasskey", "stepUp"}, c \in known : Begin(r, op, t, c, "session")
    \/ \E c \in Credentials \ known : Begin(r, "addPasskey", t, c, "session")
    \/ Begin(r, "signOut", t, NoCredential, "delete")

\* A sign-in whose passkey response was verified, and a redeemed agent handoff.
Arrive(r) ==
  \/ \E c \in known : Begin(r, "signIn", Nobody, c, "lock")
  \/ Begin(r, "agent", Nobody, NoCredential, "handoff")

\* Store::session, first half: the record and its activity in one MGET.
ReadSession(r) ==
  LET t == req[r].token
      s == apply_session_activity(sessions[t], t, clock)
  IN  /\ pc[r] = "session"
      /\ IF t \notin DOMAIN sessions THEN End(r)
         ELSE /\ req' = [req EXCEPT ![r].sess = s, ![r].now = clock]
              /\ Goto(r, IF session_expired(s, clock) THEN "delete" ELSE "user")
      /\ UNCHANGED <<store, touches, mutation, clock, history>>

\* enqueue_session_touch: try_send drops the observation when the queue is full.
Enqueue(r) ==
  queue' = IF session_touch_due(req[r].sess, req[r].now) /\ Len(queue) < QueueLimit
           THEN Append(queue, [token |-> req[r].token, at |-> req[r].now,
                               ttl |-> req[r].sess.expires - req[r].now])
           ELSE queue

\* Second half: the account, the verdict, the touch.
CheckSession(r) ==
  /\ pc[r] = "user"
  /\ IF Valid(req[r].sess)
     THEN /\ Enqueue(r)
          /\ used' = [used EXCEPT ![req[r].token] = Later(@, req[r].now)]
          /\ req' = [req EXCEPT ![r].version = user.version]
          /\ Goto(r, "act")
     ELSE Goto(r, "delete") /\ UNCHANGED <<queue, used, req>>
  /\ UNCHANGED <<store, batch, writing, mutation, clock, born, known>>

\* delete_session_records, for sign-out and for a failed check.  Its two DELs travel
\* in one pipeline; an activity without a record has no reader.
DeleteSession(r) ==
  LET t == req[r].token
  IN  /\ pc[r] = "delete"
      /\ sessions' = Without(sessions, t)
      /\ activity' = Without(activity, t)
      /\ End(r)
      /\ UNCHANGED <<user, touches, mutation, clock, born, used, known>>

\* What the handler requires of the session it was given.
Permitted(r) ==
  LET s == req[r].sess
  IN  CASE req[r].op = "token"  -> TRUE
        [] req[r].op = "stepUp" -> s.method = "passkey"
        [] OTHER                -> s.method = "passkey" /\ Recent(s)

\* The handler refuses, answers (token changes nothing here), or goes on.
\* device_token needs a credential; step_up_verify waits for the mutation lock of
\* apply_authentication after its ceremony was taken and verified.
Act(r) ==
  LET op == req[r].op
      more == Permitted(r) /\ op # "token"
              /\ (op = "deviceToken" => req[r].sess.cred # NoCredential)
  IN  /\ pc[r] = "act"
      /\ IF more THEN Goto(r, IF op = "deviceToken" THEN "create" ELSE "lock") /\ UNCHANGED req
         ELSE End(r)
      /\ UNCHANGED <<store, touches, mutation, clock, history>>

-----------------------------------------------------------------------------
(***************************************************************************)
(* Mutations of the account under the mutation lock.                       *)
(***************************************************************************)

Locked(r, op) == pc[r] = "lock" /\ req[r].op = op /\ mutation = Nobody

\* A new record under a new token, with what it was created from.
PutSession(t, s, birth) ==
  /\ sessions' = With(sessions, t, s)
  /\ born' = With(born, t, birth)
  /\ used' = With(used, t, clock)

\* apply_authentication_and_create_session: the passkey, read under the lock, may be
\* gone, and its counter may have regressed; otherwise account, session and event
\* are committed together.
SignIn(r) ==
  /\ Locked(r, "signIn")
  /\ \/ /\ req[r].cred \in user.passkeys
        /\ \E t \in Fresh :
             PutSession(t, prepare_session(req[r].cred, "passkey", user.version, AbsoluteSeconds),
                        [proven |-> {req[r].cred}, version |-> user.version,
                         expires |-> clock + AbsoluteSeconds])
     \/ UNCHANGED <<sessions, born, used>>
  /\ End(r)
  /\ UNCHANGED <<user, activity, touches, mutation, clock, known>>

\* Store::revoke_all_sessions.
RevokeAll(r) ==
  /\ Locked(r, "revokeAll") /\ user.version < MaxVersion
  /\ user' = [user EXCEPT !.version = @ + 1]
  /\ End(r)
  /\ UNCHANGED <<sessions, activity, touches, mutation, clock, history>>

\* Store::add_passkey.
AddPasskey(r) ==
  LET new == req[r].cred \notin known
  IN  /\ Locked(r, "addPasskey")
      /\ user' = IF new THEN [user EXCEPT !.passkeys = @ \cup {req[r].cred}] ELSE user
      /\ known' = known \cup {req[r].cred}
      /\ End(r)
      /\ UNCHANGED <<sessions, activity, touches, mutation, clock, born, used>>

\* The final passkey is not protected.
BugRevokePasskey(r) ==
  /\ Locked(r, "revokePasskey")
  /\ user' = [user EXCEPT !.passkeys = @ \ {req[r].cred}]
  /\ End(r)
  /\ UNCHANGED <<sessions, activity, touches, mutation, clock, history>>

\* Store::revoke_passkey: refuses the final passkey and one that is not linked.
RevokePasskey(r) ==
  LET gone == Cardinality(user.passkeys) > 1 /\ req[r].cred \in user.passkeys
  IN  /\ Locked(r, "revokePasskey")
      /\ user' = IF gone THEN [user EXCEPT !.passkeys = @ \ {req[r].cred}] ELSE user
      /\ End(r)
      /\ UNCHANGED <<sessions, activity, touches, mutation, clock, history>>

-----------------------------------------------------------------------------
(***************************************************************************)
(* Store::create_session, without the mutation lock: the account was read  *)
(* before, and the event is appended after the record is set.              *)
(***************************************************************************)

\* local_agent_handoff reads the account.
Handoff(r) ==
  /\ pc[r] = "handoff"
  /\ req' = [req EXCEPT ![r].version = user.version]
  /\ Goto(r, "create")
  /\ UNCHANGED <<store, touches, mutation, clock, history>>

\* The record is set with the account's version as the caller knows it.
MintSession(r, version) ==
  LET q == req[r]
      device == q.op = "deviceToken"
      cred == IF device THEN q.sess.cred ELSE NoCredential
      seconds == IF device THEN DeviceSeconds ELSE AgentSeconds
  IN  /\ pc[r] = "create"
      /\ \E t \in Fresh :
           PutSession(t, prepare_session(cred, IF device THEN "device" ELSE "agent", version,
                                         seconds),
                      [proven |-> IF device THEN born[q.token].proven ELSE {},
                       version |-> q.version,
                       expires |-> clock + seconds])
      /\ Goto(r, "append")
      /\ UNCHANGED <<user, activity, touches, mutation, clock, req, known>>

\* The version is read again when the record is set.
BugCreateSession(r) == MintSession(r, user.version)

CreateSession(r) == MintSession(r, req[r].version)

\* append_event_within_snapshot: waits for the mutation lock, whoever holds it.
AppendEvent(r) ==
  /\ pc[r] = "append" /\ mutation = Nobody
  /\ End(r)
  /\ UNCHANGED <<store, touches, mutation, clock, history>>

-----------------------------------------------------------------------------
(***************************************************************************)
(* step_up_verify after the ceremony: apply_authentication, then           *)
(* mark_session_step_up, which keeps the mutation lock to its end.         *)
(***************************************************************************)

\* The passkey may be gone by now, or its counter may have regressed.
ApplyAuthentication(r) ==
  /\ Locked(r, "stepUp")
  /\ \/ req[r].cred \in user.passkeys /\ Goto(r, "relock") /\ UNCHANGED req
     \/ End(r)
  /\ UNCHANGED <<store, touches, mutation, clock, history>>

\* The record is read under the mutation lock, which its other writers do not take.
MarkRead(r) ==
  LET t == req[r].token
  IN  /\ pc[r] = "relock" /\ mutation = Nobody
      /\ \/ /\ t \notin DOMAIN sessions
            /\ End(r) /\ UNCHANGED <<sessions, mutation>>
         \/ /\ t \in DOMAIN sessions /\ sessions[t].expires <= clock
            /\ sessions' = Without(sessions, t)
            /\ End(r) /\ UNCHANGED mutation
         \/ /\ t \in DOMAIN sessions /\ sessions[t].expires > clock
            /\ req' = [req EXCEPT ![r].sess = sessions[t], ![r].now = clock]
            /\ mutation' = r
            /\ Goto(r, "mark") /\ UNCHANGED sessions
      /\ UNCHANGED <<user, activity, touches, clock, history>>

\* Sets the record again and deletes the activity, then appends its event with
\* append_event_within_snapshot while it still holds the lock.
MarkWrite(r) ==
  LET q == req[r]
  IN  /\ pc[r] = "mark"
      /\ sessions' = With(sessions, q.token,
                          [q.sess EXCEPT !.method = "passkey", !.cred = q.cred,
                                         !.stepUp = q.now, !.seen = q.now])
      /\ activity' = Without(activity, q.token)
      /\ used' = [used EXCEPT ![q.token] = Later(@, q.now)]
      /\ born' = [born EXCEPT ![q.token].proven = @ \cup {q.cred}]
      /\ Goto(r, "append")
      /\ UNCHANGED <<user, touches, mutation, clock, req, known>>

-----------------------------------------------------------------------------
(***************************************************************************)
(* The touch writer: spawn_session_touch_writer.  It collects until the    *)
(* queue is empty or the batch is full; the batch is a plain pipeline.     *)
(***************************************************************************)

\* insert_latest_session_touch keeps the latest observation of a token.
CollectTouch ==
  LET h == Head(queue)
  IN  /\ ~ writing /\ queue # <<>> /\ Cardinality(DOMAIN batch) < QueueLimit
      /\ batch' = IF h.token \in DOMAIN batch /\ h.at <= batch[h.token] THEN batch
                  ELSE With(batch, h.token, h.at)
      /\ queue' = Tail(queue)
      /\ UNCHANGED <<store, writing, mutation, clock, pc, req, history>>

SendBatch ==
  /\ ~ writing /\ DOMAIN batch # {}
  /\ queue = <<>> \/ Cardinality(DOMAIN batch) >= QueueLimit
  /\ writing' = TRUE
  /\ UNCHANGED <<store, queue, batch, mutation, clock, pc, req, history>>

\* The time of the write takes the place of the time of the request.
BugWriteTouch ==
  /\ writing
  /\ \E t \in DOMAIN batch :
       /\ activity' = With(activity, t, clock)
       /\ batch' = Without(batch, t)
       /\ writing' = (DOMAIN batch # {t})
  /\ UNCHANGED <<user, sessions, queue, mutation, clock, pc, req, history>>

\* One SETEX of session_touch_pipeline.  The activity's TTL runs out after its
\* session's end, when its value no longer matters.
WriteTouch ==
  /\ writing
  /\ \E t \in DOMAIN batch :
       /\ activity' = With(activity, t, batch[t])
       /\ batch' = Without(batch, t)
       /\ writing' = (DOMAIN batch # {t})
  /\ UNCHANGED <<user, sessions, queue, mutation, clock, pc, req, history>>

\* The rest of the batch is lost with the connection.
LoseBatch ==
  /\ writing
  /\ batch' = [t \in {} |-> 0] /\ writing' = FALSE
  /\ UNCHANGED <<store, queue, mutation, clock, pc, req, history>>

-----------------------------------------------------------------------------
\* The timeout fires, the client leaves or a datastore call fails.
DropRequest(r) ==
  /\ pc[r] # "idle"
  /\ mutation' = IF mutation = r THEN Nobody ELSE mutation
  /\ End(r)
  /\ UNCHANGED <<store, touches, clock, history>>

\* The datastore drops a record whose TTL has run out; its activity goes likewise.
Expire ==
  /\ \E t \in DOMAIN sessions :
       /\ sessions[t].expires <= clock
       /\ sessions' = Without(sessions, t)
       /\ activity' = Without(activity, t)
  /\ UNCHANGED <<user, touches, mutation, clock, pc, req, history>>

\* Time passes, but no request outlives its timeout.
Tick ==
  /\ clock < MaxTime
  /\ \A r \in Requests : pc[r] # "idle" => clock < req[r].deadline
  /\ clock' = clock + 1
  /\ UNCHANGED <<store, touches, mutation, pc, req, history>>

\* The process stops and starts again: touches that were not written are lost.
Crash ==
  /\ queue' = <<>> /\ batch' = [t \in {} |-> 0] /\ writing' = FALSE
  /\ mutation' = Nobody
  /\ pc' = [r \in Requests |-> "idle"]
  /\ req' = [r \in Requests |-> NoReq]
  /\ UNCHANGED <<store, clock, history>>

Handle(r) ==
  \/ ReadSession(r) \/ CheckSession(r) \/ DeleteSession(r) \/ Act(r)
  \/ SignIn(r) \/ RevokeAll(r) \/ AddPasskey(r) \/ RevokePasskey(r)
  \/ Handoff(r) \/ CreateSession(r) \/ AppendEvent(r)
  \/ ApplyAuthentication(r) \/ MarkRead(r) \/ MarkWrite(r)

Next ==
  \/ \E r \in Requests : Present(r) \/ Arrive(r) \/ Handle(r) \/ DropRequest(r)
  \/ CollectTouch \/ SendBatch \/ WriteTouch \/ LoseBatch
  \/ Expire \/ Tick \/ Crash

Spec == Init /\ [][Next]_vars

-----------------------------------------------------------------------------
\* Request r is let through by this step.
Accepts(r) == pc[r] = "user" /\ pc'[r] = "act"

\* "never extends its idle or absolute security boundary" (ARCHITECTURE.md): a request is
\* accepted only within the idle window of the session's last accepted use, creation or
\* step-up, and before the end fixed when it was created, however late, lost or
\* reordered the written-behind activity is.
WithinBounds ==
  [][\A r \in Requests : Accepts(r) =>
       /\ req[r].now < used[req[r].token] + IdleSeconds
       /\ req[r].now < born[req[r].token].expires]_vars

\* revoke_all_sessions ends everything that was authorised before it: a session is
\* accepted only if the request or ceremony it was created by saw the current version,
\* so a device token minted by a request that the revocation overtook is refused.
RevokeAllIsFinal ==
  [][\A r \in Requests : Accepts(r) => born[req[r].token].version = user.version]_vars

\* "Revoking a passkey invalidates every session created with that passkey on its next
\* use" (SECURITY.md), the device sessions minted from it included, unless a step-up has
\* proven the session with another passkey: a session is accepted only while a passkey
\* that proved it, or the session it was minted from, is linked to the account.
RevokedPasskeyEndsSessions ==
  [][\A r \in Requests : Accepts(r) =>
       LET proven == born[req[r].token].proven
       IN  proven # {} => proven \cap user.passkeys # {}]_vars

\* Two requests that revoke different passkeys never leave the account without one.
FinalPasskeyKept == user.passkeys # {}

\* append_event_within_snapshot: "a caller holding it must use append_event_locked
\* instead - the mutex is not reentrant".  No request waits for a lock it holds.
NeverWaitsForItself ==
  \A r \in Requests : ~ (mutation = r /\ pc[r] \in {"append", "relock", "lock"})
=============================================================================
