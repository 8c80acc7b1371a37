--------------------------- MODULE FleetConnections ---------------------------
(***************************************************************************)
(* The connection between Fleet and one realm: pairing (from Fleet, over   *)
(* the realm's public endpoint, or from a private realm), assignment       *)
(* epochs, credential rotation, revocation and remote mutations            *)
(* (fleet_rpc.rs and store/fleet.rs on Fleet's side; management_rpc.rs,    *)
(* store/management.rs and store/remote_mutations.rs on the realm's).      *)
(*                                                                         *)
(* The two sides share nothing but calls.  A call may be lost before or    *)
(* after the realm acts on it, at any step of its handling, and Fleet may  *)
(* stop waiting for it while it is still under way, so that the realm acts *)
(* on it later.  A store operation under a mutation lock is one step;      *)
(* datastore accesses outside the locks are steps of their own.            *)
(*                                                                         *)
(* Credentials, connection ids and pairing codes are random; they are      *)
(* numbered as they are made, and a connection has the number of its first *)
(* credential.  Authorization is that of FleetHierarchy and left out here. *)
(***************************************************************************)
EXTENDS Integers, Sequences, FiniteSets

CONSTANTS
  None,           \* absent
  Handlers,       \* concurrent RPCs at Fleet
  Environments,
  RequestIds,     \* mutation.request_id, chosen by the caller
  Operations,     \* what a remote mutation may ask for, as Fleet's audit names it
  Workloads,      \* which operations, with which requests and handlers, a behaviour is made of
  MaxCredentials, \* bound: credentials that are made
  MaxEpoch        \* bound: assignment epochs that are reserved

\* Fleet's own audit actions are not remote operations.
ASSUME FleetConnectionsConstants ==
  /\ MaxCredentials \in Nat /\ MaxEpoch \in Nat /\ None \notin Handlers
  /\ Operations \cap {"connection.begin", "connection.complete", "connection.rotate_credential",
                       "connection.revoke"} = {}
  /\ \A w \in Workloads :
       w \in [ops : SUBSET {"begin", "complete", "pair", "rotate", "revoke", "mutate", "read"},
              mode : {"public", "outbound"}, handlers : SUBSET Handlers, left : Nat,
              requests : SUBSET RequestIds, codes : Nat, environments : SUBSET Environments]

VARIABLES
  attempts,     \* fleet:connection-attempt:<id>, while they last
  connections,  \* fleet:connection:<id>
  receipts,     \* fleet:idempotency:<request>
  audit,        \* fleet:audit:<id>, in the order of their transactions
  epoch,        \* fleet:assignment-epoch:<realm>, or NoEpoch
  handler,      \* what each handler at Fleet is doing
  calls,        \* the calls under way to the realm, with how far it is with each
  pairings,     \* the realm's pairing codes: can each still be used?
  grants,       \* the realm's auth:fleet-grant:<connection>
  locators,     \* the realm's auth:fleet-grant-secret:<digest>
  rotations,    \* the realm's auth:fleet-grant-rotation:<request>
  mutations,    \* the realm's auth:remote-mutation:<request>
  effects,      \* the operations applied at the realm for each request, in order
  made,         \* credentials made so far, at either side
  reserved,     \* history: the epochs that were reserved, in order
  workload      \* the operations that are called, and how many more are: the bound

fleet == <<attempts, connections, receipts, audit, epoch, reserved>>
realm == <<pairings, grants, locators, rotations, mutations, effects>>
vars  == <<fleet, handler, calls, realm, made, workload>>

Empty == [x \in {} |-> 0]
With(f, x, v) == [y \in DOMAIN f \cup {x} |-> IF y = x THEN v ELSE f[y]]
Without(f, x) == [y \in DOMAIN f \ {x} |-> f[y]]
NoEpoch == -1
Idle == [at |-> "idle"]

\* The digest that the realm stores of a credential, and finds a grant by.
credential_digest(c) == <<"base64url", c>>

Connected(n) == [environment |-> CHOOSE e \in Environments : TRUE, mode |-> "public", epoch |-> 1,
                 credential |-> n, staged |-> None, rotation |-> None, state |-> "healthy"]

\* Nothing is paired, or connection 1 is.
Init ==
  /\ workload \in Workloads
  /\ LET paired == workload.ops \cap {"begin", "complete", "pair"} = {}
         one    == IF paired THEN {1} ELSE {}
     IN
     /\ connections = [n \in one |-> Connected(1)]
     /\ grants = [n \in one |-> [digest |-> credential_digest(1), epoch |-> 1, revoked |-> FALSE]]
     /\ locators = [d \in {credential_digest(n) : n \in one} |-> 1]
     /\ epoch = IF paired THEN 1 ELSE NoEpoch
     /\ made = Cardinality(one)
     /\ reserved = IF paired THEN <<1>> ELSE <<>>
  /\ attempts = Empty /\ receipts = Empty /\ audit = <<>>
  /\ handler = [h \in Handlers |-> Idle]
  /\ calls = {} /\ pairings = <<>>
  /\ rotations = Empty /\ mutations = Empty /\ effects = [q \in RequestIds |-> <<>>]

Go(h, r) == handler' = [handler EXCEPT ![h] = r]
Done(h)  == Go(h, Idle)

\* Fleet sends a call and waits for its answer.
Ask(h, r, call) ==
  /\ Go(h, [r EXCEPT !.at = "await"])
  /\ calls' = calls \cup {[call EXCEPT !.from = h]}

Request(kind, bearer, n, q, about) ==
  [kind |-> kind, bearer |-> bearer, connection |-> n, request |-> q, about |-> about,
   from |-> None, at |-> "sent"]

\* What a call carries besides: a credential, an epoch, an operation.
About(c, e, o) == [credential |-> c, epoch |-> e, operation |-> o]

\* Every deadline: CallOptions::with_timeout(MANAGEMENT_TIMEOUT).  The call goes on.
Timeout(h) ==
  \E c \in calls :
    /\ c.from = h
    /\ calls' = (calls \ {c}) \cup {[c EXCEPT !.from = None]}
    /\ Go(h, [handler[h] EXCEPT !.at = "failed"])
    /\ UNCHANGED <<fleet, realm, made>>

\* The realm answers; an answer that nobody waits for is dropped.
Reply(c, at, value) ==
  /\ calls' = calls \ {c}
  /\ IF c.from = None THEN UNCHANGED handler
     ELSE Go(c.from, [handler[c.from] EXCEPT !.at = at, !.reply = value])

Answer(c, value) == Reply(c, "answered", value)
Refuse(c)        == Reply(c, "failed", None)

\* The call, or the process that handles it, is lost at whatever step it is.
LoseCall(c) ==
  /\ calls' = calls \ {c}
  /\ IF c.from = None THEN UNCHANGED handler
     ELSE Go(c.from, [handler[c.from] EXCEPT !.at = "failed"])
  /\ UNCHANGED <<fleet, realm, made>>

-----------------------------------------------------------------------------
(***************************************************************************)
(* The realm: store/management.rs and store/remote_mutations.rs.           *)
(***************************************************************************)

\* (Bugs: an operator named Bug... is a wrong variant of the definition after it, kept
\* to show that the properties can tell the difference.)

create_realm_pairing ==
  /\ Len(pairings) < workload.codes
  /\ pairings' = Append(pairings, TRUE)
  /\ UNCHANGED <<fleet, handler, calls, grants, locators, rotations, mutations, effects, made>>

\* GETDEL of the one-time code, then grant and locator in one transaction.
TakePairing(c) ==
  /\ c.kind \in {"exchange", "consume"} /\ c.at = "sent"
  /\ IF pairings[c.bearer]
     THEN /\ calls' = (calls \ {c}) \cup {[c EXCEPT !.at = "taken"]}
          /\ UNCHANGED handler
     ELSE Refuse(c)
  /\ pairings' = [pairings EXCEPT ![c.bearer] = FALSE]
  /\ UNCHANGED <<fleet, grants, locators, rotations, mutations, effects, made>>

exchange_realm_pairing(c) ==
  LET n == made + 1 IN
  /\ c.kind = "exchange" /\ c.at = "taken" /\ n <= MaxCredentials
  /\ grants' = With(grants, n, [digest |-> credential_digest(n), epoch |-> c.about.epoch, revoked |-> FALSE])
  /\ locators' = With(locators, credential_digest(n), n)
  /\ made' = n
  /\ Answer(c, n)
  /\ UNCHANGED <<fleet, pairings, rotations, mutations, effects>>

\* pair_outbound_realm, once Fleet has answered with a connection and its credential.
consume_outbound_realm_pairing(c) ==
  LET d == credential_digest(c.about.credential) IN
  /\ c.kind = "consume" /\ c.at = "taken"
  /\ grants' = With(grants, c.connection, [digest |-> d, epoch |-> c.about.epoch, revoked |-> FALSE])
  /\ locators' = With(locators, d, c.connection)
  /\ calls' = calls \ {c}
  /\ UNCHANGED <<fleet, handler, pairings, rotations, mutations, effects, made>>

\* ManagementRpc::grant: whose bearer is this?  Every other call starts with it.
realm_fleet_grant_by_credential(c) ==
  LET d == credential_digest(c.bearer)
      found == d \in DOMAIN locators /\ ~grants[locators[d]].revoked /\ grants[locators[d]].digest = d
  IN
  /\ c.kind \notin {"exchange", "consume"} /\ c.at = "sent"
  /\ IF found /\ locators[d] = c.connection
     THEN calls' = (calls \ {c}) \cup {[c EXCEPT !.at = "granted"]} /\ UNCHANGED handler
     ELSE Refuse(c)
  /\ UNCHANGED <<fleet, realm, made>>

\* The read-only calls.
operational_snapshot(c) ==
  /\ c.kind = "read" /\ c.at = "granted"
  /\ Answer(c, None)
  /\ UNCHANGED <<fleet, realm, made>>

revoke_realm_fleet_grant(c) ==
  /\ c.kind = "revoke" /\ c.at = "granted"
  /\ grants' = [grants EXCEPT ![c.connection].revoked = TRUE]
  /\ locators' = Without(locators, grants[c.connection].digest)
  /\ Answer(c, None)
  /\ UNCHANGED <<fleet, pairings, rotations, mutations, effects, made>>

\* Once per request, while its receipt lasts.
rotate_realm_fleet_grant(c) ==
  LET g == grants[c.connection]
      d == credential_digest(c.about.credential)
  IN
  /\ c.kind = "rotate" /\ c.at = "granted"
  /\ IF c.request \in DOMAIN rotations
     THEN /\ IF /\ rotations[c.request] = [connection |-> c.connection, digest |-> d]
                /\ ~g.revoked /\ g.digest = d
             THEN Answer(c, None) ELSE Refuse(c)
          /\ UNCHANGED <<grants, locators, rotations>>
     ELSE IF g.revoked THEN Refuse(c) /\ UNCHANGED <<grants, locators, rotations>>
     ELSE /\ grants' = [grants EXCEPT ![c.connection].digest = d]
          /\ locators' = With(Without(locators, g.digest), d, c.connection)
          /\ rotations' = With(rotations, c.request, [connection |-> c.connection, digest |-> d])
          /\ Answer(c, None)
  /\ UNCHANGED <<fleet, pairings, mutations, effects, made>>

\* Claims are not kept apart by what they ask for.
BugClaimRemoteMutation(c) ==
  /\ c.kind = "mutate" /\ c.at = "granted"
  /\ mutations' = With(mutations, c.request, [digest |-> c.about.operation, state |-> "pending"])
  /\ calls' = (calls \ {c}) \cup {[c EXCEPT !.at = "claimed"]}
  /\ UNCHANGED <<fleet, handler, pairings, grants, locators, rotations, effects, made>>

\* RealmCommandExecutor::remote_mutation: SET NX claims the request id; a request that was
\* carried out, with the same content, is answered from its receipt.
claim_remote_mutation(c) ==
  /\ c.kind = "mutate" /\ c.at = "granted"
  /\ IF c.request \notin DOMAIN mutations
     THEN /\ mutations' = With(mutations, c.request, [digest |-> c.about.operation, state |-> "pending"])
          /\ calls' = (calls \ {c}) \cup {[c EXCEPT !.at = "claimed"]}
          /\ UNCHANGED handler
     ELSE /\ IF mutations[c.request] = [digest |-> c.about.operation, state |-> "succeeded"]
             THEN Answer(c, None) ELSE Refuse(c)
          /\ UNCHANGED mutations
  /\ UNCHANGED <<fleet, pairings, grants, locators, rotations, effects, made>>

\* The effect takes place, or the operation is refused before it does.
apply_remote_mutation(c) ==
  /\ c.kind = "mutate" /\ c.at = "claimed"
  /\ \E ok \in BOOLEAN :
       /\ effects' = IF ok THEN [effects EXCEPT ![c.request] = Append(@, c.about.operation)] ELSE effects
       /\ calls' = (calls \ {c}) \cup {[c EXCEPT !.at = IF ok THEN "applied" ELSE "unapplied"]}
  /\ UNCHANGED <<fleet, handler, pairings, grants, locators, rotations, mutations, made>>

\* The correlated local event; when it cannot be written the request counts as failed.
LogMutation(c) ==
  /\ c.kind = "mutate" /\ c.at = "applied"
  /\ \E ok \in BOOLEAN :
       calls' = (calls \ {c}) \cup {[c EXCEPT !.at = IF ok THEN "logged" ELSE "unlogged"]}
  /\ UNCHANGED <<fleet, handler, realm, made>>

complete_remote_mutation(c) ==
  LET ok == c.at = "logged" IN
  /\ c.kind = "mutate" /\ c.at \in {"unapplied", "unlogged", "logged"}
  /\ mutations' = IF mutations[c.request].state = "pending"
                  THEN [mutations EXCEPT ![c.request].state = IF ok THEN "succeeded" ELSE "failed"]
                  ELSE mutations
  /\ IF ok THEN Answer(c, None) ELSE Refuse(c)
  /\ UNCHANGED <<fleet, pairings, grants, locators, rotations, effects, made>>

RealmStep(c) ==
  \/ TakePairing(c) \/ exchange_realm_pairing(c) \/ consume_outbound_realm_pairing(c)
  \/ realm_fleet_grant_by_credential(c) \/ operational_snapshot(c)
  \/ revoke_realm_fleet_grant(c) \/ rotate_realm_fleet_grant(c)
  \/ claim_remote_mutation(c) \/ apply_remote_mutation(c) \/ LogMutation(c)
  \/ complete_remote_mutation(c)

-----------------------------------------------------------------------------
(***************************************************************************)
(* Fleet's store.                                                          *)
(***************************************************************************)

connector_connection_usable(r) == r.state # "revoked"

Attempt(q) == <<"attempt", q>>
Receipt(action, n) == [action |-> action, resource |-> n]

\* What the receipt says of a request: unknown, answered, or used for something else.
fleet_idempotent_resource(action, q) ==
  IF q \notin DOMAIN receipts THEN "none"
  ELSE IF receipts[q].action = action THEN "completed" ELSE "conflict"

persist_fleet_mutation(q, action, n) ==
  /\ receipts' = With(receipts, q, Receipt(action, n))
  /\ audit' = Append(audit, [request |-> q, action |-> action, resource |-> n])

\* begin_connection; a request that was seen before changes nothing.
create_fleet_connection_attempt(q, e, mode, code) ==
  /\ fleet_idempotent_resource("connection.begin", q) = "none"
  /\ attempts' = With(attempts, Attempt(q), [environment |-> e, mode |-> mode, code |-> code])
  /\ persist_fleet_mutation(q, "connection.begin", Attempt(q))
  /\ UNCHANGED <<connections, epoch, reserved, handler, calls, realm, made>>

\* EX FLEET_CONNECTION_ATTEMPT_SECONDS.
ExpireAttempt(a) ==
  /\ attempts' = Without(attempts, a)
  /\ UNCHANGED <<connections, receipts, audit, epoch, reserved, handler, calls, realm, made>>

LastEpoch ==
  LET used == {0} \cup {connections[n].epoch : n \in DOMAIN connections}
  IN  CHOOSE x \in used : \A y \in used : y <= x

\* reserve_fleet_assignment_epoch: three accesses, and no lock.
ReadEpoch(h) ==
  /\ handler[h].at = "reserve"
  /\ Go(h, [handler[h] EXCEPT !.at = "initialize", !.epoch = LastEpoch])
  /\ UNCHANGED <<fleet, calls, realm, made>>

InitializeEpoch(h) ==
  /\ handler[h].at = "initialize"
  /\ epoch' = IF epoch = NoEpoch THEN handler[h].epoch ELSE epoch
  /\ Go(h, [handler[h] EXCEPT !.at = "increment"])
  /\ UNCHANGED <<attempts, connections, receipts, audit, reserved, calls, realm, made>>

\* The value read before is used, not that of the counter.
BugIncrementEpoch(h) ==
  LET next == handler[h].epoch + 1 IN
  /\ handler[h].at = "increment" /\ next <= MaxEpoch
  /\ epoch' = next /\ reserved' = Append(reserved, next)
  /\ Go(h, [handler[h] EXCEPT !.at = "reserved", !.epoch = next])
  /\ UNCHANGED <<attempts, connections, receipts, audit, calls, realm, made>>

IncrementEpoch(h) ==
  LET next == epoch + 1 IN
  /\ handler[h].at = "increment" /\ next <= MaxEpoch
  /\ epoch' = next /\ reserved' = Append(reserved, next)
  /\ Go(h, [handler[h] EXCEPT !.at = "reserved", !.epoch = next])
  /\ UNCHANGED <<attempts, connections, receipts, audit, calls, realm, made>>

\* The realm may be connected twice within an environment.
BugCompleteFleetConnection(h, n, r) ==
  LET w == handler[h] IN
  /\ IF \/ fleet_idempotent_resource("connection.complete", w.request) # "none"
        \/ w.target \notin DOMAIN attempts \/ r.epoch <= LastEpoch
     THEN UNCHANGED <<attempts, connections, receipts, audit>>
     ELSE /\ connections' = With(connections, n, r)
          /\ attempts' = IF r.mode = "public" THEN Without(attempts, w.target) ELSE attempts
          /\ persist_fleet_mutation(w.request, "connection.complete", n)
  /\ UNCHANGED <<epoch, reserved>>

\* The attempt of a private realm stays until it expires, for its retries.
complete_fleet_connection(h, n, r) ==
  LET w == handler[h] IN
  /\ IF \/ fleet_idempotent_resource("connection.complete", w.request) # "none"
        \/ w.target \notin DOMAIN attempts
        \/ \E m \in DOMAIN connections :
             connections[m].environment = r.environment /\ connections[m].state # "revoked"
        \/ r.epoch <= LastEpoch
     THEN UNCHANGED <<attempts, connections, receipts, audit>>
     ELSE /\ connections' = With(connections, n, r)
          /\ attempts' = IF r.mode = "public" THEN Without(attempts, w.target) ELSE attempts
          /\ persist_fleet_mutation(w.request, "connection.complete", n)
  /\ UNCHANGED <<epoch, reserved>>

observe_fleet_connection(n, state) ==
  connections' = IF connections[n].state = "revoked" THEN connections
                 ELSE [connections EXCEPT ![n].state = state]

revoke_fleet_connection(q, n) ==
  IF fleet_idempotent_resource("connection.revoke", q) = "none"
  THEN /\ connections' = [connections EXCEPT ![n].state = "revoked"]
       /\ persist_fleet_mutation(q, "connection.revoke", n)
  ELSE UNCHANGED <<connections, receipts, audit>>

\* The staged credential becomes the active one.
rotate_fleet_connection_credential(q, n) ==
  LET r == connections[n] IN
  IF /\ fleet_idempotent_resource("connection.rotate_credential", q) = "none"
     /\ r.state # "revoked" /\ r.rotation = q
  THEN /\ connections' = [connections EXCEPT ![n] =
                            [r EXCEPT !.credential = r.staged, !.staged = None, !.rotation = None]]
       /\ persist_fleet_mutation(q, "connection.rotate_credential", n)
  ELSE UNCHANGED <<connections, receipts, audit>>

\* Recorded only while the connection is not revoked.
record_fleet_remote_mutation(q, n, operation) ==
  IF fleet_idempotent_resource(operation, q) = "none" /\ connections[n].state # "revoked"
  THEN persist_fleet_mutation(q, operation, connections[n].environment)
  ELSE UNCHANGED <<receipts, audit>>

-----------------------------------------------------------------------------
(***************************************************************************)
(* Fleet's handlers.                                                       *)
(***************************************************************************)

\* What a handler keeps between its steps; what it read is not read again.
Work(op, at, q, target, subject) ==
  [op |-> op, at |-> at, request |-> q, target |-> target, subject |-> subject,
   credential |-> None, staged |-> None, epoch |-> NoEpoch, second |-> FALSE, reply |-> None]

Record(a, n, e) ==
  [environment |-> a.environment, mode |-> a.mode, epoch |-> e, credential |-> n, staged |-> None,
   rotation |-> None, state |-> IF a.mode = "public" THEN "healthy" ELSE "offline"]

\* The handler's task is gone; a call it made goes on.
Abandon(h) ==
  /\ handler[h] # Idle /\ Done(h)
  /\ calls' = {IF c.from = h THEN [c EXCEPT !.from = None] ELSE c : c \in calls}
  /\ UNCHANGED <<fleet, realm, made>>

\* complete_connection, from the attempt it reads to the record it stores.
complete_connection(h, q, a, code) ==
  /\ handler[h] = Idle
  /\ attempts[a].mode = "public"
  /\ Go(h, Work("complete", "reserve", q, a, [code |-> code, attempt |-> attempts[a]]))
  /\ UNCHANGED <<fleet, calls, realm, made>>

ExchangePairingCode(h) ==
  LET w == handler[h] IN
  /\ w.at = "reserved" /\ w.op = "complete"
  /\ Ask(h, w, Request("exchange", w.subject.code, None, w.request, About(None, w.epoch, None)))
  /\ UNCHANGED <<fleet, realm, made>>

StoreConnection(h) ==
  LET w == handler[h] IN
  /\ w.at = "answered" /\ w.op = "complete"
  /\ complete_fleet_connection(h, w.reply, Record(w.subject.attempt, w.reply, w.epoch))
  /\ Done(h)
  /\ UNCHANGED <<calls, realm, made>>

\* pair_outbound: the attempt's id is also the id of the request that completes it.
pair_outbound(h, a, code) ==
  /\ handler[h] = Idle
  /\ attempts[a].mode = "outbound" /\ attempts[a].code = code
  /\ Go(h, Work("pair", "lookup", a, a, [code |-> code, attempt |-> attempts[a]]))
  /\ UNCHANGED <<fleet, calls, realm, made>>

\* The realm learns the connection and a credential, unless the answer is lost.
GrantPairing(h, n, c) ==
  /\ Done(h)
  /\ calls' = calls \cup {Request("consume", handler[h].subject.code, n, None,
                                  About(c, connections'[n].epoch, None))}

\* An attempt that was completed is answered with what is stored.
LookupCompletion(h) ==
  LET w == handler[h] IN
  /\ w.at = "lookup"
  /\ UNCHANGED <<fleet, realm, made>>
  /\ IF fleet_idempotent_resource("connection.complete", w.request) = "completed"
     THEN LET n == receipts[w.request].resource IN GrantPairing(h, n, connections[n].credential)
     ELSE Go(h, [w EXCEPT !.at = "reserve"]) /\ UNCHANGED calls

\* The answer carries the credential made here, whichever record the store returned.
CompletePairing(h) ==
  LET w == handler[h]
      n == made + 1
  IN
  /\ w.at = "reserved" /\ w.op = "pair" /\ n <= MaxCredentials
  /\ made' = n
  /\ complete_fleet_connection(h, n, Record(w.subject.attempt, n, w.epoch))
  /\ IF w.request \in DOMAIN receipts' /\ receipts'[w.request].action = "connection.complete"
     THEN GrantPairing(h, receipts'[w.request].resource, n)
     ELSE Done(h) /\ UNCHANGED calls
  /\ UNCHANGED realm

\* rotate_connection: the connection, then the receipt of the request.
rotate_connection(h, q, n) ==
  /\ handler[h] = Idle /\ connector_connection_usable(connections[n])
  /\ Go(h, Work("rotate", "receipt", q, n, connections[n]))
  /\ UNCHANGED <<fleet, calls, realm, made>>

RotateAtRealm(h, r) ==
  LET w == [handler[h] EXCEPT !.credential = r.credential, !.staged = r.staged] IN
  Ask(h, w, Request("rotate", r.credential, w.target, w.request, About(r.staged, None, None)))

CheckRotationReceipt(h) ==
  LET w == handler[h] IN
  /\ w.at = "receipt"
  /\ CASE fleet_idempotent_resource("connection.rotate_credential", w.request) # "none" ->
            Done(h) /\ UNCHANGED calls
       [] w.subject.rotation = w.request -> RotateAtRealm(h, w.subject)
       [] OTHER -> Go(h, [w EXCEPT !.at = "stage"]) /\ UNCHANGED calls
  /\ UNCHANGED <<fleet, realm, made>>

\* A rotation that is under way is overtaken.
BugStageFleetConnectionCredential(h) ==
  LET w == handler[h]
      n == made + 1
      r == [connections[w.target] EXCEPT !.staged = n, !.rotation = w.request]
  IN
  /\ w.at = "stage" /\ n <= MaxCredentials
  /\ IF connections[w.target].state = "revoked"
     THEN Done(h) /\ UNCHANGED <<connections, calls, made>>
     ELSE connections' = [connections EXCEPT ![w.target] = r] /\ made' = n /\ RotateAtRealm(h, r)
  /\ UNCHANGED <<attempts, receipts, audit, epoch, reserved, realm>>

\* One rotation at a time: the staged credential belongs to the first request.
stage_fleet_connection_credential(h) ==
  LET w == handler[h]
      n == made + 1
      old == connections[w.target]
      r == [old EXCEPT !.staged = n, !.rotation = w.request]
  IN
  /\ w.at = "stage" /\ n <= MaxCredentials
  /\ CASE old.state = "revoked" \/ old.rotation \notin {None, w.request} ->
            Done(h) /\ UNCHANGED <<connections, calls, made>>
       [] old.state # "revoked" /\ old.rotation = w.request ->
            RotateAtRealm(h, old) /\ UNCHANGED <<connections, made>>
       [] old.state # "revoked" /\ old.rotation = None ->
            connections' = [connections EXCEPT ![w.target] = r] /\ made' = n /\ RotateAtRealm(h, r)
  /\ UNCHANGED <<attempts, receipts, audit, epoch, reserved, realm>>

\* The realm may have rotated already: the same call again, with the staged credential.
RetryWithStaged(h) ==
  LET w == handler[h] IN
  /\ w.at = "failed" /\ w.op = "rotate" /\ ~w.second
  /\ Ask(h, [w EXCEPT !.second = TRUE], Request("rotate", w.staged, w.target, w.request,
                                               About(w.staged, None, None)))
  /\ UNCHANGED <<fleet, realm, made>>

StoreRotation(h) ==
  LET w == handler[h] IN
  /\ w.at = "answered" /\ w.op = "rotate"
  /\ rotate_fleet_connection_credential(w.request, w.target)
  /\ Done(h)
  /\ UNCHANGED <<attempts, epoch, reserved, calls, realm, made>>

\* revoke_connection: the realm is told first, and need not answer.
revoke_connection(h, q, n) ==
  LET r == connections[n]
      w == Work("revoke", "answered", q, n, None)
  IN
  /\ handler[h] = Idle
  /\ IF r.state = "revoked" THEN Go(h, w) /\ UNCHANGED calls
     ELSE Ask(h, w, Request("revoke", r.credential, n, q, About(None, None, None)))
  /\ UNCHANGED <<fleet, realm, made>>

StoreRevocation(h) ==
  LET w == handler[h] IN
  /\ w.at \in {"answered", "failed"} /\ w.op = "revoke"
  /\ revoke_fleet_connection(w.request, w.target)
  /\ Done(h)
  /\ UNCHANGED <<attempts, epoch, reserved, calls, realm, made>>

\* execute_realm_mutation and get_realm_operations.
execute_realm_mutation(h, q, n, operation) ==
  /\ handler[h] = Idle /\ connector_connection_usable(connections[n])
  /\ Ask(h, Work("mutate", "await", q, n, operation),
         Request("mutate", connections[n].credential, n, q, About(None, None, operation)))
  /\ UNCHANGED <<fleet, realm, made>>

get_realm_operations(h, n) ==
  /\ handler[h] = Idle /\ connector_connection_usable(connections[n])
  /\ Ask(h, Work("read", "await", None, n, None),
         Request("read", connections[n].credential, n, None, About(None, None, None)))
  /\ UNCHANGED <<fleet, realm, made>>

\* The audit of a mutation; without it the handler fails and observes nothing.
RecordMutation(h) ==
  LET w == handler[h] IN
  /\ w.at = "answered" /\ w.op = "mutate"
  /\ record_fleet_remote_mutation(w.request, w.target, w.subject)
  /\ IF w.request \in DOMAIN receipts' /\ receipts'[w.request].action = w.subject
     THEN Go(h, [w EXCEPT !.at = "recorded"]) ELSE Done(h)
  /\ UNCHANGED <<attempts, connections, epoch, reserved, calls, realm, made>>

Observe(h) ==
  LET w == handler[h] IN
  /\ \/ w.op = "mutate" /\ w.at \in {"recorded", "failed"}
     \/ w.op = "read" /\ w.at \in {"answered", "failed"}
  /\ observe_fleet_connection(w.target, IF w.at = "failed" THEN "degraded" ELSE "healthy")
  /\ Done(h)
  /\ UNCHANGED <<attempts, receipts, audit, epoch, reserved, calls, realm, made>>

\* A call that failed ends the handlers that neither retry nor go on without it.
GiveUp(h) ==
  LET w == handler[h] IN
  /\ w.at = "failed" /\ (w.op = "complete" \/ (w.op = "rotate" /\ w.second))
  /\ Done(h)
  /\ UNCHANGED <<fleet, calls, realm, made>>

HandlerStep(h) ==
  /\ handler[h] # Idle
  /\ \/ ReadEpoch(h) \/ InitializeEpoch(h) \/ IncrementEpoch(h)
     \/ ExchangePairingCode(h) \/ StoreConnection(h)
     \/ LookupCompletion(h) \/ CompletePairing(h)
     \/ CheckRotationReceipt(h) \/ stage_fleet_connection_credential(h)
     \/ RetryWithStaged(h) \/ StoreRotation(h) \/ StoreRevocation(h)
     \/ RecordMutation(h) \/ Observe(h) \/ GiveUp(h)
     \/ Timeout(h) \/ Abandon(h)

Calls(h) ==
  /\ workload.left > 0 /\ workload' = [workload EXCEPT !.left = @ - 1]
  /\ \/ \E q \in workload.requests :
          \/ /\ "complete" \in workload.ops
             /\ \E a \in DOMAIN attempts, code \in DOMAIN pairings : complete_connection(h, q, a, code)
          \/ /\ "rotate" \in workload.ops /\ \E n \in DOMAIN connections : rotate_connection(h, q, n)
          \/ /\ "revoke" \in workload.ops /\ \E n \in DOMAIN connections : revoke_connection(h, q, n)
          \/ /\ "mutate" \in workload.ops
             /\ \E n \in DOMAIN connections, o \in Operations : execute_realm_mutation(h, q, n, o)
     \/ /\ "pair" \in workload.ops
        /\ \E a \in DOMAIN attempts, code \in DOMAIN pairings : pair_outbound(h, a, code)
     \/ /\ "read" \in workload.ops /\ \E n \in DOMAIN connections : get_realm_operations(h, n)

Begin ==
  /\ "begin" \in workload.ops
  /\ \/ create_realm_pairing
     \/ \E a \in DOMAIN attempts : ExpireAttempt(a)
     \/ \E q \in workload.requests, e \in workload.environments, code \in DOMAIN pairings :
          create_fleet_connection_attempt(q, e, workload.mode, code)

Next ==
  \/ \E h \in workload.handlers : Calls(h)
  \/ /\ \/ Begin
        \/ \E h \in workload.handlers : HandlerStep(h)
        \/ \E c \in calls : RealmStep(c) \/ LoseCall(c)
     /\ UNCHANGED workload

Spec == Init /\ [][Next]_vars

-----------------------------------------------------------------------------
(***************************************************************************)
(* Properties.                                                             *)
(***************************************************************************)

\* observe_fleet_connection: "A revoked connection is immutable and cannot be revived by a
\* late response"; nor by a rotation, a retried pairing or a second revocation.
RevokedIsFinal ==
  [][\A n \in DOMAIN connections :
       connections[n].state = "revoked" => n \in DOMAIN connections' /\ connections'[n] = connections[n]]_vars

\* complete_fleet_connection: a realm has at most one live connection in an environment,
\* whatever attempts to connect it run at the same time.
OneLivePerEnvironment ==
  \A m, n \in DOMAIN connections :
    /\ connections[m].environment = connections[n].environment
    /\ connections[m].state # "revoked" /\ connections[n].state # "revoked"
    => m = n

\* reserve_fleet_assignment_epoch: "an epoch is never reused", though it reads, initializes
\* and increments without a lock; and both sides agree on the epoch of a connection.
EpochsNeverReused ==
  /\ \A i, j \in DOMAIN reserved : reserved[i] = reserved[j] => i = j
  /\ \A m, n \in DOMAIN connections : connections[m].epoch = connections[n].epoch => m = n
  /\ \A n \in DOMAIN connections \cap DOMAIN grants : grants[n].epoch = connections[n].epoch

\* While a connection and its grant both stand, Fleet holds the credential that the realm
\* knows, as the active or the staged one, whatever calls of a rotation were lost or late.
CredentialsAgree ==
  \A n \in DOMAIN connections \cap DOMAIN grants :
    connections[n].state # "revoked" /\ ~grants[n].revoked
    => grants[n].digest \in {credential_digest(connections[n].credential),
                             credential_digest(connections[n].staged)}

\* The realm's locators are exactly the current digests of its live grants: a credential
\* that was rotated away or revoked finds no grant.
LocatorsExact ==
  /\ DOMAIN locators = {grants[n].digest : n \in {m \in DOMAIN grants : ~grants[m].revoked}}
  /\ \A d \in DOMAIN locators : grants[locators[d]].digest = d

\* The two sides of a connection agree on its credential, and no other finds the grant.
CredentialsSound == CredentialsAgree /\ LocatorsExact

\* claim_remote_mutation: "concurrent delivery cannot run twice and a reused ID cannot be
\* retargeted to another operation"; what Fleet's audit says was applied, was.
MutationAtMostOnce ==
  /\ \A q \in RequestIds : Len(effects[q]) <= 1
  /\ \A i \in DOMAIN audit, o \in Operations :
       audit[i].action = o => effects[audit[i].request] = <<o>>
=============================================================================
