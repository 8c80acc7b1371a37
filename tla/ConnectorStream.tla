--------------------------- MODULE ConnectorStream ---------------------------
(***************************************************************************)
(* The stream that a private realm opens to Fleet, and the commands that   *)
(* Fleet sends over it (ConnectorHub, connect and run_connector_session of *)
(* telemetry.rs; outbound_command of fleet_rpc.rs).                        *)
(*                                                                         *)
(* A caller puts its command in the bounded channel of the stream that is  *)
(* registered, and waits for the answer.  It may give up at any time: its  *)
(* own client may be gone long before CONNECTOR_TIMEOUT.  Fleet's side of  *)
(* the stream takes from the channel and from the realm; the realm         *)
(* executes one command at a time.  Either side may be gone before the     *)
(* other notices.  A request id is chosen by the caller's client, who may  *)
(* send a command again under the same one.                                *)
(*                                                                         *)
(* Telemetry frames, which share the stream, are in Telemetry; what the    *)
(* commands do is in FleetConnections, and here only that rotating replaces*)
(* the grant's key and that revoking ends the grant.                       *)
(***************************************************************************)
EXTENDS Integers, Sequences, FiniteSets

CONSTANTS
  None,
  Callers,        \* outbound_command calls, each made at most once
  Plans,          \* what callers ask for, and the room: [asks : a function from callers to
                  \* [id, what], room : CONNECTOR_COMMAND_QUEUE]
  ExpiryTime,     \* MANAGEMENT_TIMEOUT, the expiry of all commands but remote mutations
  MaxExpiry,      \* the latest expiry of a remote mutation, which its client chooses
  MaxClock,       \* bound: time
  MaxStreams      \* bound: streams that are opened

VARIABLES
  plan,
  clock,
  caller,         \* the locals of each call
  hub,            \* ConnectorHub::sessions: the stream that is registered, or 0
  streams,        \* each stream: both directions, and the locals of connect
  connection,     \* Fleet's record: the credential, and the staged one or None
  realm,          \* the realm's grant and run_connector_session
  executed        \* history: the commands that the realm started to execute

streamVars == <<plan, clock, caller, hub, streams, connection, realm, executed>>

Away(at) == [at |-> at, stream |-> 0, call |-> None]

StreamInit ==
  /\ plan \in Plans
  /\ clock = 0
  /\ caller = [c \in Callers |-> Away("idle")]
  /\ hub = 0 /\ streams = <<>>
  /\ LET rotates == \E c \in DOMAIN plan.asks : plan.asks[c].what = "rotate"
     IN  connection \in [credential : {1}, staged : {IF rotates THEN 2 ELSE None}, telemetry : BOOLEAN]
  /\ realm \in [key : {1}, revoked : {FALSE}, support : BOOLEAN, session : {0}, executing : {None}]
  /\ executed = {}

-----------------------------------------------------------------------------
(* Frames: an answer is bound to its command by id, capability and expiry, and both are
   signed with the key of the credential. *)

Frame(kind, call, key) ==
  [kind |-> kind, id |-> call.id, what |-> call.what, expires |-> call.expires, key |-> key]

verify_connector_frame(f, key) == f.key = key

validate_connector_expiry(f) == f.expires > clock

validate_bound_signed_frame(f, key) == validate_connector_expiry(f) /\ verify_connector_frame(f, key)

\* Telemetry is what the stream was made for: a connection paired without it gets none.
validate_hello == connection.telemetry

\* The credential and the staged one, while a rotation is under way.
authenticate_connector(key) == key \in {connection.credential, connection.staged}

-----------------------------------------------------------------------------
(* The caller: outbound_command and ConnectorHub::command. *)

Failed(c) == [caller EXCEPT ![c] = Away("failed")]

\* outbound_operational_snapshot, outbound_revoke_connection and outbound_rotate_connection ask
\* for a few seconds; outbound_remote_mutation brings its client's expiry.
Expiries(what) == IF what = "admin" THEN clock + 1 .. MaxExpiry ELSE {clock + ExpiryTime}

\* outbound_rotate_connection also tries the staged credential, outbound_command does not.
SigningKeys(what) ==
  IF what = "rotate" THEN {connection.credential, connection.staged} \ {None} ELSE {connection.credential}

\* The command is made and signed.  Without a registered stream the connector is offline.
Command(c) ==
  \E expires \in Expiries(plan.asks[c].what), key \in SigningKeys(plan.asks[c].what) :
    /\ caller[c].at = "idle"
    /\ caller' = IF hub = 0 THEN Failed(c) ELSE [caller EXCEPT ![c] =
         [at |-> "sending", stream |-> hub,
          call |-> [id |-> plan.asks[c].id, what |-> plan.asks[c].what, expires |-> expires, key |-> key]]]
    /\ UNCHANGED <<plan, clock, hub, streams, connection, realm, executed>>

\* There is room in the channel.
Send(c) ==
  LET s == caller[c].stream
  IN  /\ caller[c].at = "sending" /\ streams[s].open /\ Len(streams[s].queue) < plan.room
      /\ streams' = [streams EXCEPT ![s].queue = Append(@, [caller |-> c, call |-> caller[c].call])]
      /\ caller' = [caller EXCEPT ![c].at = "waiting"]
      /\ UNCHANGED <<plan, clock, hub, connection, realm, executed>>

\* The channel is gone.
SendFails(c) ==
  /\ caller[c].at = "sending" /\ ~streams[caller[c].stream].open
  /\ caller' = Failed(c)
  /\ UNCHANGED <<plan, clock, hub, streams, connection, realm, executed>>

\* One of the two timeouts, or the caller's own client is gone.
GiveUp(c) ==
  /\ caller[c].at \in {"sending", "waiting"}
  /\ caller' = Failed(c)
  /\ UNCHANGED <<plan, clock, hub, streams, connection, realm, executed>>

\* The answer is one for this command, and no error.
Accepted(call, f) ==
  f.id = call.id /\ f.what = call.what /\ f.expires = call.expires /\ f.kind = "result"

-----------------------------------------------------------------------------
(* Fleet's side of a stream: connect. *)

\* Those whose answer nobody can give any more: the response senders are dropped.
Dropped(cs) == [c \in Callers |-> IF c \in cs /\ caller[c].at = "waiting"
                                  THEN Away("failed") ELSE caller[c]]

PendingIds(pending) == {p.id : p \in pending}

\* pending.retain, at the top of the loop.
Retained(pending, callers) == {p \in pending : callers[p.caller].at = "waiting"}

\* The loop breaks or fails, with all that it holds.
Ended(s) ==
  /\ streams' = [streams EXCEPT ![s].open = FALSE, ![s].queue = <<>>, ![s].pending = {},
                                ![s].toRealm = <<>>, ![s].toFleet = <<>>]
  /\ caller' = Dropped({p.caller : p \in streams[s].pending}
                       \cup {streams[s].queue[i].caller : i \in DOMAIN streams[s].queue})
  /\ UNCHANGED <<plan, clock, hub, connection, realm, executed>>

\* commands.recv: too much is pending, or the id is in use, or the command goes out.  The id of
\* a caller who has left since the top of the loop is still in use.
TakeCommand(s) ==
  LET c    == Head(streams[s].queue).caller
      call == Head(streams[s].queue).call
  IN  /\ streams[s].open /\ streams[s].queue # <<>>
      /\ IF call.id \in PendingIds(streams[s].pending) /\ Cardinality(streams[s].pending) < plan.room
         THEN Ended(s)
         ELSE LET full == Cardinality(streams[s].pending) >= plan.room
                  add  == IF full THEN {} ELSE {[id |-> call.id, caller |-> c]}
              IN  /\ caller' = IF full THEN Dropped({c}) ELSE caller
                  /\ streams' = [streams EXCEPT
                       ![s].queue = Tail(@),
                       ![s].pending = Retained(@ \cup add, caller'),
                       ![s].toRealm = IF full THEN @ ELSE Append(@, Frame("command", call, call.key))]
                  /\ UNCHANGED <<plan, clock, hub, connection, realm, executed>>

\* requests.next: an answer for one that is pending; any other ends the stream, one that comes
\* too late included.  An accepted rotation promotes the staged credential.
TakeFrame(s) ==
  LET f  == Head(streams[s].toFleet)
      cs == {p.caller : p \in {q \in streams[s].pending : q.id = f.id}}
      ok == {c \in cs : caller[c].at = "waiting" /\ Accepted(caller[c].call, f)}
  IN  /\ streams[s].open /\ streams[s].toFleet # <<>>
      /\ IF ~validate_bound_signed_frame(f, streams[s].key) \/ cs = {}
         THEN Ended(s)
         ELSE /\ caller' = [c \in Callers |->
                   IF c \in ok THEN [caller[c] EXCEPT !.at = "answered"] ELSE Dropped(cs)[c]]
              /\ streams' = [streams EXCEPT
                   ![s].toFleet = Tail(@),
                   ![s].pending = Retained({p \in @ : p.id # f.id}, caller')]
              /\ connection' = IF f.what = "rotate" /\ ok # {} /\ connection.staged # None
                               THEN [connection EXCEPT !.credential = connection.staged, !.staged = None] ELSE connection
              /\ UNCHANGED <<plan, clock, hub, realm, executed>>

\* requests.next: a heartbeat or a telemetry batch.  The loop drops the callers that have left.
OtherFrame(s) ==
  /\ streams[s].open /\ realm.session = s
  /\ streams' = [streams EXCEPT ![s].pending = Retained(@, caller)]
  /\ UNCHANGED <<plan, clock, caller, hub, connection, realm, executed>>

\* The realm's side ended and all it sent is read; or another stream is registered and nobody
\* holds the sender of this one.
StreamEnds(s) ==
  /\ streams[s].open
  /\ \/ realm.session # s /\ streams[s].toFleet = <<>>
     \/ hub # s /\ streams[s].queue = <<>>
        /\ \A c \in Callers : ~(caller[c].at = "sending" /\ caller[c].stream = s)
  /\ Ended(s)

\* Fleet restarts.
FleetRestarts ==
  /\ hub # 0
  /\ hub' = 0
  /\ streams' = [s \in DOMAIN streams |-> [streams[s] EXCEPT
                   !.open = FALSE, !.queue = <<>>, !.pending = {}, !.toRealm = <<>>, !.toFleet = <<>>]]
  /\ caller' = [c \in Callers |-> IF caller[c].at \in {"sending", "waiting"}
                                  THEN Away("failed") ELSE caller[c]]
  /\ UNCHANGED <<plan, clock, connection, realm, executed>>

-----------------------------------------------------------------------------
(* The realm: run_telemetry_exporter and run_connector_session. *)

\* The realm connects with the proof of its key, and HELLO; Fleet authenticates and registers.
Connect ==
  /\ realm.session = 0 /\ ~realm.revoked /\ Len(streams) < MaxStreams
  /\ authenticate_connector(realm.key) /\ validate_hello
  /\ streams' = Append(streams, [open |-> TRUE, key |-> realm.key, queue |-> <<>>, pending |-> {},
                                 toRealm |-> <<>>, toFleet |-> <<>>])
  /\ hub' = Len(streams')
  /\ realm' = [realm EXCEPT !.session = Len(streams')]
  /\ UNCHANGED <<plan, clock, caller, connection, executed>>

\* The answer is sent; after a rotation, done or refused, the session closes.
BugAnswer(f, kind, next) ==
  LET s == realm.session
  IN  /\ streams' = [streams EXCEPT
           ![s].toRealm = IF realm.executing = None THEN Tail(@) ELSE @,
           ![s].toFleet = IF streams[s].open THEN Append(@, Frame(kind, f, streams[s].key)) ELSE @]
      /\ realm' = [next EXCEPT !.executing = None]

Answer(f, kind, next) ==
  LET s == realm.session
  IN  /\ streams' = [streams EXCEPT
           ![s].toRealm = IF realm.executing = None THEN Tail(@) ELSE @,
           ![s].toFleet = IF streams[s].open THEN Append(@, Frame(kind, f, streams[s].key)) ELSE @]
      /\ realm' = [next EXCEPT !.executing = None, !.session = IF f.what = "rotate" THEN 0 ELSE s]

\* The key is that of the grant when the session began.
validate_realm_command(f) == validate_bound_signed_frame(f, streams[realm.session].key)

\* And the scope of the grant allows it: a mutation needs realm.support.
Permitted(f) == validate_realm_command(f) /\ (f.what = "admin" => realm.support)

execute_connector_command ==
  LET s == realm.session
      f == Head(streams[s].toRealm)
  IN  /\ s # 0 /\ realm.executing = None /\ streams[s].toRealm # <<>>
      /\ IF Permitted(f)
         THEN /\ realm' = [realm EXCEPT !.executing = f]
              /\ streams' = [streams EXCEPT ![s].toRealm = Tail(@)]
              /\ executed' = executed \cup {[call |-> f, key |-> realm.key, late |-> f.expires <= clock]}
         ELSE Answer(f, "error", realm) /\ UNCHANGED executed
      /\ UNCHANGED <<plan, clock, caller, hub, connection>>

\* The command is done, or the store or its handler refuses it.
CommandDone ==
  LET f == realm.executing
  IN  /\ f # None
      /\ \/ Answer(f, "result", [realm EXCEPT !.key = IF f.what = "rotate" THEN 2 ELSE @,
                                              !.revoked = @ \/ f.what = "revoke"])
         \/ Answer(f, "error", realm)
      /\ UNCHANGED <<plan, clock, caller, hub, connection, executed>>

\* The connection breaks or the realm restarts; what was under way is lost in either direction.
SessionBreaks ==
  LET s == realm.session
  IN  /\ s # 0
      /\ realm' = [realm EXCEPT !.session = 0, !.executing = None]
      /\ \E arrives \in {streams[s].toFleet, <<>>} :
           streams' = [streams EXCEPT ![s].toRealm = <<>>, ![s].toFleet = arrives]
      /\ UNCHANGED <<plan, clock, caller, hub, connection, executed>>

StreamTick ==
  /\ clock < MaxClock
  /\ clock' = clock + 1
  /\ UNCHANGED <<plan, caller, hub, streams, connection, realm, executed>>

StreamNext ==
  \/ \E c \in DOMAIN plan.asks : Command(c) \/ Send(c) \/ SendFails(c) \/ GiveUp(c)
  \/ \E s \in DOMAIN streams : TakeCommand(s) \/ TakeFrame(s) \/ OtherFrame(s) \/ StreamEnds(s)
  \/ Connect \/ execute_connector_command \/ CommandDone \/ SessionBreaks
  \/ FleetRestarts \/ StreamTick

StreamSpec == StreamInit /\ [][StreamNext]_streamVars

-----------------------------------------------------------------------------
\* What a caller gets back was computed at the realm for the command it sent: the same
\* request, capability and expiry, though ids are used again and answers outlive their callers.
AnswersAreOwn ==
  \A c \in Callers : caller[c].at = "answered" =>
    \E x \in executed : /\ x.call.id = caller[c].call.id /\ x.call.what = caller[c].call.what
                        /\ x.call.expires = caller[c].call.expires

\* The realm starts no command after its expiry, and none that is signed with a key that a
\* rotation has replaced, whatever was queued for the session before.
StartsInTime == \A x \in executed : ~x.late /\ x.call.key = x.key

\* Nobody waits in vain: who waits is in the channel or pending at a stream that is open; and
\* while both sides are there, the command or its answer is on its way.
OnItsWay(s, id) ==
  \/ \E i \in DOMAIN streams[s].toRealm : streams[s].toRealm[i].id = id
  \/ \E i \in DOMAIN streams[s].toFleet : streams[s].toFleet[i].id = id
  \/ realm.executing # None /\ realm.executing.id = id

NobodyForgotten ==
  \A c \in Callers : caller[c].at = "waiting" =>
    LET s == caller[c].stream
    IN  /\ streams[s].open
        /\ \/ \E i \in DOMAIN streams[s].queue : streams[s].queue[i].caller = c
           \/ /\ \E p \in streams[s].pending : p.caller = c
              /\ realm.session = s => OnItsWay(s, caller[c].call.id)

\* Commands over a connector's stream: answers are their callers' own, commands start in time
\* and under the current key, and every caller hears of its command or of the stream's end.
CommandsSound == AnswersAreOwn /\ StartsInTime /\ NobodyForgotten
=============================================================================
