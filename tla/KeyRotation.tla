---------------------------- MODULE KeyRotation -----------------------------
(***************************************************************************)
(* Signing keys: jwt/ (the stored keyset, staged rotation, the runtime a   *)
(* process signs and publishes with, issuance), and a consumer of tokens   *)
(* that caches the published set.                                          *)
(*                                                                         *)
(* Two processes work on the stored keyset: the server, and a tool run on  *)
(* the host (doctor, keys status, keys rotate, restore), which all begin   *)
(* with a maintenance pass.  A pass holds the maintenance lock, a key with *)
(* a TTL, over its read and its write; a process that crashes leaves the   *)
(* lock behind until the TTL is over.  A pass is taken to end within the   *)
(* TTL of its lock.                                                        *)
(*                                                                         *)
(* A time is kept as what is left until it comes, so that the states are   *)
(* finitely many while time goes on for ever; for the same reason a kid is *)
(* free again once nobody knows the key.                                   *)
(***************************************************************************)
EXTENDS Integers, FiniteSets

CONSTANTS
  Kids,         \* key ids; each generated key takes a fresh one
  MasterKeys,   \* two master keys: the old and the new one
  OldMaster, NewMaster,
  Rotation,     \* rotation_seconds
  Prepublish,   \* prepublish_seconds
  Overlap,      \* overlap_seconds
  Maintenance,  \* maintenance_seconds
  TokenLife,    \* access_token_seconds
  CacheTime,    \* max-age of the JWKS response
  LockTime,     \* TTL of the maintenance lock
  Plans,        \* what may happen in one behaviour: sets of "status", "rotate", "restore"
                \* (tools run on the host), "ring" (the master key is replaced), "die"
  NoKey         \* absent value

VARIABLES
  keyset,       \* auth:jwt:keyset:v1
  lock,         \* auth:jwt:maintenance-lock: holder and time left
  worker,       \* the maintenance pass of each process
  runtime,      \* RuntimeKeySet of the server: what it signs with and publishes
  due,          \* time until the server's next pass
  ring,         \* master keys configured: the active one and the previous ones
  cache,        \* JWKS as a consumer has it, and its age
  tokens,       \* for each key, the time left of the last token it signed
  plan,         \* the one of Plans that is followed
  past          \* keys of recoveries, which sign at once; is all wrapped by the new master key?

keyVars == <<keyset, lock, worker, runtime, due, ring, cache, tokens, plan, past>>

Processes == {"server", "tool"}
Idle      == [at |-> "off", goal |-> "status", forced |-> FALSE, seen |-> NoKey]
Restrict(f, S) == [x \in S |-> f[x]]

-----------------------------------------------------------------------------
(***************************************************************************)
(* The keyset.                                                             *)
(***************************************************************************)

Staged(ks) == IF ks.staged = NoKey THEN {} ELSE {ks.staged.kid}
KidsOf(ks) == {ks.active.kid} \cup Staged(ks) \cup DOMAIN ks.retired

generate(kid) == [kid |-> kid, rest |-> Rotation, wrap |-> ring.active]

Known == (IF keyset = NoKey THEN {} ELSE KidsOf(keyset)) \cup DOMAIN tokens
           \cup (IF runtime = NoKey THEN {} ELSE runtime.jwks)
           \cup (IF cache = NoKey THEN {} ELSE cache.keys)
Fresh == Kids \ Known

\* A kid is a hash; which of the fresh ones it is makes no difference.
FreshKid == IF Fresh = {} THEN {} ELSE {CHOOSE kid \in Fresh : TRUE}

\* rewrap_if_needed, and whether open_private_key can do it.
rewrap_if_needed(key) == [key EXCEPT !.wrap = ring.active]
Opens(key) == key.wrap \in {ring.active} \cup ring.previous
Rewraps(ks) == Opens(ks.active) /\ (ks.staged # NoKey => Opens(ks.staged))

\* validate_keyset: the private keys open and no kid is there twice.
validate_keyset(ks) ==
  /\ Rewraps(ks)
  /\ ks.active.kid \notin DOMAIN ks.retired
  /\ ks.staged # NoKey => ks.staged.kid \notin DOMAIN ks.retired \cup {ks.active.kid}

\* The old public key is dropped at once.
BugActivateStaged(ks, key) == [ks EXCEPT !.active = key, !.staged = NoKey]

activate_staged(ks, key) ==
  [active  |-> key, staged |-> NoKey,
   retired |-> [k \in DOMAIN ks.retired \cup {ks.active.kid} |->
                  IF k = ks.active.kid THEN Overlap ELSE ks.retired[k]]]

Key(staged) == [kid |-> staged.kid, rest |-> staged.rest, wrap |-> staged.wrap]
Stage(key, wait) == [kid |-> key.kid, rest |-> key.rest, wrap |-> key.wrap, wait |-> wait]

\* maintain_keyset.
maintain_keyset(ks, kid, force, immediately) ==
  LET kept == [ks EXCEPT !.retired = Restrict(@, {k \in DOMAIN @ : @[k] > 0}),
                         !.active = rewrap_if_needed(@),
                         !.staged = IF @ = NoKey THEN NoKey ELSE rewrap_if_needed(@)]
      live == IF kept.staged # NoKey /\ kept.staged.wait = 0
              THEN activate_staged(kept, Key(kept.staged)) ELSE kept
  IN  IF immediately THEN activate_staged(kept, generate(kid))
      ELSE IF live.staged = NoKey /\ (force \/ live.active.rest = 0)
           THEN [live EXCEPT !.staged = Stage(generate(kid), Prepublish)]
           ELSE live

runtime_keyset(ks) ==
  [active |-> ks.active.kid, staged |-> Staged(ks),
   jwks   |-> KidsOf(ks) \ {k \in DOMAIN ks.retired : ks.retired[k] = 0}]

-----------------------------------------------------------------------------
KeysInit ==
  /\ keyset = NoKey /\ lock = NoKey /\ runtime = NoKey /\ cache = NoKey
  /\ worker = [p \in Processes |-> Idle]
  /\ due = 0 /\ plan \in Plans
  /\ ring = [active |-> OldMaster, previous |-> {}]
  /\ tokens = [k \in {} |-> 0]
  /\ past = [recovered |-> {}, rewrapped |-> FALSE]

\* Rotating and restoring need the writer lease, which a server holds too.
Leased(goal) == goal \in {"serve", "rotate", "restore"}

\* A process starts with load_or_create: it reads the keyset, and ends if that does not validate.
load_or_create(p, goal) ==
  /\ worker[p].at = "off"
  /\ p = "server" <=> goal = "serve"
  /\ p = "tool" => goal \in plan
  /\ Leased(goal) => \A q \in Processes : worker[q].at = "off" \/ ~Leased(worker[q].goal)
  /\ goal = "restore" => keyset # NoKey /\ past.recovered = {}   \* bound: one recovery at a time
  /\ keyset # NoKey => validate_keyset(keyset)
  /\ worker' = [worker EXCEPT ![p] = [Idle EXCEPT !.goal = goal,
                                        !.at = IF keyset = NoKey THEN "insert" ELSE "pass"]]
  /\ UNCHANGED <<keyset, lock, runtime, due, ring, cache, tokens, plan, past>>

\* load_or_create_keyset when there was none: generate one, SET NX, and take the stored one
\* if that fails.
load_or_create_keyset(p, kid) ==
  /\ worker[p].at = "insert"
  /\ keyset' = IF keyset # NoKey THEN keyset
               ELSE [active |-> generate(kid), staged |-> NoKey, retired |-> [k \in {} |-> 0]]
  /\ worker' = [worker EXCEPT ![p].at = "pass"]
  /\ UNCHANGED <<lock, runtime, due, ring, cache, tokens, plan, past>>

\* What follows a pass: a server serves, a tool that forces a rotation makes a second pass.
After(p, ok) ==
  LET w == worker[p]
  IN  IF p = "server" THEN IF ok \/ runtime # NoKey THEN [Idle EXCEPT !.at = "up", !.goal = "serve"]
                           ELSE Idle
      ELSE IF ok /\ ~w.forced /\ w.goal # "status" THEN [w EXCEPT !.at = "pass", !.forced = TRUE, !.seen = NoKey]
      ELSE Idle

\* The server's runtime becomes that of ks; after an error it keeps the one it has.
Adopt(p, ks, ok) ==
  /\ due' = IF p = "server" THEN Maintenance ELSE due
  /\ IF p = "server" /\ ok
     THEN runtime' = runtime_keyset(ks)
     ELSE UNCHANGED runtime

\* maintain_at, the lock is taken: the keyset is used as it is, and a forced rotation fails.
Busy(p) ==
  /\ worker[p].at = "pass" /\ lock # NoKey
  /\ LET ok == validate_keyset(keyset)
     IN  /\ worker' = [worker EXCEPT ![p] = After(p, ok)]
         /\ Adopt(p, keyset, ok)
  /\ UNCHANGED <<keyset, lock, ring, cache, tokens, plan, past>>

\* The lock is taken over from whoever has it.
BugAcquire(p) ==
  /\ worker[p].at = "pass"
  /\ lock' = [holder |-> p, left |-> LockTime]
  /\ worker' = [worker EXCEPT ![p].at = "read"]
  /\ UNCHANGED <<keyset, runtime, due, ring, cache, tokens, plan, past>>

\* acquire_maintenance_lock: SET NX EX.
acquire_maintenance_lock(p) ==
  /\ worker[p].at = "pass" /\ lock = NoKey
  /\ lock' = [holder |-> p, left |-> LockTime]
  /\ worker' = [worker EXCEPT ![p].at = "read"]
  /\ UNCHANGED <<keyset, runtime, due, ring, cache, tokens, plan, past>>

read_keyset(p) ==
  /\ worker[p].at = "read"
  /\ worker' = [worker EXCEPT ![p].at = "write", ![p].seen = keyset]
  /\ UNCHANGED <<keyset, lock, runtime, due, ring, cache, tokens, plan, past>>

\* maintain_while_locked after its read, then release_maintenance_lock (DELIFEQ).
maintain_while_locked(p, kid) ==
  /\ worker[p].at = "write"
  /\ LET w    == worker[p]
         next == maintain_keyset(w.seen, kid, w.forced, w.forced /\ w.goal = "restore")
         ok   == Rewraps(w.seen) /\ validate_keyset(next)
     IN  /\ keyset' = IF ok THEN next ELSE keyset
         /\ worker' = [worker EXCEPT ![p] = After(p, ok)]
         /\ past' = IF ~ok THEN past ELSE
              [past EXCEPT !.recovered = (IF w.forced /\ w.goal = "restore" THEN @ \cup {next.active.kid}
                                          ELSE @) \cap KidsOf(next),
                           !.rewrapped = @ \/ ring.active = NewMaster]
         /\ Adopt(p, next, ok)
  /\ lock' = IF lock # NoKey /\ lock.holder = p THEN NoKey ELSE lock
  /\ UNCHANGED <<ring, cache, tokens, plan>>

\* run_maintenance: the interval of the running server.
Interval ==
  /\ worker["server"].at = "up" /\ due = 0
  /\ worker' = [worker EXCEPT !["server"].at = "pass"]
  /\ UNCHANGED <<keyset, lock, runtime, due, ring, cache, tokens, plan, past>>

\* The server is stopped or crashes, or a tool dies, wherever it is.
Die(p) ==
  /\ "die" \in plan /\ worker[p].at # "off"
  /\ worker' = [worker EXCEPT ![p] = Idle]
  /\ IF p = "server" THEN runtime' = NoKey /\ due' = 0 ELSE UNCHANGED <<runtime, due>>
  /\ UNCHANGED <<keyset, lock, ring, cache, tokens, plan, past>>

\* issue and issue_service_account: sign with the runtime's active key.
Issue ==
  /\ runtime # NoKey
  /\ tokens' = [k \in DOMAIN tokens \cup {runtime.active} |->
                  IF k = runtime.active THEN TokenLife ELSE tokens[k]]
  /\ UNCHANGED <<keyset, lock, worker, runtime, due, ring, cache, plan, past>>

\* GET jwks: kept by the consumer for max-age.
Fetch ==
  /\ runtime # NoKey
  /\ cache' = [keys |-> runtime.jwks, age |-> 0]
  /\ UNCHANGED <<keyset, lock, worker, runtime, due, ring, tokens, plan, past>>

\* The operator adds a master key, and removes the old one once `keys status` works.
ChangeRing ==
  /\ "ring" \in plan
  /\ \A p \in Processes : worker[p].at = "off"
  /\ \/ ring.active = OldMaster /\ ring' = [active |-> NewMaster, previous |-> {OldMaster}]
     \/ past.rewrapped /\ ring' = [ring EXCEPT !.previous = {}]
  /\ UNCHANGED <<keyset, lock, worker, runtime, due, cache, tokens, plan, past>>

\* A pass takes no time on this clock; a lock that was left behind expires, an expired token
\* and a JWKS older than its max-age are of no use any more.
Less(n) == IF n > 0 THEN n - 1 ELSE 0

Elapse(ks) ==
  [active  |-> [ks.active EXCEPT !.rest = Less(@)],
   staged  |-> IF ks.staged = NoKey THEN NoKey
               ELSE [ks.staged EXCEPT !.rest = Less(@), !.wait = Less(@)],
   retired |-> [k \in DOMAIN ks.retired |-> Less(ks.retired[k])]]

KeyTick ==
  /\ \A p \in Processes : worker[p].at \in {"off", "up"}
  /\ worker["server"].at = "up" => due > 0
  /\ keyset' = IF keyset = NoKey THEN NoKey ELSE Elapse(keyset)
  /\ due' = Less(due)
  /\ lock' = IF lock = NoKey \/ lock.left = 1 THEN NoKey ELSE [lock EXCEPT !.left = @ - 1]
  /\ cache' = IF cache = NoKey \/ cache.age + 1 = CacheTime THEN NoKey
              ELSE [cache EXCEPT !.age = @ + 1]
  /\ tokens' = [k \in {j \in DOMAIN tokens : tokens[j] > 1} |-> tokens[k] - 1]
  /\ UNCHANGED <<worker, runtime, ring, plan, past>>

PassStep(p) ==
  \/ \E goal \in {"serve", "status", "rotate", "restore"} : load_or_create(p, goal)
  \/ \E kid \in FreshKid : load_or_create_keyset(p, kid) \/ maintain_while_locked(p, kid)
  \/ Busy(p) \/ acquire_maintenance_lock(p) \/ read_keyset(p) \/ Die(p)

KeysNext ==
  \/ \E p \in Processes : PassStep(p)
  \/ Interval \/ Issue \/ Fetch \/ ChangeRing \/ KeyTick

KeysSpec == KeysInit /\ [][KeysNext]_keyVars

-----------------------------------------------------------------------------
\* A consumer whose JWKS is no older than its max-age can verify every token that has not
\* expired, across staging, activation and retirement by either process, restarts, and
\* rotations forced while the server is down (the new key of a recovery excepted, which
\* signs at once).
CachesSuffice ==
  cache # NoKey => DOMAIN tokens \ past.recovered \subseteq cache.keys

\* No maintenance pass undoes another one: a key that verifies a token, or that the server
\* has announced as its next one, is in the stored keyset, so that the next pass and the
\* next start of the server publish it.
PublishedKeysKept ==
  keyset # NoKey =>
    /\ DOMAIN tokens \subseteq KidsOf(keyset)
    /\ runtime # NoKey => {runtime.active} \cup runtime.staged \subseteq KidsOf(keyset)

\* The stored keyset validates with the master keys that are configured, while a master key
\* is replaced as the configuration guide says: every pass rewraps what it keeps.
KeysetOpens == keyset # NoKey => validate_keyset(keyset)

\* What the next start of the server loads verifies what was signed and can be opened.
KeysetSound == PublishedKeysKept /\ KeysetOpens
=============================================================================
