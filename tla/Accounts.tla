------------------------------ MODULE Accounts ------------------------------
(***************************************************************************)
(* Accounts and the one-time state around them: store/users/, ceremonies,  *)
(* invitations, recovery, verification and credentials of store/, and the  *)
(* handlers of auth/ and identity_rpc/ that use them.                      *)
(*                                                                         *)
(* An account is one JSON record that every writer reads, changes and      *)
(* writes back whole under the mutation lock: such an operation is one     *)
(* step.  Ceremonies and challenges are taken with GETDEL before the lock, *)
(* so a handler that takes one is (at least) two steps and may be dropped  *)
(* between them.  An options handler only reads before it saves a ceremony *)
(* under a fresh random id, and everything it read is read again when the  *)
(* ceremony is completed: it is one step.                                  *)
(*                                                                         *)
(* The age of sessions and how recent a passkey is are in module Sessions. *)
(***************************************************************************)
EXTENDS Integers, Sequences, FiniteSets

CONSTANTS
  Users, Emails, Phones, Credentials,
  Invitations,      \* ids of invitations; the digest of a code names its invitation
  Ceremonies,       \* ids of registration and authentication ceremonies
  Challenges,       \* ids of verification challenges
  SessionIds,
  RecoveryCodes,    \* raw recovery codes; a rotation draws CodeCount fresh ones
  CodeCount,        \* RECOVERY_CODE_COUNT
  MaxIdentifiers,   \* MAX_IDENTIFIERS
  MaxVersion,       \* bound on session_version
  Handlers,         \* requests between two of their steps
  Workloads,        \* [ops, start, required, counter]: see Init
  None

Identifiers == Emails \cup Phones

ASSUME AccountConstants ==
  /\ Emails \cap Phones = {}
  /\ CodeCount \in Nat \ {0} /\ MaxIdentifiers \in Nat \ {0}
  /\ MaxVersion \in Nat
  /\ None \notin Users \cup Identifiers \cup Credentials \cup Invitations \cup SessionIds

VARIABLES
  workload,     \* which operations clients perform, fixed at the start
  users,        \* auth:user:<id>
  identifierOf, \* auth:identifier:<kind>:<value> -> user id
  emailOf,      \* auth:email:<value> -> user id, the legacy index
  credentialOf, \* auth:credential:<id> -> user id
  invitations,  \* auth:invitation:<id>
  codeOf,       \* the invitations whose code key exists
  ceremonies,   \* auth:registration:<id> and auth:authentication:<id>
  challenges,   \* auth:identifier-verification:<id>
  sessions,     \* auth:session:<digest>
  handlers,     \* locals of the requests in progress
  history       \* what happened; see Init

indexes == <<identifierOf, emailOf, credentialOf>>
tickets == <<invitations, codeOf, ceremonies, challenges>>
vars    == <<workload, users, indexes, tickets, sessions, handlers, history>>

Empty         == [x \in {} |-> None]
With(f, x, v) == [y \in DOMAIN f \cup {x} |-> IF y = x THEN v ELSE f[y]]
Without(f, S) == [y \in DOMAIN f \ S |-> f[y]]
Values(ids)   == {ids[n].value : n \in DOMAIN ids}

Does(op) == op \in workload.ops

\* identity_verification_required: TRUE in production.
Required == workload.required

Idle == [at |-> "idle", user |-> None, cred |-> None, ceremony |-> None, counter |-> 0,
         version |-> 0, identifier |-> None, invitation |-> None, challenge |-> None, late |-> FALSE]

-----------------------------------------------------------------------------
(***************************************************************************)
(* One account record.                                                     *)
(***************************************************************************)

NewIdentifier(i, verified, primary) == [value |-> i, verified |-> verified, primary |-> primary]
NewPasskey(counter) == [counter |-> counter, label |-> "given"]

\* sync_legacy_email: the primary email, else the oldest one.
sync_legacy_email(r) ==
  LET mails   == SelectSeq(r.identifiers, LAMBDA i : i.value \in Emails)
      primary == SelectSeq(mails, LAMBDA i : i.primary)
      first   == (primary \o mails)[1]
  IN  IF mails = <<>> THEN [r EXCEPT !.email = None, !.emailVerified = FALSE]
      ELSE [r EXCEPT !.email = first.value, !.emailVerified = first.verified]

\* The first lines of normalize_and_validate: a record from before identifiers existed.
Hydrated(r) ==
  IF r.identifiers = <<>> /\ r.email # None
  THEN [r EXCEPT !.identifiers = <<NewIdentifier(r.email, r.emailVerified, TRUE)>>] ELSE r

\* What normalize_and_validate refuses to load (recovery digests are a set here).
normalize_and_validate(r) ==
  /\ r.identifiers # <<>> /\ Len(r.identifiers) <= MaxIdentifiers
  /\ Cardinality(Values(r.identifiers)) = Len(r.identifiers)
  /\ Cardinality({n \in DOMAIN r.identifiers : r.identifiers[n].primary}) = 1

\* Store::user: the record of u as the code works on it.
user(u) == sync_legacy_email(Hydrated(users[u]))

\* Store::user answers, neither None nor an error.
Loads(u) == u \in DOMAIN users /\ normalize_and_validate(Hydrated(users[u]))

\* Store::user_by_identifier: the legacy index answers only for emails.
user_by_identifier(i) ==
  IF i \in DOMAIN identifierOf THEN identifierOf[i]
  ELSE IF i \in DOMAIN emailOf THEN emailOf[i] ELSE None

Save(u, r) == users' = With(users, u, r)

End(h) == handlers' = [handlers EXCEPT ![h] = Idle]

Remember(field, entry) == [history EXCEPT ![field] = @ \cup {entry}]

-----------------------------------------------------------------------------
(***************************************************************************)
(* Init.  A run starts with no account, with an account written before     *)
(* identifiers existed (an email and the legacy index only), or with one   *)
(* or two accounts; each of them has a session.                            *)
(***************************************************************************)

StartAccounts(w) == CASE w.start = "empty" -> {} [] w.start = "pair" -> {1, 2} [] OTHER -> {1}

\* The account, address, passkey or session of the n-th account at the start.
Of(S, n) ==
  LET first == CHOOSE x \in S : TRUE
  IN  IF n = 1 THEN first ELSE CHOOSE x \in S \ {first} : TRUE

StartIndex(S, w) ==
  [x \in {Of(S, n) : n \in StartAccounts(w)} |->
     Of(Users, CHOOSE n \in StartAccounts(w) : Of(S, n) = x)]

StartRecord(n, w) ==
  [identifiers |-> IF w.start = "legacy" THEN <<>> ELSE <<NewIdentifier(Of(Emails, n), TRUE, TRUE)>>,
   email |-> Of(Emails, n), emailVerified |-> TRUE, profile |-> "given",
   passkeys |-> [c \in {Of(Credentials, n)} |-> NewPasskey(0)], version |-> 1, codes |-> {}]

Init ==
  /\ workload \in Workloads
  /\ LET all == StartAccounts(workload)
         owner(S) == StartIndex(S, workload)
     IN  /\ users = [u \in {Of(Users, n) : n \in all} |->
                       StartRecord(CHOOSE n \in all : Of(Users, n) = u, workload)]
         /\ identifierOf = IF workload.start = "legacy" THEN Empty ELSE owner(Emails)
         /\ emailOf = owner(Emails)
         /\ credentialOf = owner(Credentials)
         /\ sessions = [s \in DOMAIN owner(SessionIds) |->
              [user |-> owner(SessionIds)[s], version |-> 1,
               cred |-> CHOOSE c \in DOMAIN credentialOf : credentialOf[c] = owner(SessionIds)[s]]]
  /\ invitations = Empty /\ codeOf = {} /\ ceremonies = Empty /\ challenges = Empty
  /\ handlers = [h \in Handlers |-> Idle]
  /\ history =
       [spent    |-> DOMAIN sessions \cup DOMAIN users,  \* random ids and codes ever drawn
        effects  |-> {},   \* <<ceremony, what its completion did, to what>>
        enrolled |-> {},   \* <<invitation, user>>
        asserted |-> {},   \* <<passkey, counter>> accepted since the passkey was registered
        replayed |-> {},   \* those accepted twice
        proven   |-> {<<emailOf[e], e>> : e \in DOMAIN emailOf},
        retired  |-> {},   \* recovery codes used, replaced or cleared
        ended    |-> {}]   \* sessions a completed recovery ended

Fresh(S) == {x \in S : x \notin history.spent}

\* ids are random: one of the fresh ones stands for all.
Draw(S) == CHOOSE x \in Fresh(S) : TRUE

-----------------------------------------------------------------------------
(***************************************************************************)
(* Identifiers and profile: auth/account.rs and identity_rpc/service.rs    *)
(* (the owner, or an operator, whose requests add unverified identifiers)  *)
(* over store/users/.                                                      *)
(***************************************************************************)

\* The new address is not written to the index that lookups read.
BugAddIdentifier(u, i, verified) ==
  /\ Does("addIdentifier") /\ user_by_identifier(i) = None /\ Loads(u)
  /\ Len(user(u).identifiers) < MaxIdentifiers
  /\ Save(u, [user(u) EXCEPT !.identifiers = Append(@, NewIdentifier(i, verified, FALSE))])
  /\ UNCHANGED <<workload, indexes, tickets, sessions, handlers, history>>

AddIdentifier(u, i, verified) ==
  /\ Does("addIdentifier")
  /\ user_by_identifier(i) = None
  /\ Loads(u)
  /\ Len(user(u).identifiers) < MaxIdentifiers
  /\ Save(u, sync_legacy_email(
               [user(u) EXCEPT !.identifiers = Append(@, NewIdentifier(i, verified, FALSE))]))
  /\ identifierOf' = With(identifierOf, i, u)
  /\ emailOf' = IF i \in Emails THEN With(emailOf, i, u) ELSE emailOf
  /\ UNCHANGED <<workload, credentialOf, tickets, sessions, handlers, history>>

RemoveIdentifier(u, i) ==
  /\ Does("removeIdentifier")
  /\ Loads(u)
  /\ Len(user(u).identifiers) > 1                     \* FinalIdentifier
  /\ i \in Values(user(u).identifiers)                \* IdentifierNotLinked
  /\ LET rest == SelectSeq(user(u).identifiers, LAMBDA x : x.value # i)
         kept == IF \E n \in DOMAIN rest : rest[n].primary THEN rest
                 ELSE [rest EXCEPT ![1].primary = TRUE]
     IN  Save(u, sync_legacy_email([user(u) EXCEPT !.identifiers = kept]))
  /\ identifierOf' = Without(identifierOf, {i})
  /\ emailOf' = Without(emailOf, {i})
  /\ UNCHANGED <<workload, credentialOf, tickets, sessions, handlers, history>>

SetPrimaryIdentifier(u, i) ==
  /\ Does("setPrimary")
  /\ Loads(u) /\ i \in Values(user(u).identifiers)
  /\ LET ids == user(u).identifiers
     IN  Save(u, sync_legacy_email([user(u) EXCEPT !.identifiers =
           [n \in DOMAIN ids |-> [ids[n] EXCEPT !.primary = ids[n].value = i]]]))
  /\ UNCHANGED <<workload, indexes, tickets, sessions, handlers, history>>

\* set_identifier_verification applied to the record of u.
Marked(u, i, verified) ==
  LET ids == user(u).identifiers
  IN  sync_legacy_email([user(u) EXCEPT !.identifiers =
        [n \in DOMAIN ids |-> IF ids[n].value = i THEN [ids[n] EXCEPT !.verified = verified]
                              ELSE ids[n]]])

\* identity_rpc: an operator vouches for an identifier, or withdraws it.
rpc_set_identifier_verification(u, i, verified) ==
  /\ Does("operatorVerify")
  /\ Loads(u) /\ i \in Values(user(u).identifiers)
  /\ Save(u, Marked(u, i, verified))
  /\ history' = IF verified THEN Remember("proven", <<u, i>>) ELSE history
  /\ UNCHANGED <<workload, indexes, tickets, sessions, handlers>>

UpdateProfile(u) ==
  /\ Does("profile") /\ Loads(u)
  /\ Save(u, [user(u) EXCEPT !.profile = "changed"])
  /\ UNCHANGED <<workload, indexes, tickets, sessions, handlers, history>>

RenamePasskey(u, c) ==
  /\ Does("profile") /\ Loads(u) /\ c \in DOMAIN user(u).passkeys
  /\ Save(u, [user(u) EXCEPT !.passkeys[c].label = "renamed"])
  /\ UNCHANGED <<workload, indexes, tickets, sessions, handlers, history>>

RevokePasskey(u, c) ==
  /\ Does("revokePasskey") /\ Loads(u)
  /\ Cardinality(DOMAIN user(u).passkeys) > 1         \* FinalCredential
  /\ c \in DOMAIN user(u).passkeys
  /\ Save(u, [user(u) EXCEPT !.passkeys = Without(@, {c})])
  /\ credentialOf' = Without(credentialOf, {c})
  /\ UNCHANGED <<workload, identifierOf, emailOf, tickets, sessions, handlers, history>>

\* auth/guard.rs `authenticated`: session_verdict (see Sessions) on what is stored now.
Authenticated(s) ==
  /\ s \in DOMAIN sessions /\ Loads(sessions[s].user)
  /\ sessions[s].version = users[sessions[s].user].version
  /\ sessions[s].cred # None => sessions[s].cred \in DOMAIN users[sessions[s].user].passkeys

\* require_passkey_session and require_recent_passkey: not a session of a local agent.
Passkeyed(s) == Authenticated(s) /\ sessions[s].cred # None

\* auth/account.rs and auth/credentials.rs: the owner, through a session made with a passkey.
account_add_identifier(s, i)    == Passkeyed(s) /\ AddIdentifier(sessions[s].user, i, ~Required)
account_remove_identifier(s, i) == Passkeyed(s) /\ RemoveIdentifier(sessions[s].user, i)
account_set_primary(s, i)       == Passkeyed(s) /\ SetPrimaryIdentifier(sessions[s].user, i)
account_update_profile(s)       == Passkeyed(s) /\ UpdateProfile(sessions[s].user)
rename_credential(s, c)         == Passkeyed(s) /\ RenamePasskey(sessions[s].user, c)
revoke_credential(s, c)         == Passkeyed(s) /\ RevokePasskey(sessions[s].user, c)

\* identity_rpc/service.rs: an operator (who may touch whom is in module Operators).
rpc_add_identifier(u, i)         == AddIdentifier(u, i, FALSE)
rpc_remove_identifier(u, i)      == RemoveIdentifier(u, i)
rpc_set_primary_identifier(u, i) == SetPrimaryIdentifier(u, i)
rpc_update_profile(u)            == UpdateProfile(u)
rpc_rename_passkey(u, c)         == RenamePasskey(u, c)
rpc_revoke_passkey(u, c)         == RevokePasskey(u, c)

-----------------------------------------------------------------------------
(***************************************************************************)
(* Invitations: store/invitations.rs.                                      *)
(***************************************************************************)

validate_invitation_record(v, i) ==
  /\ invitations[v].identifier = i
  /\ ~invitations[v].expired /\ ~invitations[v].consumed /\ ~invitations[v].revoked

\* The claim of a ceremony, or of a code: the code key still leads to a valid record.
Claimable(v, i) == v \in DOMAIN invitations /\ v \in codeOf /\ validate_invitation_record(v, i)

CreateInvitation(i) ==
  /\ Does("invite") /\ Fresh(Invitations) # {}
  /\ user_by_identifier(i) = None
  /\ LET v == Draw(Invitations)
     IN  /\ invitations' = With(invitations, v, [identifier |-> i, expired |-> FALSE,
                                                consumed |-> FALSE, revoked |-> FALSE])
         /\ codeOf' = codeOf \cup {v}
         /\ history' = Remember("spent", v)
  /\ UNCHANGED <<workload, users, indexes, ceremonies, challenges, sessions, handlers>>

RevokeInvitation(v) ==
  /\ Does("revokeInvitation")
  /\ v \in DOMAIN invitations /\ ~invitations[v].consumed
  /\ invitations' = [invitations EXCEPT ![v].revoked = TRUE]
  /\ codeOf' = codeOf \ {v}
  /\ UNCHANGED <<workload, users, indexes, ceremonies, challenges, sessions, handlers, history>>

ExpireInvitation(v) ==
  /\ Does("expire") /\ v \in DOMAIN invitations
  /\ invitations' = [invitations EXCEPT ![v].expired = TRUE]
  /\ UNCHANGED <<workload, users, indexes, codeOf, ceremonies, challenges, sessions, handlers,
                 history>>

-----------------------------------------------------------------------------
(***************************************************************************)
(* Ceremonies.                                                             *)
(***************************************************************************)

NewCeremony(purpose, u) ==
  [purpose |-> purpose, user |-> u, session |-> None, identifier |-> None, invitation |-> None,
   allowed |-> {}]

\* save_registration and save_authentication, under a fresh id, with ids drawn on the way.
SaveCeremony(ceremony, drawn) ==
  /\ Fresh(Ceremonies) # {}
  /\ ceremonies' = With(ceremonies, Draw(Ceremonies), ceremony)
  /\ history' = [history EXCEPT !.spent = @ \cup drawn \cup {Draw(Ceremonies)}]

\* auth/registration.rs registration_options; v = None is the development path.
RegistrationOptions(i, v) ==
  /\ Does("register") /\ Fresh(Users) # {}
  /\ IF v = None THEN ~Required ELSE Claimable(v, i)
  /\ user_by_identifier(i) = None
  /\ SaveCeremony([NewCeremony("initial", Draw(Users)) EXCEPT !.identifier = i, !.invitation = v],
                  {Draw(Users)})
  /\ UNCHANGED <<workload, users, indexes, invitations, codeOf, challenges, sessions, handlers>>

\* auth/credentials.rs add_registration_options.
AddRegistrationOptions(s) ==
  /\ Does("addPasskey") /\ Passkeyed(s)
  /\ SaveCeremony([NewCeremony("add", sessions[s].user) EXCEPT !.session = s], {})
  /\ UNCHANGED <<workload, users, indexes, invitations, codeOf, challenges, sessions, handlers>>

\* auth/authentication.rs authentication_options.
AuthenticationOptions(i) ==
  /\ Does("signIn") /\ Loads(user_by_identifier(i))
  /\ LET u == user_by_identifier(i)
     IN  SaveCeremony([NewCeremony("signIn", u) EXCEPT !.allowed = DOMAIN user(u).passkeys], {})
  /\ UNCHANGED <<workload, users, indexes, invitations, codeOf, challenges, sessions, handlers>>

\* auth/session.rs step_up_options.
StepUpOptions(s) ==
  /\ Does("stepUp") /\ Passkeyed(s)
  /\ LET u == sessions[s].user
     IN  SaveCeremony([NewCeremony("stepUp", u) EXCEPT !.session = s,
                                                      !.allowed = DOMAIN user(u).passkeys], {})
  /\ UNCHANGED <<workload, users, indexes, invitations, codeOf, challenges, sessions, handlers>>

ConsumeRecoveryCode(h, i, code) ==
  /\ Does("recover") /\ handlers[h] = Idle
  /\ LET u == user_by_identifier(i)
     IN  /\ Loads(u) /\ code \in user(u).codes
         /\ Save(u, [user(u) EXCEPT !.codes = @ \ {code}])
         /\ handlers' = [handlers EXCEPT ![h] = [Idle EXCEPT !.at = "saveRecovery", !.user = u]]
  /\ history' = Remember("retired", code)
  /\ UNCHANGED <<workload, indexes, tickets, sessions>>

\* The rest of recovery_options.
SaveRecovery(h) ==
  /\ handlers[h].at = "saveRecovery"
  /\ SaveCeremony(NewCeremony("recover", handlers[h].user), {})
  /\ handlers' = [handlers EXCEPT ![h] = Idle]
  /\ UNCHANGED <<workload, users, indexes, invitations, codeOf, challenges, sessions>>

\* The checks of the five verify handlers on the ceremony that was taken, for the
\* session s that calls (None where the handler asks for no session).
Accepts(endpoint, s, c) ==
  /\ ceremonies[c].purpose = endpoint
  /\ ceremonies[c].session = s
  /\ s # None => ceremonies[c].user = sessions[s].user
  /\ endpoint = "initial" => ceremonies[c].invitation # None \/ ~Required

\* The ceremony is read and stays; the handler deletes nothing.
BugTake(h, endpoint, s, c, k, n) ==
  /\ handlers[h] = Idle /\ Accepts(endpoint, s, c) /\ k # None
  /\ handlers' = [handlers EXCEPT ![h] =
       [Idle EXCEPT !.at = endpoint, !.user = ceremonies[c].user, !.cred = k, !.ceremony = c,
                    !.counter = n, !.identifier = ceremonies[c].identifier,
                    !.invitation = ceremonies[c].invitation]]
  /\ UNCHANGED <<workload, users, indexes, tickets, sessions, history>>

\* The first step of a verify handler: GETDEL of the ceremony, its checks, and the
\* authenticator's answer: passkey k with counter n, or None when it does not verify.
Take(h, endpoint, s, c, k, n) ==
  /\ handlers[h] = Idle
  /\ ceremonies' = Without(ceremonies, {c})
  /\ handlers' = IF ~Accepts(endpoint, s, c) \/ k = None THEN handlers
                 ELSE [handlers EXCEPT ![h] =
                        [Idle EXCEPT !.at = endpoint, !.user = ceremonies[c].user, !.cred = k,
                                     !.ceremony = c, !.counter = n,
                                     !.identifier = ceremonies[c].identifier,
                                     !.invitation = ceremonies[c].invitation]]
  /\ UNCHANGED <<workload, users, indexes, invitations, codeOf, challenges, sessions, history>>

\* registration_verify, recovery_verify and add_registration_verify.
registration_verify(h, c, k, n) ==
  /\ ceremonies[c].purpose \in {"initial", "add", "recover"}
  /\ Take(h, "initial", None, c, k, n)

recovery_verify(h, c, k, n) ==
  /\ ceremonies[c].purpose \in {"initial", "add", "recover"}
  /\ Take(h, "recover", None, c, k, n)

add_registration_verify(h, s, c, k, n) ==
  /\ ceremonies[c].purpose \in {"initial", "add", "recover"}
  /\ Passkeyed(s)
  /\ Take(h, "add", s, c, k, n)

authentication_verify(h, c, k, n) ==
  /\ ceremonies[c].purpose \in {"signIn", "stepUp"}
  /\ k \in ceremonies[c].allowed \cup {None}
  /\ Take(h, "signIn", None, c, k, n)

step_up_verify(h, s, c, k, n) ==
  /\ ceremonies[c].purpose \in {"signIn", "stepUp"}
  /\ Passkeyed(s)
  /\ k \in ceremonies[c].allowed \cup {None}
  /\ Take(h, "stepUp", s, c, k, n)

\* The command line makes a one-use code for an account, in development only.
CreateHandoff(e) ==
  /\ Does("handoff") /\ ~Required /\ Loads(user_by_identifier(e))
  /\ SaveCeremony(NewCeremony("agent", user_by_identifier(e)), {})
  /\ UNCHANGED <<workload, users, indexes, invitations, codeOf, challenges, sessions, handlers>>

\* local_agent_handoff: GETDEL of the code, then the account is read, then a session is made.
local_agent_handoff(h, c) ==
  /\ ceremonies[c].purpose = "agent"
  /\ Take(h, "agent", None, c, "code", 0)

ReadAgentAccount(h) ==
  /\ handlers[h].at = "agent"
  /\ LET u == handlers[h].user
     IN  IF ~Loads(u) THEN End(h) /\ UNCHANGED history
         ELSE /\ handlers' = [handlers EXCEPT ![h].at = "session", ![h].cred = None,
                                              ![h].version = user(u).version]
              /\ history' = Remember("effects", <<handlers[h].ceremony, "agent", h>>)
  /\ UNCHANGED <<workload, users, indexes, tickets, sessions>>

\* The key's TTL, which is also the expires_at the take checks.
ExpireCeremony(c) ==
  /\ Does("expire")
  /\ ceremonies' = Without(ceremonies, {c})
  /\ UNCHANGED <<workload, users, indexes, invitations, codeOf, challenges, sessions, handlers,
                 history>>

-----------------------------------------------------------------------------
(***************************************************************************)
(* Completing a ceremony, under the mutation lock.                         *)
(***************************************************************************)

\* A registration starts the counter of its passkey afresh.
Registered(h) ==
  {a \in history.asserted : a[1] # handlers[h].cred}
    \cup {a \in {<<handlers[h].cred, handlers[h].counter>>} : a[2] > 0}

\* The account that holds i or k already, or an invitation that is no longer good.
Refused(h) ==
  \/ user_by_identifier(handlers[h].identifier) # None
  \/ handlers[h].cred \in DOMAIN credentialOf
  \/ /\ handlers[h].invitation # None
     /\ ~Claimable(handlers[h].invitation, handlers[h].identifier)

\* create_user_with_passkey, in registration_verify.
CreateUser(h) ==
  /\ handlers[h].at = "initial"
  /\ LET u == handlers[h].user
         i == handlers[h].identifier
         k == handlers[h].cred
         v == handlers[h].invitation
     IN  IF Refused(h) THEN End(h) /\ UNCHANGED <<users, indexes, invitations, codeOf, history>>
         ELSE
         /\ Save(u, [identifiers |-> <<NewIdentifier(i, ~Required, TRUE)>>,
                     email |-> IF i \in Emails THEN i ELSE None,
                     emailVerified |-> i \in Emails /\ ~Required, profile |-> "given",
                     passkeys |-> [x \in {k} |-> NewPasskey(handlers[h].counter)], version |-> 1,
                     codes |-> {}])
         /\ identifierOf' = With(identifierOf, i, u)
         /\ credentialOf' = With(credentialOf, k, u)
         /\ emailOf' = IF i \in Emails THEN With(emailOf, i, u) ELSE emailOf
         /\ invitations' = IF v = None THEN invitations
                           ELSE [invitations EXCEPT ![v].consumed = TRUE]
         /\ codeOf' = codeOf \ {v}
         /\ handlers' = [handlers EXCEPT ![h].at = "session", ![h].version = 1]
         /\ history' = [history EXCEPT
              !.effects = @ \cup {<<handlers[h].ceremony, "initial", u>>},
              !.enrolled = IF v = None THEN @ ELSE @ \cup {<<v, u>>},
              !.asserted = Registered(h),
              !.proven = IF Required THEN @ ELSE @ \cup {<<u, i>>}]
  /\ UNCHANGED <<workload, ceremonies, challenges, sessions>>

\* add_passkey, in add_registration_verify.
AddPasskey(h) ==
  /\ handlers[h].at = "add"
  /\ LET u == handlers[h].user
         k == handlers[h].cred
     IN  IF ~Loads(u) \/ k \in DOMAIN credentialOf THEN UNCHANGED <<users, credentialOf, history>>
         ELSE /\ Save(u, [user(u) EXCEPT !.passkeys = With(@, k, NewPasskey(handlers[h].counter))])
              /\ credentialOf' = With(credentialOf, k, u)
              /\ history' = [history EXCEPT
                   !.effects = @ \cup {<<handlers[h].ceremony, "add", k>>},
                   !.asserted = Registered(h)]
  /\ End(h)
  /\ UNCHANGED <<workload, identifierOf, emailOf, tickets, sessions>>

\* add_recovery_passkey, in recovery_verify.
AddRecoveryPasskey(h) ==
  /\ handlers[h].at = "recover"
  /\ LET u == handlers[h].user
         k == handlers[h].cred
     IN  IF ~Loads(u) \/ k \in DOMAIN credentialOf
         THEN End(h) /\ UNCHANGED <<users, credentialOf, history>>
         ELSE
         /\ user(u).version < MaxVersion
         /\ Save(u, [user(u) EXCEPT !.passkeys = With(@, k, NewPasskey(handlers[h].counter)),
                                    !.version = @ + 1, !.codes = {}])
         /\ credentialOf' = With(credentialOf, k, u)
         /\ handlers' = [g \in Handlers |->
              IF g = h THEN [handlers[h] EXCEPT !.at = "session", !.version = user(u).version + 1]
              ELSE IF handlers[g].at = "session" /\ handlers[g].user = u
                   THEN [handlers[g] EXCEPT !.late = TRUE] ELSE handlers[g]]
         /\ history' = [history EXCEPT
              !.effects = @ \cup {<<handlers[h].ceremony, "recover", k>>},
              !.retired = @ \cup user(u).codes,
              !.asserted = Registered(h),
              !.ended = @ \cup {s \in DOMAIN sessions : sessions[s].user = u}]
  /\ UNCHANGED <<workload, identifierOf, emailOf, tickets, sessions>>

\* create_session, the last step of registration_verify and recovery_verify.
CreateSession(h) ==
  /\ handlers[h].at = "session" /\ Fresh(SessionIds) # {}
  /\ LET s == Draw(SessionIds)
     IN  /\ sessions' = With(sessions, s, [user |-> handlers[h].user, cred |-> handlers[h].cred,
                                          version |-> handlers[h].version])
         /\ history' = [history EXCEPT !.spent = @ \cup {s},
                                       !.ended = IF handlers[h].late THEN @ \cup {s} ELSE @]
  /\ End(h)
  /\ UNCHANGED <<workload, users, indexes, tickets>>

counter_regressed(stored, next) == next > 0 /\ stored > 0 /\ next <= stored

\* apply_authentication_result succeeds for what the handler holds.
Applies(h) ==
  LET u == handlers[h].user
      k == handlers[h].cred
  IN  /\ Loads(u) /\ k \in DOMAIN user(u).passkeys
      /\ ~counter_regressed(user(u).passkeys[k].counter, handlers[h].counter)

apply_authentication_result(h) ==
  LET u == handlers[h].user
      k == handlers[h].cred
      n == handlers[h].counter
  IN  Save(u, [user(u) EXCEPT !.passkeys[k].counter = IF n > @ THEN n ELSE @])

Asserted(h, what, on) ==
  LET a == <<handlers[h].cred, handlers[h].counter>>
  IN  [history EXCEPT !.effects = @ \cup {<<handlers[h].ceremony, what, on>>},
                      !.asserted = IF a[2] > 0 THEN @ \cup {a} ELSE @,
                      !.replayed = IF a \in history.asserted THEN @ \cup {a} ELSE @,
                      !.spent = @ \cup ({on} \cap SessionIds)]

\* apply_authentication_and_create_session: one MULTI.
SignIn(h) ==
  /\ handlers[h].at = "signIn"
  /\ IF ~Applies(h) THEN UNCHANGED <<users, sessions, history>>
     ELSE /\ Fresh(SessionIds) # {}
          /\ apply_authentication_result(h)
          /\ sessions' = With(sessions, Draw(SessionIds),
               [user |-> handlers[h].user, cred |-> handlers[h].cred,
                version |-> user(handlers[h].user).version])
          /\ history' = Asserted(h, "signIn", Draw(SessionIds))
  /\ End(h)
  /\ UNCHANGED <<workload, indexes, tickets>>

\* apply_authentication, in step_up_verify; the mark on the session is in module Sessions.
StepUp(h) ==
  /\ handlers[h].at = "stepUp"
  /\ IF ~Applies(h) THEN UNCHANGED <<users, history>>
     ELSE apply_authentication_result(h) /\ history' = Asserted(h, "stepUp", handlers[h].cred)
  /\ End(h)
  /\ UNCHANGED <<workload, indexes, tickets, sessions>>

-----------------------------------------------------------------------------
(***************************************************************************)
(* Recovery codes and the verification of identifiers.                     *)
(***************************************************************************)

\* rotate_recovery_codes, under the lock: CodeCount fresh codes replace the old ones.
RotateCodes(s) ==
  /\ Does("recover") /\ Passkeyed(s)
  /\ Cardinality(Fresh(RecoveryCodes)) >= CodeCount
  /\ LET u     == sessions[s].user
         codes == CHOOSE C \in SUBSET Fresh(RecoveryCodes) : Cardinality(C) = CodeCount
     IN  /\ Save(u, [user(u) EXCEPT !.codes = codes])
         /\ history' = [history EXCEPT !.spent = @ \cup codes, !.retired = @ \cup user(u).codes]
  /\ UNCHANGED <<workload, indexes, tickets, sessions, handlers>>

\* create_identifier_verification, in request_identifier_verification.
RequestVerification(h, s, i) ==
  /\ Does("verify") /\ handlers[h] = Idle /\ Authenticated(s) /\ Fresh(Challenges) # {}
  /\ LET ids == user(sessions[s].user).identifiers
     IN  \E n \in DOMAIN ids : ids[n].value = i /\ ~ids[n].verified
  /\ LET x == Draw(Challenges)
     IN  /\ challenges' = With(challenges, x, [user |-> sessions[s].user, identifier |-> i,
                                              sent |-> FALSE])
         /\ handlers' = [handlers EXCEPT ![h] = [Idle EXCEPT !.at = "deliver", !.challenge = x]]
         /\ history' = Remember("spent", x)
  /\ UNCHANGED <<workload, users, indexes, invitations, codeOf, ceremonies, sessions>>

\* deliver_identifier_verification: a subscriber (in development, the caller) has the code.
Deliver(h) ==
  /\ handlers[h].at = "deliver"
  /\ handlers' = [handlers EXCEPT ![h].at = "delivered"]
  /\ challenges' = IF handlers[h].challenge \in DOMAIN challenges
                   THEN [challenges EXCEPT ![handlers[h].challenge].sent = TRUE] ELSE challenges
  /\ UNCHANGED <<workload, users, indexes, invitations, codeOf, ceremonies, sessions, history>>

\* The rest of the handler; a subscriber that got the code may still have answered late,
\* so that `delivered` is 0 and the challenge is deleted.
Delivered(h, ok) ==
  /\ handlers[h].at \in {"deliver", "delivered"}
  /\ ok => handlers[h].at = "delivered"
  /\ challenges' = IF Required /\ ~ok THEN Without(challenges, {handlers[h].challenge})
                   ELSE challenges
  /\ End(h)
  /\ UNCHANGED <<workload, users, indexes, invitations, codeOf, ceremonies, sessions, history>>

\* Whoever presents the code of a challenge is taken for the one who asked for it.
BugConsumes(s, x, right) == right /\ challenges[x].sent

\* The checks of consume_identifier_verification on the challenge it took.
Consumes(s, x, right) ==
  /\ challenges[x].user = sessions[s].user
  /\ right /\ challenges[x].sent

\* consume_identifier_verification: GETDEL before any check.
ConsumeVerification(h, s, x, right) ==
  /\ Does("verify") /\ handlers[h] = Idle /\ Authenticated(s)
  /\ challenges' = Without(challenges, {x})
  /\ handlers' = IF ~Consumes(s, x, right) THEN handlers
                 ELSE [handlers EXCEPT ![h] = [Idle EXCEPT !.at = "mark", !.user = sessions[s].user,
                                                           !.identifier = challenges[x].identifier]]
  /\ history' = IF right /\ challenges[x].sent
                THEN Remember("proven", <<challenges[x].user, challenges[x].identifier>>) ELSE history
  /\ UNCHANGED <<workload, users, indexes, invitations, codeOf, ceremonies, sessions>>

\* set_identifier_verification, the last step of complete_identifier_verification.
MarkVerified(h) ==
  /\ handlers[h].at = "mark"
  /\ LET u == handlers[h].user
         i == handlers[h].identifier
     IN  IF Loads(u) /\ i \in Values(user(u).identifiers) THEN Save(u, Marked(u, i, TRUE))
         ELSE UNCHANGED users
  /\ End(h)
  /\ UNCHANGED <<workload, indexes, tickets, sessions, history>>

ExpireChallenge(x) ==
  /\ Does("expire")
  /\ challenges' = Without(challenges, {x})
  /\ UNCHANGED <<workload, users, indexes, invitations, codeOf, ceremonies, sessions, handlers,
                 history>>

\* The process or the connection goes away, or a store call fails, between two steps.
Drop(h) ==
  /\ Does("drop") /\ handlers[h] # Idle
  /\ End(h)
  /\ UNCHANGED <<workload, users, indexes, tickets, sessions, history>>

-----------------------------------------------------------------------------
OwnerStep(s) ==
  \/ \E i \in Identifiers :
       account_add_identifier(s, i) \/ account_remove_identifier(s, i) \/ account_set_primary(s, i)
  \/ account_update_profile(s)
  \/ \E c \in Credentials : rename_credential(s, c) \/ revoke_credential(s, c)

OperatorStep(u) ==
  \/ \E i \in Identifiers :
       \/ \E verified \in BOOLEAN : rpc_set_identifier_verification(u, i, verified)
       \/ rpc_add_identifier(u, i) \/ rpc_remove_identifier(u, i) \/ rpc_set_primary_identifier(u, i)
  \/ rpc_update_profile(u)
  \/ \E c \in Credentials : rpc_rename_passkey(u, c) \/ rpc_revoke_passkey(u, c)

InvitationStep ==
  \/ \E i \in Identifiers : CreateInvitation(i)
  \/ \E v \in DOMAIN invitations : RevokeInvitation(v) \/ ExpireInvitation(v)

OptionsStep ==
  \/ \E i \in Identifiers :
       \/ \E v \in Invitations \cup {None} : RegistrationOptions(i, v)
       \/ AuthenticationOptions(i)
       \/ i \in Emails /\ CreateHandoff(i)
  \/ \E s \in DOMAIN sessions : AddRegistrationOptions(s) \/ StepUpOptions(s) \/ RotateCodes(s)

RequestStep(h) ==
  \/ \E i \in Identifiers, code \in RecoveryCodes : ConsumeRecoveryCode(h, i, code)
  \/ \E c \in DOMAIN ceremonies :
       \/ \E k \in Credentials \cup {None}, n \in 0..workload.counter :
            \/ registration_verify(h, c, k, n) \/ recovery_verify(h, c, k, n)
            \/ authentication_verify(h, c, k, n)
            \/ \E s \in DOMAIN sessions :
                 add_registration_verify(h, s, c, k, n) \/ step_up_verify(h, s, c, k, n)
       \/ local_agent_handoff(h, c)
  \/ \E s \in DOMAIN sessions :
       \/ \E i \in Identifiers : RequestVerification(h, s, i)
       \/ \E x \in DOMAIN challenges, right \in BOOLEAN : ConsumeVerification(h, s, x, right)

HandlerStep(h) ==
  \/ SaveRecovery(h) \/ ReadAgentAccount(h) \/ CreateUser(h) \/ AddPasskey(h) \/ AddRecoveryPasskey(h)
  \/ CreateSession(h) \/ SignIn(h) \/ StepUp(h) \/ Deliver(h) \/ MarkVerified(h) \/ Drop(h)
  \/ \E ok \in BOOLEAN : Delivered(h, ok)

Next ==
  \/ \E s \in DOMAIN sessions : OwnerStep(s)
  \/ \E u \in DOMAIN users : OperatorStep(u)
  \/ InvitationStep \/ OptionsStep
  \/ \E h \in Handlers : RequestStep(h) \/ HandlerStep(h)
  \/ \E c \in DOMAIN ceremonies : ExpireCeremony(c)
  \/ \E x \in DOMAIN challenges : ExpireChallenge(x)

Spec == Init /\ [][Next]_vars

-----------------------------------------------------------------------------
\* The index keys say exactly what the account records say.  A lookup by identifier finds
\* the account that lists it and no other, whether the account was written before or after
\* identifiers existed; a credential id leads to the one account with that passkey; and no
\* two accounts share either.  Registration, add_passkey, recovery and the identifier
\* operations each write the record and its keys in one MULTI after a check under the lock.
LookupsExact ==
  /\ \A i \in Identifiers : user_by_identifier(i) =
       LET owners == {u \in DOMAIN users : i \in Values(Hydrated(users[u]).identifiers)}
       IN  IF owners = {} THEN None ELSE CHOOSE u \in owners : owners = {u}
  /\ \A u \in DOMAIN users : \A c \in Credentials :
       c \in DOMAIN users[u].passkeys <=> c \in DOMAIN credentialOf /\ credentialOf[c] = u
  /\ DOMAIN emailOf = {i \in Emails : user_by_identifier(i) # None}

\* Every stored account can be loaded by Store::user (an account that cannot is lost to its
\* owner and to operators): one primary identifier, no duplicate, within the limit; it keeps
\* a passkey; and its legacy email is the one tokens and old readers should see.
AccountsLoadable ==
  \A u \in DOMAIN users :
    LET r     == users[u]
        ids   == Hydrated(r).identifiers
        mails == {n \in DOMAIN ids : ids[n].value \in Emails}
    IN  /\ ids # <<>> /\ Len(ids) <= MaxIdentifiers
        /\ \E n \in DOMAIN ids : \A m \in DOMAIN ids : ids[m].primary <=> m = n
        /\ \A n, m \in DOMAIN ids : ids[n].value = ids[m].value => n = m
        /\ DOMAIN r.passkeys # {}
        /\ r.email = None <=> mails = {}
        /\ \A n \in mails : ids[n].primary => r.email = ids[n].value
        /\ \A n \in mails : ids[n].value = r.email => r.emailVerified = ids[n].verified

\* A ceremony has at most one effect, however many requests present it at once: one account,
\* one passkey, one session.  take_registration and take_authentication are a GETDEL.
OneEffectPerCeremony ==
  \A a, b \in history.effects : a[1] = b[1] => a = b

\* An invitation enrols at most one account, for the identifier it was made for, and never
\* once it is revoked; its code key is gone as soon as it is consumed or revoked.
\* create_user_with_passkey validates the claim again under the lock.
InvitationSingleUse ==
  /\ \A a, b \in history.enrolled : a[1] = b[1] => a = b
  /\ \A v \in DOMAIN invitations :
       /\ invitations[v].consumed <=> \E a \in history.enrolled : a[1] = v
       /\ ~(invitations[v].consumed /\ invitations[v].revoked)
       /\ v \in codeOf <=> ~invitations[v].consumed /\ ~invitations[v].revoked

\* A recovery code that was used, replaced by a rotation or cleared by a completed recovery
\* is in no account again, whatever other writers of the account record do meanwhile.
RetiredCodesStayRetired ==
  \A u \in DOMAIN users : users[u].codes \cap history.retired = {}

\* A completed recovery ends every session the account had, and those that requests in
\* flight create for the account as it was before; none of them authenticates again.
RecoveryEndsSessions ==
  \A s \in DOMAIN sessions \cap history.ended : ~Authenticated(s)

\* With verification required, an identifier is verified only if this account was told its
\* code, or an operator vouched for it for this account, even after the identifier moved
\* from one account to another with challenges outstanding.
VerifiedIsProven ==
  Required => \A u \in DOMAIN users : \A n \in DOMAIN Hydrated(users[u]).identifiers :
    LET i == Hydrated(users[u]).identifiers[n] IN i.verified => <<u, i.value>> \in history.proven

\* No counter of a passkey is accepted twice, by concurrent sign-ins and step-ups either:
\* counter_regressed is evaluated on the record read under the lock.
NoCounterReplayed == history.replayed = {}

\* What is stored of accounts agrees with itself: lookups find what the records say, and
\* every record loads.
AccountsSound == LookupsExact /\ AccountsLoadable

\* What is used up or ended stays so, whatever requests are in flight: a ceremony, an
\* invitation, a recovery code, a passkey's counter, and the sessions before a recovery.
UsedUpStaysSo ==
  /\ OneEffectPerCeremony /\ InvitationSingleUse /\ RetiredCodesStayRetired
  /\ NoCounterReplayed /\ RecoveryEndsSessions
=============================================================================
