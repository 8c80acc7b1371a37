----------------------------- MODULE Operators ------------------------------
(***************************************************************************)
(* Who may operate a deployment, and the service accounts operators give   *)
(* to machines: store/organization.rs, operator_auth.rs,                   *)
(* organization_rpc.rs, store/service_accounts.rs, service_account_rpc/.   *)
(*                                                                         *)
(* A request is authorized in one or two round trips (the grant is read,   *)
(* and bootstrapped if there is none), and its handler works on the store  *)
(* afterwards; other requests run in between.  The host commands promote   *)
(* and demote need the writer lease, so they run while no server does      *)
(* (module WriterLease).                                                   *)
(***************************************************************************)
EXTENDS Integers, FiniteSets

CONSTANTS
  Users, Requests, Accounts, Credentials, Scopes,
  Lifetime,     \* ticks a service credential with an expiry lives
  OpsPlans,     \* which operations one behaviour uses
  NoOne         \* absent value

VARIABLES
  operator,     \* auth:operator:<user>: the grant, revoked or not
  listed,       \* users with a verified address of AUTH_OPERATOR_EMAILS
  organization, \* auth:organization: its name
  account,      \* auth:service-account:<id>
  locator,      \* auth:service-credential:<hash of the secret>, by credential
  request,      \* requests in flight
  running,      \* does a server run (or else a host command may)?
  opsPlan,      \* the one of OpsPlans that is followed
  known         \* users demoted since their last promotion, and users granted by the host or
                \* bootstrapped with a proven address

opsVars == <<operator, listed, organization, account, locator, request, running, opsPlan, known>>

Roles        == {"Owner", "Administrator", "Support", "Auditor"}
Operations   == {"update_organization", "create_account", "update_account",
                 "create_credential", "revoke_credential"}
Free         == [at |-> "free"]
Absent       == [status |-> "absent"]

-----------------------------------------------------------------------------
(***************************************************************************)
(* Grants and what they allow.                                             *)
(***************************************************************************)

\* What `ensure_operator` should do with the record it found.
grant_decision(stored, allowed) ==
  IF stored # NoOne THEN IF stored.revoked THEN "Deny" ELSE "Honour"
  ELSE IF allowed THEN "Bootstrap" ELSE "Deny"

bootstrap_allowed(u) == u \in listed

allows(role, capability) ==
  CASE capability = "Read"       -> TRUE
    [] capability = "Support"    -> role \in {"Owner", "Administrator", "Support"}
    [] capability = "Administer" -> role \in {"Owner", "Administrator"}

require_step_up_for(capability, steppedUp) == capability = "Administer" => steppedUp

\* All operations here change what machines and operators may do.
CapabilityOf(op) == IF op \in Operations THEN "Administer" ELSE "Read"

\* A plan with "owners" starts where the host has promoted everyone.
OpsInit ==
  /\ opsPlan \in OpsPlans
  /\ operator = [u \in Users |-> IF "owners" \in opsPlan THEN [role |-> "Owner", revoked |-> FALSE] ELSE NoOne]
  /\ listed = {} /\ organization = "named"
  /\ account = [a \in Accounts |-> Absent]
  /\ locator = [c \in Credentials |-> NoOne]
  /\ request = [r \in Requests |-> Free] /\ running = FALSE
  /\ known = [demoted |-> {}, grounded |-> {u \in Users : operator[u] # NoOne}]

Does(op) == op \in opsPlan

Holds(a, c) == account[a] # Absent /\ c \in DOMAIN account[a].creds
Taken(c) == \E a \in Accounts : Holds(a, c)

\* authorize, once ensure_operator has found the grant g.
Authorized(r, q, g) ==
  request' = [request EXCEPT ![r] =
    IF g # NoOne /\ allows(g.role, CapabilityOf(q.op)) /\ require_step_up_for(CapabilityOf(q.op), q.fresh)
    THEN [q EXCEPT !.at = "handler", !.role = g.role] ELSE Free]

\* authenticate up to the read of ensure_operator; fresh tells if the session stepped up.
\* Ids are random, so that a request names the id of a credential only once there is one.
authenticate(r, u, op, a, c, fresh) ==
  /\ running /\ Does(op) /\ request[r] = Free
  /\ op = "revoke_credential" => Taken(c)
  /\ LET q == [at |-> "bootstrap", user |-> u, op |-> op, acc |-> a, cred |-> c, fresh |-> fresh,
               role |-> NoOne, keys |-> {}]
         d == grant_decision(operator[u], bootstrap_allowed(u))
     IN  CASE d = "Honour"    -> Authorized(r, q, operator[u])
           [] d = "Bootstrap" -> request' = [request EXCEPT ![r] = q]
           [] d = "Deny"      -> UNCHANGED request
  /\ UNCHANGED <<operator, listed, organization, account, locator, running, opsPlan, known>>

\* ensure_operator under the lock: SET NX, and the stored record if there was one after all.
ensure_operator(r) ==
  /\ request[r].at = "bootstrap"
  /\ LET u == request[r].user
         g == IF operator[u] = NoOne THEN [role |-> "Owner", revoked |-> FALSE] ELSE operator[u]
     IN  operator' = [operator EXCEPT ![u] = g] /\ Authorized(r, request[r], g)
  /\ UNCHANGED <<listed, organization, account, locator, running, opsPlan, known>>

-----------------------------------------------------------------------------
(***************************************************************************)
(* The host commands, and the server's life.                               *)
(***************************************************************************)

HostMay == ~running /\ \A r \in Requests : request[r] = Free

promote_operator(u, role) ==
  /\ HostMay /\ Does("promote")
  /\ operator' = [operator EXCEPT ![u] = [role |-> role, revoked |-> FALSE]]
  /\ known' = [known EXCEPT !.demoted = @ \ {u}, !.grounded = @ \cup {u}]
  /\ UNCHANGED <<listed, organization, account, locator, request, running, opsPlan>>

\* The record is removed.
BugDemote(u) ==
  /\ HostMay /\ Does("demote")
  /\ operator[u] # NoOne /\ ~operator[u].revoked
  /\ operator' = [operator EXCEPT ![u] = NoOne]
  /\ known' = [known EXCEPT !.demoted = @ \cup {u}]
  /\ UNCHANGED <<listed, organization, account, locator, request, running, opsPlan>>

demote_operator(u) ==
  /\ HostMay /\ Does("demote")
  /\ operator[u] # NoOne /\ ~operator[u].revoked
  /\ operator' = [operator EXCEPT ![u].revoked = TRUE]
  /\ known' = [known EXCEPT !.demoted = @ \cup {u}]
  /\ UNCHANGED <<listed, organization, account, locator, request, running, opsPlan>>

\* A server starts (ensure_organization leaves the organization there is), or ends with
\* every request in flight.
StartOrStop ==
  /\ running' = ~running
  /\ request' = [r \in Requests |-> Free]
  /\ UNCHANGED <<operator, listed, organization, account, locator, opsPlan, known>>

\* An address of the account is verified or not any more, or the allowlist is changed.
ListedChanges(u) ==
  /\ Does("listed")
  /\ listed' = IF u \in listed THEN listed \ {u} ELSE listed \cup {u}
  /\ known' = [known EXCEPT !.grounded = @ \cup {u}]
  /\ UNCHANGED <<operator, organization, account, locator, request, running, opsPlan>>

-----------------------------------------------------------------------------
(***************************************************************************)
(* What an authorized request does.                                        *)
(***************************************************************************)

Handles(r, op) == request[r].at = "handler" /\ request[r].op = op
Done(r) == request' = [request EXCEPT ![r] = Free]

update_organization(r) ==
  /\ Handles(r, "update_organization")
  /\ organization' = IF organization = "named" THEN "renamed" ELSE "named"
  /\ Done(r)
  /\ UNCHANGED <<operator, listed, account, locator, running, opsPlan, known>>

create_service_account(r, scopes) ==
  /\ Handles(r, "create_account") /\ scopes # {} /\ account[request[r].acc] = Absent
  /\ account' = [account EXCEPT ![request[r].acc] =
       [status |-> "Active", scopes |-> scopes, creds |-> [c \in {} |-> NoOne]]]
  /\ Done(r)
  /\ UNCHANGED <<operator, listed, organization, locator, running, opsPlan, known>>

\* update_service_account: the whole account is written back, with the credentials it has.
update_service_account(r, status, scopes) ==
  /\ Handles(r, "update_account") /\ scopes # {}
  /\ account' = IF account[request[r].acc] = Absent THEN account
                ELSE [account EXCEPT ![request[r].acc].status = status,
                                     ![request[r].acc].scopes = scopes]
  /\ Done(r)
  /\ UNCHANGED <<operator, listed, organization, locator, running, opsPlan, known>>

create_service_credential(r, left) ==
  /\ Handles(r, "create_credential") /\ ~Taken(request[r].cred)
  /\ LET a == request[r].acc
         c == request[r].cred
     IN  IF account[a] = Absent THEN UNCHANGED <<account, locator>>
         ELSE /\ account' = [account EXCEPT ![a].creds =
                   [x \in DOMAIN @ \cup {c} |-> IF x = c THEN [left |-> left, revoked |-> FALSE] ELSE @[x]]]
              /\ locator' = [locator EXCEPT ![c] = a]
  /\ Done(r)
  /\ UNCHANGED <<operator, listed, organization, running, opsPlan, known>>

\* revoke_service_credential scans the locators before it takes the lock.
service_credential_locator_keys(r) ==
  /\ Handles(r, "revoke_credential")
  /\ request' = [request EXCEPT ![r].at = "scanned",
                                ![r].keys = {c \in Credentials : locator[c] # NoOne /\ c = request[r].cred}]
  /\ UNCHANGED <<operator, listed, organization, account, locator, running, opsPlan, known>>

\* ... and marks the credential and deletes what it found in one transaction.
revoke_service_credential(r) ==
  /\ request[r].at = "scanned"
  /\ LET a == request[r].acc
         c == request[r].cred
     IN  IF ~Holds(a, c) THEN UNCHANGED <<account, locator>>
         ELSE /\ account' = [account EXCEPT ![a].creds[c].revoked = TRUE]
              /\ locator' = [x \in Credentials |-> IF x \in request[r].keys THEN NoOne ELSE locator[x]]
  /\ Done(r)
  /\ UNCHANGED <<operator, listed, organization, running, opsPlan, known>>

\* exchange_service_credential, under the lock: what the credential c may be exchanged for.
Grants(c, wanted) ==
  /\ locator[c] # NoOne
  /\ account[locator[c]].status = "Active"
  /\ Holds(locator[c], c)
  /\ ~account[locator[c]].creds[c].revoked /\ account[locator[c]].creds[c].left # 0
  /\ wanted \subseteq account[locator[c]].scopes

\* exchange_credential: the grant, and then the token, which is signed without the lock.
exchange_service_credential(r, c, wanted) ==
  /\ running /\ Does("exchange") /\ request[r] = Free
  /\ Grants(c, wanted)
  /\ request' = [request EXCEPT ![r] =
       [at |-> "granted", acc |-> locator[c], cred |-> c,
        scopes |-> IF wanted = {} THEN account[locator[c]].scopes ELSE wanted]]
  /\ UNCHANGED <<operator, listed, organization, account, locator, running, opsPlan, known>>

issue_service_account(r) ==
  /\ request[r].at = "granted"
  /\ Done(r)
  /\ UNCHANGED <<operator, listed, organization, account, locator, running, opsPlan, known>>

\* Credentials with an expiry come nearer to it.
CredentialsAge ==
  /\ Does("age")
  /\ \E a \in Accounts : account[a] # Absent /\ \E c \in DOMAIN account[a].creds : account[a].creds[c].left > 0
  /\ account' = [a \in Accounts |-> IF account[a] = Absent THEN Absent ELSE
       [account[a] EXCEPT !.creds = [c \in DOMAIN @ |->
          [@[c] EXCEPT !.left = IF @ > 0 THEN @ - 1 ELSE @]]]]
  /\ UNCHANGED <<operator, listed, organization, locator, request, running, opsPlan, known>>

-----------------------------------------------------------------------------
HandlerStep(r) ==
  \/ ensure_operator(r) \/ update_organization(r) \/ service_credential_locator_keys(r)
  \/ revoke_service_credential(r) \/ issue_service_account(r)
  \/ \E scopes \in SUBSET Scopes :
       \/ create_service_account(r, scopes)
       \/ \E status \in {"Active", "Disabled"} : update_service_account(r, status, scopes)
  \/ \E left \in {-1, Lifetime} : create_service_credential(r, left)

OpsNext ==
  \/ \E r \in Requests :
       \/ HandlerStep(r)
       \/ \E u \in Users, op \in Operations, a \in Accounts, c \in Credentials, fresh \in BOOLEAN :
            authenticate(r, u, op, a, c, fresh)
       \/ \E c \in Credentials, wanted \in SUBSET Scopes : exchange_service_credential(r, c, wanted)
  \/ \E u \in Users : (\E role \in Roles : promote_operator(u, role)) \/ demote_operator(u) \/ ListedChanges(u)
  \/ StartOrStop \/ CredentialsAge

OpsSpec == OpsInit /\ [][OpsNext]_opsVars

-----------------------------------------------------------------------------
\* Withdrawing a grant lasts: an account demoted on the host is no operator until the host
\* promotes it again, whatever addresses it holds and however often it signs in.
RevocationSticks ==
  \A u \in known.demoted : operator[u] # NoOne /\ operator[u].revoked

\* An operator is one the host named, or one that held a verified address of the allowlist.
GrantsHaveGround == \A u \in Users : operator[u] # NoOne => u \in known.grounded

\* Nothing an operator asked for is done for an account whose grant is withdrawn by then:
\* the host commands need the lease a running server holds.
NoRevokedActor ==
  \A r \in Requests : request[r].at \in {"handler", "scanned"} =>
    LET g == operator[request[r].user]
    IN  g # NoOne /\ ~g.revoked /\ allows(g.role, CapabilityOf(request[r].op))

\* The lookup key of a service credential is there exactly while the credential is not
\* revoked, though revoking scans for the keys before it takes the lock.
LocatorsExact ==
  \A c \in Credentials :
    (locator[c] # NoOne) = (\E a \in Accounts : Holds(a, c) /\ ~account[a].creds[c].revoked)

\* Grants are given by the host or on ground, end when they are withdrawn, and nothing is
\* done on one that was; a service credential is found exactly while it is not revoked.
GrantsSound == RevocationSticks /\ GrantsHaveGround /\ NoRevokedActor /\ LocatorsExact
=============================================================================
