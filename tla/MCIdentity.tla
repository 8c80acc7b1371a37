----------------------------- MODULE MCIdentity -----------------------------
(***************************************************************************)
(* One realm's identity components for TLC: accounts, operators and their  *)
(* service accounts, and signing keys.  In a behaviour one of these parts   *)
(* is at work while the others rest.                                       *)
(***************************************************************************)
EXTENDS Accounts, TLC

CONSTANTS
  \* Operators
  operators, requests, machines, secrets, NoOne,
  \* KeyRotation
  Kids, OldMaster, NewMaster, Rotation, Prepublish, Overlap, Maintenance, TokenLife, CacheTime,
  LockTime, NoKey

VARIABLES
  part,
  operator, listed, organization, account, locator, request, running, opsPlan, known,
  keyset, lock, worker, runtime, due, ring, cache, tokens, plan, past

opsVars   == <<operator, listed, organization, account, locator, request, running, opsPlan, known>>
keyVars   == <<keyset, lock, worker, runtime, due, ring, cache, tokens, plan, past>>

-----------------------------------------------------------------------------
\* Each workload is one story; together they run every operation.
Load(ops, start, required, counter) ==
  [ops |-> ops, start |-> start, required |-> required, counter |-> counter]

Resting == Load({}, "empty", TRUE, 0)

MCWorkloads == {
  \* identifiers of an account from before identifiers existed, and a new account
  Load({"addIdentifier", "removeIdentifier", "setPrimary", "operatorVerify", "profile"},
       "legacy", TRUE, 0),
  Load({"addIdentifier", "removeIdentifier", "setPrimary", "invite", "register"},
       "legacy", TRUE, 0),
  \* invitations raced by two registrations, revoked and expired
  Load({"invite", "revokeInvitation", "register", "expire", "drop"}, "account", TRUE, 0),
  \* development: no invitation needed, identifiers count as verified
  Load({"register", "addIdentifier"}, "empty", FALSE, 0),
  \* passkeys come and go while sign-ins and step-ups are in flight
  Load({"addPasskey", "revokePasskey", "signIn"}, "account", TRUE, 1),
  Load({"signIn", "stepUp", "drop"}, "account", TRUE, 2),
  \* recovery of an account, also of one that is being registered
  Load({"recover", "signIn", "drop"}, "account", TRUE, 0),
  Load({"recover", "register"}, "empty", FALSE, 0),
  Load({"recover", "handoff"}, "account", FALSE, 0),
  \* verification, with an identifier that changes hands
  Load({"verify", "addIdentifier", "removeIdentifier"}, "pair", TRUE, 0),
  Load({"verify", "addIdentifier", "operatorVerify", "expire", "drop"}, "account", TRUE, 0),
  Resting}

Ops == INSTANCE Operators WITH
  Users <- operators, Requests <- requests, Accounts <- machines, Credentials <- secrets,
  Scopes <- {"read", "write"}, Lifetime <- 1,
  OpsPlans <- {{"promote", "demote", "listed", "update_organization"},
               {"owners", "create_account", "update_account", "create_credential",
                "revoke_credential", "exchange", "age"}}

\* A tool is run, a key rotated, a volume restored, or the master key replaced; processes die.
Keys == INSTANCE KeyRotation WITH
  MasterKeys <- {OldMaster, NewMaster},
  Plans <- {{"status"}, {"rotate", "die"}, {"restore", "die"}, {"ring", "die"}}

-----------------------------------------------------------------------------

RestOps ==
  /\ operator = None /\ listed = None /\ organization = None /\ account = None /\ locator = None
  /\ request = None /\ running = None /\ opsPlan = None /\ known = None

RestKeys ==
  /\ keyset = None /\ lock = None /\ worker = None /\ runtime = None /\ due = None /\ ring = None
  /\ cache = None /\ tokens = None /\ plan = None /\ past = None

IdentityInit ==
  /\ part \in {"accounts", "operators", "keys"}
  /\ Init /\ (part = "accounts" <=> workload # Resting)
  /\ IF part = "operators" THEN Ops!OpsInit ELSE RestOps
  /\ IF part = "keys" THEN Keys!KeysInit ELSE RestKeys

IdentityNext ==
  \/ /\ part = "accounts" /\ Next
     /\ UNCHANGED <<part, opsVars, keyVars>>
  \/ /\ part = "operators" /\ Ops!OpsNext
     /\ UNCHANGED <<part, vars, keyVars>>
  \/ /\ part = "keys" /\ Keys!KeysNext
     /\ UNCHANGED <<part, vars, opsVars>>

identityVars == <<part, vars, opsVars, keyVars>>

IdentitySpec == IdentityInit /\ [][IdentityNext]_identityVars

\* Handlers and requests are interchangeable.
IdentitySymmetry ==
  Permutations(Handlers) \cup Permutations(requests) \cup Permutations(operators)

-----------------------------------------------------------------------------
\* Grants of operators are given by the host or on ground, end when they are withdrawn, and
\* no handler works for an operator who was demoted before it started; the locators of
\* service credentials lead to the credentials that work, and to no other.
GrantsSound == part = "operators" => Ops!GrantsSound

\* A consumer with the JWKS it may still cache verifies every token that is valid.
CachesSuffice == part = "keys" => Keys!CachesSuffice

\* The stored keyset has every key that a valid token needs, and opens with the configured
\* master keys.
KeysetSound == part = "keys" => Keys!KeysetSound
=============================================================================
