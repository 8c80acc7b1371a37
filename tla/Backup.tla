------------------------------- MODULE Backup -------------------------------
(***************************************************************************)
(* Encrypted backups and restores: backup/ (the scheduler and its health,  *)
(* capture and validation of a snapshot, upload and read-back),            *)
(* store/snapshot.rs (export, restore, the sentinel), and the backup       *)
(* commands of cli.rs.                                                     *)
(*                                                                         *)
(* A record is a key family with the account it belongs to.  The server    *)
(* and a command run on the host (the tool) are processes that may die     *)
(* between any two round trips.  Both need the writer lease, which a       *)
(* server renews and a command does not.  No server is started while a     *)
(* command is at work.                                                     *)
(***************************************************************************)
EXTENDS Integers, FiniteSets

CONSTANTS
  Owners,       \* accounts
  Operations,   \* operations the server performs, of those Writes knows
  Interval, Rpo, AlertAfter,     \* scheduler and health policy
  LeaseTime,    \* TTL of the writer lease and of the backup lease
  MaxVersion,   \* bound on session versions
  Nothing       \* absent value

VARIABLES
  records,      \* records of the volume, sessions and sentinel apart
  version,      \* session_version of each account
  sessions,     \* auth:session:<digest>: account, version, made on this volume?
  sentinel,     \* auth:restore-in-progress
  volume,       \* how the volume came to be: "new", or restored and with which sessions
  object,       \* the last snapshot in the bucket
  process,      \* the server and the tool
  memory,       \* BackupStatus as each process has it
  status,       \* auth:backup:status
  leases,       \* auth:writer-lease and auth:backup:lease: holder and time left
  due,          \* time until the scheduler's next tick
  failed        \* backups that failed since the last one that did not

backupVars == <<records, version, sessions, sentinel, volume, object, process, memory, status,
                leases, due, failed>>

Who   == {"server", "tool"}
Off   == [at |-> "off"]
Never == Rpo + 1

-----------------------------------------------------------------------------
(***************************************************************************)
(* Key families.                                                           *)
(***************************************************************************)

DurableFamilies ==
  {"auth:event-sequence", "auth:event-min-sequence", "auth:jwt:keyset:v1", "auth:organization",
   "auth:user:", "auth:email:", "auth:identifier:", "auth:credential:", "auth:session:",
   "auth:event:", "auth:invitation:", "auth:invitation-code:", "auth:webhook:",
   "auth:webhook-cursor:", "auth:webhook-delivery:", "auth:webhook-delivery-event:",
   "auth:operator:", "auth:service-account:", "auth:service-credential:", "auth:fleet-grant:",
   "auth:fleet-grant-secret:", "auth:remote-mutation:", "analytics:projector-cursor",
   "analytics:closure-cursor", "analytics:bucket:", "analytics:outbox:"}

FleetFamilies ==
  {"fleet:organization:", "fleet:organization-slug:", "fleet:project:", "fleet:project-slug:",
   "fleet:environment:", "fleet:environment-slug:", "fleet:connection:", "fleet:role-binding:",
   "fleet:role-binding-subject:", "fleet:idempotency:", "fleet:assignment-epoch:", "fleet:audit:",
   "fleet:analytics-bucket:", "fleet:analytics-policy:", "fleet:analytics-policy-idempotency:",
   "fleet:analytics-quarantine:", "fleet:analytics-ingestion-audit:",
   "fleet:analytics-operator-audit:", "fleet:analytics-maintenance-audit:",
   "fleet:analytics-manifest:"}

TransientFamilies ==
  {"auth:jwt:active", "auth:jwt:maintenance-lock", "auth:writer-lease", "auth:restore-in-progress",
   "auth:registration:", "auth:authentication:", "auth:identifier-verification:",
   "auth:agent-handoff:", "auth:rate-limit:", "auth:session-activity:", "auth:fleet-pairing:",
   "auth:backup:", "auth:operator-seen:", "fleet:connection-attempt:", "fleet:operations-cache:",
   "fleet:analytics-quota:", "fleet:analytics-quota-batch:"}

snapshot_key_policy(family) ==
  CASE family \in DurableFamilies \cup FleetFamilies -> "Include"
    [] family \in TransientFamilies                  -> "Exclude"
    [] OTHER                                         -> "Unknown"

\* What the operations of a server write, each in one transaction.
Writes(op, u) ==
  CASE op = "register"  -> {<<"auth:user:", u>>, <<"auth:identifier:", u>>, <<"auth:credential:", u>>}
    [] op = "bootstrap" -> {<<"auth:operator:", u>>}
    [] op = "ceremony"  -> {<<"auth:registration:", u>>}
    [] op = "deliver"   -> {<<"auth:webhook-delivery:", u>>, <<"auth:webhook-delivery-backlog", u>>}
    [] op = "rotate"    -> {<<"auth:fleet-grant:", u>>, <<"auth:fleet-grant-secret:", u>>,
                            <<"auth:fleet-grant-rotation:", u>>}

Has(recs, family, u) == <<family, u>> \in recs

\* validate of a snapshot: every family has a name in record_family, the indexes and the
\* accounts belong together, and what belongs to an account finds it.
validate_user_indexes(recs) ==
  \A u \in Owners : Has(recs, "auth:user:", u) =>
    Has(recs, "auth:identifier:", u) /\ Has(recs, "auth:credential:", u)

validate_index_ownership(recs) ==
  \A u \in Owners : Has(recs, "auth:identifier:", u) \/ Has(recs, "auth:credential:", u) =>
    Has(recs, "auth:user:", u)

validate_record_ownership(recs, ses) ==
  /\ \A s \in ses : Has(recs, "auth:user:", s.user)
  /\ \A u \in Owners : Has(recs, "auth:operator:", u) => Has(recs, "auth:user:", u)
  /\ \A u \in Owners : Has(recs, "auth:fleet-grant:", u) <=> Has(recs, "auth:fleet-grant-secret:", u)

record_family(family) == family \in DurableFamilies \cup FleetFamilies

validate(snap) ==
  /\ \A r \in snap.records : record_family(r[1])
  /\ <<"auth:jwt:keyset:v1", Nothing>> \in snap.records
  /\ validate_user_indexes(snap.records) /\ validate_index_ownership(snap.records)
  /\ validate_record_ownership(snap.records, snap.sessions)

-----------------------------------------------------------------------------
(***************************************************************************)
(* Leases and health.                                                      *)
(***************************************************************************)
Acquire(name, p) == leases' = [leases EXCEPT ![name] = [holder |-> p, left |-> LeaseTime]]
Freed(name, p) == IF leases[name] # Nothing /\ leases[name].holder = p THEN Nothing ELSE leases[name]

NoStatus == [running |-> FALSE, attempted |-> FALSE, age |-> Never, failures |-> 0]

\* evaluate_health: is the recovery point overdue, is there an alert?
Overdue(s)  == s.attempted /\ s.age > Rpo
Alerting(s) == Overdue(s) \/ s.failures >= AlertAfter

persisted_status == IF status = Nothing THEN NoStatus ELSE status

scheduler_initial_delay_seconds(s) == IF s.age >= Interval THEN 0 ELSE Interval - s.age

\* hydrate_status: a process that has made no attempt yet takes the status of the store.
hydrate_status(p) == IF memory[p].attempted THEN memory[p] ELSE persisted_status

BackupInit ==
  /\ records = {} /\ sessions = {} /\ sentinel = FALSE /\ volume = "new"
  /\ version = [u \in Owners |-> 0]
  /\ object = Nothing /\ status = Nothing
  /\ process = [p \in Who |-> Off]
  /\ memory = [p \in Who |-> NoStatus]
  /\ leases = [writer |-> Nothing, backup |-> Nothing]
  /\ due = 0 /\ failed = 0

Data == <<records, version, sessions, sentinel, volume>>
Go(p, at) == process' = [process EXCEPT ![p] = [@ EXCEPT !.at = at]]

-----------------------------------------------------------------------------
(***************************************************************************)
(* The server.                                                             *)
(***************************************************************************)

\* The sentinel is not looked at.
BugEnsureRestoreComplete == TRUE

ensure_restore_complete == ~sentinel

\* main and serve: the checks, the lease, what a start creates, the schedule.
serve ==
  /\ \A p \in Who : process[p] = Off
  /\ ensure_restore_complete /\ leases.writer = Nothing
  /\ Acquire("writer", "server")
  /\ records' = records \cup {<<"auth:organization", Nothing>>, <<"auth:jwt:keyset:v1", Nothing>>}
  /\ process' = [process EXCEPT !["server"] = [at |-> "up"]]
  /\ memory' = [memory EXCEPT !["server"] = persisted_status]
  /\ due' = scheduler_initial_delay_seconds(persisted_status)
  /\ UNCHANGED <<version, sessions, sentinel, volume, object, status, failed>>

Operate(op, u) ==
  /\ process["server"].at = "up"
  /\ op \notin {"register", "ceremony"} => Has(records, "auth:user:", u)
  /\ records' = records \cup Writes(op, u)
  /\ UNCHANGED <<version, sessions, sentinel, volume, object, process, memory, status, leases, due, failed>>

SignIn(u) ==
  /\ process["server"].at = "up" /\ Has(records, "auth:user:", u)
  /\ sessions' = sessions \cup {[user |-> u, version |-> version[u], here |-> TRUE]}
  /\ UNCHANGED <<records, version, sentinel, volume, object, process, memory, status, leases, due, failed>>

\* A process dies; one that ends in order gives its writer lease back.
Exit(p, crash) ==
  /\ process[p] # Off
  /\ ~crash => process[p].at = "up"
  /\ process' = [process EXCEPT ![p] = Off]
  /\ memory' = [memory EXCEPT ![p] = NoStatus]
  /\ leases' = IF crash THEN leases ELSE [leases EXCEPT !.writer = Freed("writer", p)]
  /\ UNCHANGED <<Data, object, status, due, failed>>

-----------------------------------------------------------------------------
(***************************************************************************)
(* BackupStore::create, by the scheduler or by `backup create`.            *)
(***************************************************************************)
BackupCreate ==
  /\ \A p \in Who : process[p] = Off
  /\ ensure_restore_complete /\ leases.writer = Nothing
  /\ Acquire("writer", "tool")
  /\ process' = [process EXCEPT !["tool"] = [at |-> "due"]]
  /\ UNCHANGED <<Data, object, memory, status, due, failed>>

run_scheduler ==
  /\ process["server"].at = "up" /\ due = 0
  /\ Go("server", "due")
  /\ UNCHANGED <<Data, object, memory, status, leases, due, failed>>

\* A failed run ends the scheduler's task.
BugEnded(p) ==
  /\ process' = [process EXCEPT ![p] = IF p = "server" THEN [at |-> "unscheduled"] ELSE Off]
  /\ due' = IF p = "server" THEN Interval ELSE due

\* The end of a run of p: back to serving, or the end of the command.
Ended(p) ==
  /\ process' = [process EXCEPT ![p] = IF p = "server" THEN [at |-> "up"] ELSE Off]
  /\ due' = IF p = "server" THEN Interval ELSE due

\* acquire_backup_lease; without it the run ends and leaves the status alone.
acquire_backup_lease(p) ==
  /\ process[p].at = "due"
  /\ IF leases.backup # Nothing
     THEN /\ Ended(p) /\ UNCHANGED status
          /\ memory' = [memory EXCEPT ![p] = IF p = "server" THEN hydrate_status(p) ELSE NoStatus]
          /\ leases' = IF p = "tool" THEN [leases EXCEPT !.writer = Freed("writer", p)] ELSE leases
     ELSE /\ Acquire("backup", p) /\ Go(p, "capture") /\ UNCHANGED due
          /\ LET s == [hydrate_status(p) EXCEPT !.running = TRUE, !.attempted = TRUE]
             IN  memory' = [memory EXCEPT ![p] = s] /\ status' = s
  /\ UNCHANGED <<Data, object, failed>>

\* export_records and from_records, under the snapshot gate; the keyset validates.
Captured ==
  [records |-> {r \in records : snapshot_key_policy(r[1]) = "Include"},
   sessions |-> sessions, version |-> version]

CanCapture == (\A r \in records : snapshot_key_policy(r[1]) # "Unknown") /\ validate(Captured)

\* The run of p is over: the lease is released and the status updated and stored.
Finish(p, ok) ==
  LET s == [memory[p] EXCEPT !.running = FALSE, !.age = IF ok THEN 0 ELSE @,
                             !.failures = IF ok THEN 0 ELSE IF @ < AlertAfter THEN @ + 1 ELSE @]
  IN  /\ status' = s
      /\ memory' = [memory EXCEPT ![p] = IF p = "server" THEN s ELSE NoStatus]
      /\ leases' = [writer |-> IF p = "tool" THEN Freed("writer", p) ELSE leases.writer,
                    backup |-> Freed("backup", p)]
      /\ failed' = IF ok THEN 0 ELSE IF failed < AlertAfter THEN failed + 1 ELSE failed
      /\ Ended(p)

export_records(p) ==
  /\ process[p].at = "capture"
  /\ IF CanCapture
     THEN /\ process' = [process EXCEPT ![p] = [at |-> "upload", snap |-> Captured]]
          /\ UNCHANGED <<memory, status, leases, due, failed>>
     ELSE Finish(p, FALSE)
  /\ UNCHANGED <<Data, object>>

\* put_object, and the download that proves what was stored.
create_inner(p, ok) ==
  /\ process[p].at = "upload"
  /\ object' = IF ok THEN process[p].snap ELSE object
  /\ IF ok THEN Go(p, "verify") /\ UNCHANGED <<memory, status, leases, due, failed>>
           ELSE Finish(p, FALSE)
  /\ UNCHANGED Data

ReadBack(p, ok) ==
  /\ process[p].at = "verify"
  /\ Finish(p, ok /\ validate(object))
  /\ UNCHANGED <<Data, object>>

-----------------------------------------------------------------------------
(***************************************************************************)
(* `backup restore`.                                                       *)
(***************************************************************************)
BackupRestore(preserve) ==
  /\ \A p \in Who : process[p] = Off
  /\ object # Nothing /\ \A u \in Owners : object.version[u] < MaxVersion    \* bound
  /\ ensure_restore_complete /\ leases.writer = Nothing
  /\ Acquire("writer", "tool")
  /\ process' = [process EXCEPT !["tool"] = [at |-> "download", preserve |-> preserve]]
  /\ UNCHANGED <<Data, object, memory, status, due, failed>>

download ==
  /\ process["tool"].at = "download" /\ validate(object)
  /\ Go("tool", "restore")
  /\ UNCHANGED <<Data, object, memory, status, leases, due, failed>>

\* managed_keys: a SCAN of auth:*, fleet:* and analytics:*.
managed_keys ==
  {r[1] : r \in records} \cup (IF sessions # {} THEN {"auth:session:"} ELSE {})
    \cup (IF leases.writer # Nothing THEN {"auth:writer-lease"} ELSE {})
    \cup (IF leases.backup # Nothing \/ status # Nothing THEN {"auth:backup:"} ELSE {})
    \cup (IF sentinel THEN {"auth:restore-in-progress"} ELSE {})

\* restore_records: refused unless there is no managed key; then the sentinel is set.
restore_records ==
  /\ process["tool"].at = "restore"
  /\ IF managed_keys # {}
     THEN /\ process' = [process EXCEPT !["tool"] = Off]
          /\ leases' = [leases EXCEPT !.writer = Freed("writer", "tool")]
          /\ UNCHANGED <<sentinel, volume>>
     ELSE /\ sentinel' = TRUE /\ Go("tool", "sessions")
          /\ volume' = IF process["tool"].preserve THEN "preserved" ELSE "reset"
          /\ UNCHANGED leases
  /\ UNCHANGED <<records, version, sessions, object, memory, status, due, failed>>

Preserves == process["tool"].preserve

\* The records go in sorted by key, in transactions of 250: first the sessions that have not
\* expired, if they are wanted at all ...
RestoreSessions ==
  /\ process["tool"].at = "sessions"
  /\ \E live \in SUBSET object.sessions :
       sessions' = IF Preserves THEN {[s EXCEPT !.here = FALSE] : s \in live} ELSE {}
  /\ Go("tool", "records")
  /\ UNCHANGED <<records, version, sentinel, volume, object, memory, status, leases, due, failed>>

\* ... then the accounts, whose sessions end unless they are kept.
RestoreRecords ==
  /\ process["tool"].at = "records"
  /\ records' = object.records
  /\ version' = IF Preserves THEN object.version ELSE [u \in Owners |-> object.version[u] + 1]
  /\ Go("tool", "rotate")
  /\ UNCHANGED <<sessions, sentinel, volume, object, memory, status, leases, due, failed>>

\* initialize_jwt, force_rotate and the recovery event (module KeyRotation).
Recovered ==
  /\ process["tool"].at = "rotate"
  /\ records' = records \cup {<<"auth:event:", Nothing>>}
  /\ Go("tool", "complete")
  /\ UNCHANGED <<version, sessions, sentinel, volume, object, memory, status, leases, due, failed>>

complete_restore ==
  /\ process["tool"].at = "complete"
  /\ sentinel' = FALSE
  /\ process' = [process EXCEPT !["tool"] = Off]
  /\ leases' = [leases EXCEPT !.writer = Freed("writer", "tool")]
  /\ UNCHANGED <<records, version, sessions, volume, object, memory, status, due, failed>>

\* The volume is lost, or discarded, and a new one provisioned.
NewVolume ==
  /\ \A p \in Who : process[p] = Off
  /\ records' = {} /\ sessions' = {} /\ sentinel' = FALSE /\ volume' = "new"
  /\ version' = [u \in Owners |-> 0]
  /\ status' = Nothing /\ leases' = [writer |-> Nothing, backup |-> Nothing]
  /\ failed' = 0
  /\ UNCHANGED <<object, process, memory, due>>

\* Time: leases nobody renews run out, the schedule and the last success get older.  A run
\* of the scheduler takes no time; a download may take long.
Older(s) == [s EXCEPT !.age = IF @ < Never THEN @ + 1 ELSE @]

Renewed(name) == name = "writer" /\ leases[name].holder = "server" /\ process["server"] # Off

BackupTick ==
  /\ \A p \in Who : process[p].at \in {"off", "up", "download"}
  /\ process["server"].at = "up" => due > 0
  /\ due' = IF due > 0 THEN due - 1 ELSE 0
  /\ leases' = [name \in DOMAIN leases |->
       IF leases[name] = Nothing THEN Nothing
       ELSE IF Renewed(name) THEN [leases[name] EXCEPT !.left = LeaseTime]
       ELSE IF leases[name].left = 1 THEN Nothing ELSE [leases[name] EXCEPT !.left = @ - 1]]
  /\ memory' = [p \in Who |-> Older(memory[p])]
  /\ status' = IF status = Nothing THEN Nothing ELSE Older(status)
  /\ UNCHANGED <<Data, object, process, failed>>

-----------------------------------------------------------------------------
BackupRun(p) ==
  acquire_backup_lease(p) \/ export_records(p) \/ \E ok \in BOOLEAN : create_inner(p, ok) \/ ReadBack(p, ok)

RestoreStep ==
  \/ download \/ restore_records \/ RestoreSessions \/ RestoreRecords \/ Recovered \/ complete_restore
  \/ \E preserve \in BOOLEAN : BackupRestore(preserve)

BackupNext ==
  \/ serve \/ BackupCreate \/ run_scheduler \/ RestoreStep \/ NewVolume \/ BackupTick
  \/ \E u \in Owners : SignIn(u) \/ \E op \in Operations : Operate(op, u)
  \/ \E p \in Who : BackupRun(p) \/ \E crash \in BOOLEAN : Exit(p, crash)

BackupSpec == BackupInit /\ [][BackupNext]_backupVars

\* The scheduler's task and the clock go on; the provider works time and again.
BackupFairness ==
  /\ WF_backupVars(BackupTick) /\ WF_backupVars(run_scheduler)
  /\ WF_backupVars(acquire_backup_lease("server")) /\ WF_backupVars(export_records("server"))
  /\ WF_backupVars(\E ok \in BOOLEAN : create_inner("server", ok))
  /\ WF_backupVars(\E ok \in BOOLEAN : ReadBack("server", ok))
  /\ SF_backupVars(create_inner("server", TRUE)) /\ SF_backupVars(ReadBack("server", TRUE))

BackupFairSpec == BackupSpec /\ BackupFairness

-----------------------------------------------------------------------------
\* A server never serves a volume that was restored in part: wherever a restore died, what
\* is served holds every durable record of the snapshot.
ServedVolumesAreWhole ==
  process["server"] # Off /\ volume # "new" => ~sentinel /\ object.records \subseteq records

\* After a restore that does not preserve sessions, only sessions begun on the new volume
\* are accepted.
OldSessionsEnd ==
  volume = "reset" => \A s \in sessions : s.version = version[s.user] => s.here

\* The stored status counts the failed runs since the last good one, across restarts of the
\* server and runs of the command, so that doctor raises the alarm after AlertAfter of them.
FailuresCounted ==
  /\ status # Nothing => status.failures = failed
  /\ failed >= AlertAfter => Alerting(persisted_status)

\* What a restore leaves is served whole or not at all, and without the old sessions; and
\* the status that doctor reads is true.
BackupsSound == ServedVolumesAreWhole /\ OldSessionsEnd /\ FailuresCounted

\* A server that stays up takes a good backup again and again, also after a crash left the
\* backup lease behind.
BackupsGoOn == <>[](process["server"] # Off) => []<>(status # Nothing /\ status.age = 0)
=============================================================================
