---------------------------- MODULE MCOperations ----------------------------
(***************************************************************************)
(* The parts of which something is promised to happen, for TLC: the writer *)
(* lease, backups and restores, and listings by page; and the rollout of a *)
(* service.  In a behaviour one of them is at work, fairly, while the      *)
(* others rest.                                                            *)
(***************************************************************************)
EXTENDS WriterLease

CONSTANTS u1, Nothing

VARIABLES
  part,
  records, version, sessions, sentinel, volume, object, host, memory, status, leases, due, failed,
  created, hidden, client,
  profile, deployments, configured, receipts, job, served

backupVars   == <<records, version, sessions, sentinel, volume, object, host, memory, status,
                  leases, due, failed>>
pagingVars   == <<created, hidden, client>>
rolloutVars  == <<profile, deployments, configured, receipts, job, served>>

B == INSTANCE Backup WITH
  process <- host, Owners <- {u1}, Operations <- {"register", "ceremony"},
  Interval <- 2, Rpo <- 2, AlertAfter <- 2, LeaseTime <- 1, MaxVersion <- 2

Kinds == {"operators", "invitations", "service accounts", "webhooks", "deliveries", "organizations",
          "projects", "environments", "connections", "role bindings", "audit", "snapshot", "users",
          "search"}

\* A search also meets an account that does not validate.
P == INSTANCE Paging WITH
  Count <- 3, PageSize <- 1, Candidates <- 2,
  Listings <- [kind : Kinds, broken : {{}}] \cup [kind : {"search"}, broken : {{2}}]

R == INSTANCE Rollout WITH OldImage <- "old", NewImage <- "new"

-----------------------------------------------------------------------------

RestBackup ==
  /\ records = Nothing /\ version = Nothing /\ sessions = Nothing /\ sentinel = Nothing
  /\ volume = Nothing /\ object = Nothing /\ host = Nothing /\ memory = Nothing /\ status = Nothing
  /\ leases = Nothing /\ due = Nothing /\ failed = Nothing

RestPaging == created = Nothing /\ hidden = Nothing /\ client = Nothing

RestRollout ==
  /\ profile = Nothing /\ deployments = Nothing /\ configured = Nothing
  /\ receipts = Nothing /\ job = Nothing /\ served = Nothing

OperationsInit ==
  /\ part \in {"lease", "backup", "paging", "rollout"}
  /\ LeaseInit
  /\ IF part = "backup" THEN B!BackupInit ELSE RestBackup
  /\ IF part = "paging" THEN P!PagingInit ELSE RestPaging
  /\ IF part = "rollout" THEN R!RolloutInit ELSE RestRollout

LeaseDoes(A)    == part = "lease" /\ A /\ UNCHANGED <<part, backupVars, pagingVars, rolloutVars>>
BackupDoes(A)   == part = "backup" /\ A /\ UNCHANGED <<part, leaseVars, pagingVars, rolloutVars>>
PagingDoes(A)   == part = "paging" /\ A /\ UNCHANGED <<part, leaseVars, backupVars, rolloutVars>>
RolloutDoes(A)  == part = "rollout" /\ A /\ UNCHANGED <<part, leaseVars, backupVars, pagingVars>>

OperationsNext ==
  LeaseDoes(LeaseNext) \/ BackupDoes(B!BackupNext) \/ PagingDoes(P!PagingNext)
  \/ RolloutDoes(R!RolloutNext)

operationsVars == <<part, leaseVars, backupVars, pagingVars, rolloutVars>>

\* The fairness of the parts' modules.  Only one part is at work, so a conjunct may speak of
\* all of them; and so may one for steps of which only one is possible at a time.
OperationsFairness ==
  /\ WF_operationsVars(\/ LeaseDoes(Tick) \/ BackupDoes(B!BackupTick)
                       \/ PagingDoes(P!BeginScan \/ P!ListPage))
  /\ WF_operationsVars(\/ LeaseDoes(\E p \in Processes : Due(p) /\ LeaseStep(p))
                       \/ BackupDoes(B!run_scheduler \/ B!BackupRun("server")))
  /\ SF_operationsVars(BackupDoes(B!create_inner("server", TRUE)))
  /\ SF_operationsVars(BackupDoes(B!ReadBack("server", TRUE)))

OperationsSpec == OperationsInit /\ [][OperationsNext]_operationsVars /\ OperationsFairness

-----------------------------------------------------------------------------
\* A lease whose owner is gone does not keep the next writer out for ever.
DeadLeaseGoes ==
  (part = "lease" /\ lease # NoLease /\ lease.owner \notin Writers)
    ~> (part = "lease" /\ (lease = NoLease \/ lease.owner \in Writers))

\* A server never serves a part of a restored volume, sessions from before a restore end, and
\* the stored status counts the failed runs since the last good one, across processes.
BackupsSound == part = "backup" => B!BackupsSound

\* A server that stays up takes a good backup again and again.
BackupsGoOn ==
  <>[](part = "backup" /\ host["server"] # B!Off) =>
    []<>(part = "backup" /\ status # Nothing /\ status.age = 0)

\* A listing that ended has every record that was there from its first page to its last, and
\* none twice.
PagingIsExact == part = "paging" => P!PagingIsExact

\* What served is stopped only with a receipt that names it, an exclusive replacement starts
\* only after it, and a verified rollback deploys its image again.
RolloutsSafe == part = "rollout" => R!RolloutsSafe
=============================================================================
