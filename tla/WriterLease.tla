---------------------------- MODULE WriterLease -----------------------------
(***************************************************************************)
(* One writer at a time: store/writer_lease.rs, the lease task and the     *)
(* shutdown of main.rs, and the commands of cli.rs that need the lease.    *)
(*                                                                         *)
(* The lease is one key with a TTL.  A server takes it before it starts,   *)
(* renews it from a task of its own, and hands it back when it is told to  *)
(* stop; a command takes it, works without renewing it, and hands it back. *)
(* Every process may crash, and a renewal may fail.                        *)
(*                                                                         *)
(* Time is counted down in the state: what is left of the lease, and what  *)
(* is left to a process until it must act.                                 *)
(***************************************************************************)
EXTENDS Integers

CONSTANTS
  Processes,
  LeaseTime,    \* WRITER_LEASE_SECONDS
  RenewEvery,   \* RENEW_INTERVAL_SECONDS
  Timeout,      \* response timeout: a renewal is answered or fails this late
  StartTime,    \* bound on the time serve takes before the lease task runs
  WorkTime,     \* bound on the time a command takes
  Grace,        \* SHUTDOWN_GRACE_SECONDS, for requests and then for workers
  NoLease

\* WRITER_LEASE_SECONDS is 60, RENEW_INTERVAL_SECONDS 10 and the response timeout 3.  That a
\* start with its first renewal, and a command, end within the lease is assumed: neither
\* renews it on the way.
ASSUME LeaseTimes ==
  /\ {LeaseTime, RenewEvery, Timeout, StartTime, WorkTime, Grace} \subseteq Nat
  /\ RenewEvery + Timeout < LeaseTime
  /\ StartTime + Timeout < LeaseTime
  /\ WorkTime < LeaseTime

ASSUME NoLeaseIsNone == NoLease \notin [owner : Processes, left : 1..LeaseTime]

VARIABLES
  lease,        \* auth:writer-lease: the owner's token and what is left of its TTL
  process       \* what each process does, for how much longer, and owns_lease

leaseVars == <<lease, process>>

Off == [at |-> "off", left |-> 0, owns |-> FALSE]

LeaseInit == lease = NoLease /\ process = [p \in Processes |-> Off]

Set(p, at, left, owns) ==
  process' = [process EXCEPT ![p] = [at |-> at, left |-> left, owns |-> owns]]

\* Processes whose code may write to the store.
Writers == {p \in Processes : process[p].at # "off"}

\* Processes that accept work: they take new requests or carry out a command.
Working == {p \in Processes : process[p].at \in {"starting", "serving", "command"}}

-----------------------------------------------------------------------------
\* SET NX EX with a fresh token; a process that does not get it exits.
acquire_writer_lease(p) ==
  /\ process[p] = Off /\ lease = NoLease
  /\ lease' = [owner |-> p, left |-> LeaseTime]

\* main, Serve: the lease is taken before serve is called.
Serve(p) == acquire_writer_lease(p) /\ Set(p, "starting", StartTime, TRUE)

\* main, a command of requires_writer_lease.
Command(p) == acquire_writer_lease(p) /\ Set(p, "command", WorkTime, TRUE)

\* serve has set everything up and spawns run_writer_lease; its first tick is immediate.
SpawnLeaseTask(p) ==
  /\ process[p].at = "starting"
  /\ Set(p, "serving", 0, TRUE)
  /\ UNCHANGED lease

\* GETEX: extends the lease of whoever owns it, and says whether that is p.  The task
\* goes on, or sets owns_lease to FALSE and stops the server.
Renew(p) ==
  /\ process[p].at = "serving" /\ process[p].left <= 0
  /\ lease' = IF lease = NoLease THEN NoLease ELSE [lease EXCEPT !.left = LeaseTime]
  /\ IF lease # NoLease /\ lease.owner = p THEN Set(p, "serving", RenewEvery, TRUE)
     ELSE Set(p, "stopping", 2 * Grace, FALSE)

\* The renewal fails, before or after it took effect: the server stops, and its lease is
\* released although it may have been lost.
RenewFails(p, applied) ==
  /\ process[p].at = "serving" /\ process[p].left <= 0
  /\ lease' = IF applied /\ lease # NoLease THEN [lease EXCEPT !.left = LeaseTime] ELSE lease
  /\ Set(p, "stopping", 2 * Grace, TRUE)

\* shutdown_signal.
Signal(p) ==
  /\ process[p].at = "serving"
  /\ Set(p, "stopping", 2 * Grace, TRUE)
  /\ UNCHANGED lease

\* The lease is deleted whoever owns it by now.
BugReleased(p) == NoLease

\* DELIFEQ: the lease is deleted only if the token in it is p's.
Released(p) == IF lease # NoLease /\ lease.owner = p THEN NoLease ELSE lease

\* The end of run_writer_lease, while bounded_server_shutdown still waits for requests and
\* the other workers finish what they do; or the release fails.
Release(p) ==
  /\ process[p].at = "stopping" /\ process[p].owns
  /\ \E ok \in BOOLEAN : lease' = IF ok THEN Released(p) ELSE lease
  /\ process' = [process EXCEPT ![p].owns = FALSE]

\* Requests and workers are done, or the grace periods are over: serve returns.
Stopped(p) ==
  /\ process[p].at = "stopping" /\ ~process[p].owns
  /\ process' = [process EXCEPT ![p] = Off]
  /\ UNCHANGED lease

\* A command ends, with or without success; its release may fail.
CommandEnds(p) ==
  /\ process[p].at = "command"
  /\ \E ok \in BOOLEAN : lease' = IF ok THEN Released(p) ELSE lease
  /\ process' = [process EXCEPT ![p] = Off]

Crash(p) ==
  /\ process[p].at # "off"
  /\ process' = [process EXCEPT ![p] = Off]
  /\ UNCHANGED lease

\* A process acts before its time is up; a renewal may be answered late.
Due(p) ==
  \/ process[p].at \in {"starting", "command", "stopping"} /\ process[p].left = 0
  \/ process[p].at = "serving" /\ process[p].left = -Timeout

\* A lease that has run out is still there.
BugTick ==
  /\ ~\E p \in Processes : Due(p)
  /\ lease' = IF lease = NoLease \/ lease.left = 0 THEN lease ELSE [lease EXCEPT !.left = @ - 1]
  /\ process' = [p \in Processes |-> IF process[p].at = "off" THEN Off
                                     ELSE [process[p] EXCEPT !.left = @ - 1]]

\* Time passes for the TTL of the lease and for the processes.
Tick ==
  /\ ~\E p \in Processes : Due(p)
  /\ lease' = IF lease = NoLease \/ lease.left = 1 THEN NoLease ELSE [lease EXCEPT !.left = @ - 1]
  /\ process' = [p \in Processes |-> IF process[p].at = "off" THEN Off
                                     ELSE [process[p] EXCEPT !.left = @ - 1]]

LeaseStep(p) ==
  \/ Serve(p) \/ Command(p) \/ SpawnLeaseTask(p) \/ Renew(p) \/ Signal(p) \/ Release(p)
  \/ Stopped(p) \/ CommandEnds(p) \/ Crash(p)
  \/ \E applied \in BOOLEAN : RenewFails(p, applied)

LeaseNext == Tick \/ \E p \in Processes : LeaseStep(p)

LeaseSpec == LeaseInit /\ [][LeaseNext]_leaseVars

-----------------------------------------------------------------------------
LeaseTypeOK ==
  /\ lease \in {NoLease} \cup [owner : Processes, left : 1..LeaseTime]
  /\ process \in [Processes -> [at : {"off", "starting", "serving", "command", "stopping"},
                               left : Int, owns : BOOLEAN]]

\* A process that takes requests or carries out a command has the lease, which has time
\* left, whatever renewals failed, processes crashed or old owners release late; so no two
\* processes do.  The lease must outlast the longest time between two renewals, the start
\* of a server and a command, none of which renews it.
WorkerHasLease ==
  \A p \in Working : lease # NoLease /\ lease.owner = p

=============================================================================
