-------------------------- MODULE WriterLeaseProofs --------------------------
(***************************************************************************)
(* Whoever works has the writer lease: a proof for any number of processes *)
(* and for all times that LeaseTimes admits.                               *)
(***************************************************************************)
EXTENDS WriterLease, TLAPS

\* The time within which p writes to the lease or stops working.
Reach(p) ==
  process[p].left + (IF process[p].at \in {"starting", "serving"} THEN Timeout ELSE 0)

\* The lease of p outlasts the time until p renews it or stops.
Outlasts(p) ==
  /\ lease # NoLease /\ lease.owner = p
  /\ lease.left > Reach(p) /\ Reach(p) >= 0
  /\ process[p].at = "starting" => process[p].left >= 0

\* WorkerHasLease alone is not inductive, for time may pass.
LeaseOutlasts == \A p \in Working : Outlasts(p)

LeaseInv == LeaseTypeOK /\ LeaseOutlasts

USE LeaseTimes, NoLeaseIsNone

-----------------------------------------------------------------------------
\* A step of p alone keeps the invariant of the others: what they own, no step of p takes,
\* for p deletes only its own lease and extends anybody's.
LEMMA OthersKeepTheirs ==
  ASSUME LeaseInv, NEW p \in Processes, NEW q \in Processes, q # p, q \in Working,
         \/ lease' = lease
         \/ lease # NoLease /\ lease' = [lease EXCEPT !.left = LeaseTime]
         \/ lease' = Released(p),
         process'[q] = process[q]
  PROVE  Outlasts(q)'
<1> USE DEF Outlasts
<1>1. /\ lease \in [owner : Processes, left : 1..LeaseTime] /\ Outlasts(q) /\ Reach(q) \in Int
  BY DEF LeaseInv, LeaseTypeOK, LeaseOutlasts, Working, Reach
<1>2. Reach(q)' = Reach(q)
  BY DEF Reach
<1>3. CASE lease' = lease
  BY <1>1, <1>2, <1>3
<1>4. CASE lease' = [lease EXCEPT !.left = LeaseTime]
  <2>1. lease' \in [owner : Processes, left : 1..LeaseTime] /\ lease'.owner = q
        /\ lease'.left = LeaseTime
    BY <1>1, <1>4
  <2> QED
    BY <2>1, <1>1, <1>2
<1>5. CASE lease' = Released(p)
  BY <1>1, <1>2, <1>5 DEF Released
<1> QED
  BY <1>3, <1>4, <1>5

\* Every step keeps the types and the time that the lease of a working process has left.
LEMMA LeaseStepKeeps == LeaseInv /\ [LeaseNext]_leaseVars => LeaseInv'
<1> SUFFICES ASSUME LeaseInv, [LeaseNext]_leaseVars PROVE LeaseInv'
  OBVIOUS
<1> USE DEF LeaseTypeOK
<1>t. LeaseTypeOK
  BY DEF LeaseInv
<1>0. ASSUME NEW p \in Processes, LeaseTypeOK',
             \/ lease' = lease
             \/ lease # NoLease /\ lease' = [lease EXCEPT !.left = LeaseTime]
             \/ lease' = Released(p),
             \A q \in Processes \ {p} : process'[q] = process[q],
             p \in Working' => Outlasts(p)'
      PROVE LeaseInv'
  <2>1. ASSUME NEW q \in Working', q # p PROVE q \in Working
    BY <1>0, <2>1 DEF Working
  <2>2. ASSUME NEW q \in Working', q # p
        PROVE  Outlasts(q)'
    BY <1>0, <2>1, <2>2, OthersKeepTheirs DEF Working
  <2> QED
    BY <1>0, <2>2 DEF LeaseInv, LeaseOutlasts
<1>1. ASSUME NEW p \in Processes, Serve(p) PROVE LeaseInv'
  <2>1. LeaseTypeOK' /\ lease' = [owner |-> p, left |-> LeaseTime] /\ Reach(p)' = StartTime + Timeout
    BY <1>t, <1>1 DEF Serve, acquire_writer_lease, Set, Reach
  <2>2. \A q \in Working' : q = p
    BY <1>1 DEF Serve, acquire_writer_lease, Set, Working, LeaseInv, LeaseOutlasts, Outlasts
  <2> QED
    BY <1>1, <2>1, <2>2 DEF LeaseInv, LeaseOutlasts, Outlasts, Serve, Set
<1>2. ASSUME NEW p \in Processes, Command(p) PROVE LeaseInv'
  <2>1. LeaseTypeOK' /\ lease' = [owner |-> p, left |-> LeaseTime] /\ Reach(p)' = WorkTime
    BY <1>t, <1>2 DEF Command, acquire_writer_lease, Set, Reach
  <2>2. \A q \in Working' : q = p
    BY <1>2 DEF Command, acquire_writer_lease, Set, Working, LeaseInv, LeaseOutlasts, Outlasts
  <2> QED
    BY <1>2, <2>1, <2>2 DEF LeaseInv, LeaseOutlasts, Outlasts, Command, Set
<1>3. ASSUME NEW p \in Processes, SpawnLeaseTask(p) PROVE LeaseInv'
  <2>1. p \in Working /\ Reach(p) = process[p].left + Timeout /\ Reach(p)' = Timeout
    BY <1>t, <1>3 DEF SpawnLeaseTask, Set, Working, Reach
  <2> QED
    BY <1>0, <1>t, <1>3, <2>1 DEF SpawnLeaseTask, Set, LeaseInv, LeaseOutlasts, Outlasts
<1>4. ASSUME NEW p \in Processes, Renew(p) PROVE LeaseInv'
  <2>1. p \in Working
    BY <1>4 DEF Renew, Working
  <2>2. lease # NoLease /\ lease.owner = p /\ lease' = [lease EXCEPT !.left = LeaseTime]
        /\ Set(p, "serving", RenewEvery, TRUE)
    BY <1>4, <2>1, Zenon DEF Renew, LeaseInv, LeaseOutlasts, Outlasts
  <2>3. LeaseTypeOK' /\ lease'.owner = p /\ lease'.left = LeaseTime /\ Reach(p)' = RenewEvery + Timeout
    BY <1>t, <2>2 DEF Set, Reach
  <2> QED
    BY <1>0, <1>t, <2>2, <2>3 DEF Set, Outlasts
<1>5. ASSUME NEW p \in Processes, NEW applied \in BOOLEAN, RenewFails(p, applied) PROVE LeaseInv'
  <2>1. LeaseTypeOK' /\ p \notin Working'
    BY <1>t, <1>5 DEF RenewFails, Set, Working
  <2> QED
    BY <1>0, <1>t, <1>5, <2>1 DEF RenewFails, Set
<1>6. ASSUME NEW p \in Processes, Signal(p) PROVE LeaseInv'
  <2>1. LeaseTypeOK' /\ p \notin Working'
    BY <1>t, <1>6 DEF Signal, Set, Working
  <2> QED
    BY <1>0, <1>t, <1>6, <2>1 DEF Signal, Set
<1>7. ASSUME NEW p \in Processes, Release(p) PROVE LeaseInv'
  <2>1. LeaseTypeOK' /\ p \notin Working'
    BY <1>t, <1>7, ZenonT(30) DEF Release, Released, Working
  <2> QED
    BY <1>0, <1>t, <1>7, <2>1 DEF Release
<1>8. ASSUME NEW p \in Processes, Stopped(p) \/ Crash(p) PROVE LeaseInv'
  <2>1. process' = [process EXCEPT ![p] = Off] /\ lease' = lease
    BY <1>8, Zenon DEF Stopped, Crash
  <2>2. LeaseTypeOK' /\ p \notin Working'
    BY <1>t, <2>1 DEF Off, Working
  <2> QED
    BY <1>0, <1>t, <2>1, <2>2
<1>9. ASSUME NEW p \in Processes, CommandEnds(p) PROVE LeaseInv'
  <2>1. LeaseTypeOK' /\ p \notin Working'
    BY <1>t, <1>9 DEF CommandEnds, Off, Released, Working
  <2> QED
    BY <1>0, <1>t, <1>9, <2>1 DEF CommandEnds
<1>10. ASSUME Tick PROVE LeaseInv'
  <2>1. LeaseTypeOK'
    <3>1. lease' \in {NoLease} \cup [owner : Processes, left : 1..LeaseTime]
      BY <1>t, <1>10 DEF Tick
    <3>2. \A p \in Processes : process'[p] \in [at : {"off", "starting", "serving", "command", "stopping"},
                                               left : Int, owns : BOOLEAN]
      BY <1>t, <1>10 DEF Tick, Off
    <3> QED
      BY <3>1, <3>2, <1>10 DEF Tick
  <2>2. ASSUME NEW p \in Working'
        PROVE  Outlasts(p)'
    <3>1. /\ p \in Working /\ process'[p].at = process[p].at
          /\ process'[p].left = process[p].left - 1 /\ process[p].left \in Int
      BY <1>t, <1>10, <2>2 DEF Tick, Working, Off
    <3>2. lease \in [owner : Processes, left : 1..LeaseTime] /\ Outlasts(p)
      BY <1>t, <3>1 DEF LeaseInv, LeaseOutlasts, Outlasts
    <3>3. Reach(p) \in Int /\ Reach(p)' = Reach(p) - 1
      BY <3>1 DEF Reach
    <3>4. Reach(p) # 0
      <4>1. ~ Due(p)
        BY <1>10, <3>1 DEF Tick, Working
      <4>2. CASE process[p].at = "starting"
        BY <4>1, <4>2, <3>1, <3>2 DEF Due, Reach, Outlasts
      <4>3. CASE process[p].at = "serving"
        BY <4>1, <4>3, <3>1 DEF Due, Reach
      <4>4. CASE process[p].at = "command"
        BY <4>1, <4>4, <3>1 DEF Due, Reach
      <4> QED
        BY <4>2, <4>3, <4>4, <3>1 DEF Working
    <3>5. lease.left >= 2 /\ lease' = [lease EXCEPT !.left = lease.left - 1]
      BY <3>2, <3>3, <3>4, <1>10 DEF Tick, Outlasts
    <3> QED
      BY <3>1, <3>2, <3>3, <3>4, <3>5, <1>10 DEF Outlasts, Due, Tick, Reach
  <2> QED
    BY <2>1, <2>2 DEF LeaseInv, LeaseOutlasts
<1>11. CASE UNCHANGED leaseVars
  BY <1>11 DEF leaseVars, LeaseInv, LeaseOutlasts, Outlasts, Working, Reach
<1> QED
  BY <1>1, <1>2, <1>3, <1>4, <1>5, <1>6, <1>7, <1>8, <1>9, <1>10, <1>11 DEF LeaseNext, LeaseStep

\* For any number of processes, renewals that fail or are answered late, crashes and late
\* releases: a process that takes requests or carries out a command has the lease, so no
\* two processes do.
THEOREM OneWriter == LeaseSpec => []WorkerHasLease
<1>1. LeaseInit => LeaseInv
  BY DEF LeaseInit, LeaseInv, LeaseTypeOK, LeaseOutlasts, Working, Off
<1>2. LeaseInv => WorkerHasLease
  BY DEF LeaseInv, LeaseOutlasts, Outlasts, WorkerHasLease
<1> QED
  BY <1>1, <1>2, LeaseStepKeeps, PTL DEF LeaseSpec
=============================================================================
