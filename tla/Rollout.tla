------------------------------ MODULE Rollout -------------------------------
(***************************************************************************)
(* The replacement of one service on the hosting platform:                 *)
(* rolloutRailwayImage of scripts/railway-rollout.ts, and the rollback of  *)
(* the production workflow when a rollout fails.                           *)
(*                                                                         *)
(* The platform lists deployments, starts one when it is asked to (and     *)
(* sometimes when the service is only updated), and keeps the old process  *)
(* until the new one is ready.  A realm or a datastore cannot become ready *)
(* while another process has its lease or its volume.  Every command may   *)
(* fail, before or after it took effect.                                   *)
(***************************************************************************)
EXTENDS Integers, Sequences

CONSTANTS OldImage, NewImage

VARIABLES
  profile,        \* "realm", "dashboard" or "sabledb": the option --profile
  deployments,    \* oldest first: image, whether it has the profile's settings, status, up
  configured,     \* the service's image and whether its settings are the profile's
  receipts,       \* the receipt file of each phase
  job,            \* the locals of the rollout that runs
  served          \* history: the deployment that served when the workflow began, or 0

rolloutVars == <<profile, deployments, configured, receipts, job, served>>

NoReceipt == [previous |-> 0, changed |-> FALSE, deployment |-> 0, verified |-> FALSE]

Job(phase, image, at) ==
  [phase |-> phase, image |-> image, at |-> at, baseline |-> 0, previous |-> 0, found |-> 0]

Deployment(image, fits, status, up) ==
  [image |-> image, fits |-> fits, status |-> status, up |-> up]

\* The service is new, or serves, perhaps with a failed attempt after it.
Histories ==
  LET old == Deployment(OldImage, TRUE, "success", TRUE)
      new == Deployment(NewImage, TRUE, "success", TRUE)
      bad == Deployment(NewImage, TRUE, "failed", FALSE)
  IN  {<<>>, <<bad>>, <<old>>, <<old, bad>>, <<new>>, <<[new EXCEPT !.fits = FALSE]>>}

RolloutInit ==
  /\ profile \in {"realm", "dashboard", "sabledb"}
  /\ deployments \in Histories
  /\ configured \in [image : {OldImage, NewImage}, fits : {TRUE}]
  /\ receipts = [phase \in {} |-> NoReceipt]
  /\ job = Job("forward", NewImage, "list")
  /\ served = IF \E d \in DOMAIN deployments : deployments[d].up THEN 1 ELSE 0

-----------------------------------------------------------------------------
(* The platform. *)

\* One writer, or one owner of the volume.
Exclusive == profile \in {"realm", "sabledb"}

Up == {d \in DOMAIN deployments : deployments[d].up}

Started == Append(deployments, Deployment(configured'.image, configured'.fits, "pending", FALSE))

\* Processes stop; the list goes on to show what they were, or that they are gone.
Stopped(ds) ==
  {[d \in DOMAIN deployments |->
      IF d \in ds THEN [deployments[d] EXCEPT !.up = FALSE, !.status = shown] ELSE deployments[d]] :
     shown \in {"success", "removed"}}

\* A deployment gets ready and replaces what served before.
Ready(d) ==
  /\ deployments[d].status = "pending"
  /\ Exclusive => Up = {}
  /\ \E rest \in Stopped(Up) :
       deployments' = [rest EXCEPT ![d].status = "success", ![d].up = TRUE]
  /\ UNCHANGED <<configured, receipts, job, served, profile>>

\* Its backup, its start or its health check fails.
Fails(d) ==
  /\ deployments[d].status = "pending"
  /\ deployments' = [deployments EXCEPT ![d].status = "failed"]
  /\ UNCHANGED <<configured, receipts, job, served, profile>>

-----------------------------------------------------------------------------
(* rolloutRailwayImage. *)

\* deployments.find over a list that has the newest first; 0 when there is none.
Newest(Is(_)) ==
  IF \E d \in DOMAIN deployments : Is(d)
  THEN CHOOSE d \in DOMAIN deployments : Is(d) /\ \A e \in DOMAIN deployments : Is(e) => e <= d
  ELSE 0

matchingDeployment ==
  LET Is(d) == d > job.baseline /\ deployments[d].image = job.image IN Newest(Is)

deploymentMatchesProfile(d) == deployments[d].fits

\* The rollback target: the newest deployment that succeeded, for a newer one may have failed.
Previous == LET Is(d) == deployments[d].status = "success" IN Newest(Is)

Receipt == IF job.phase \in DOMAIN receipts THEN receipts[job.phase] ELSE NoReceipt

\* The receipt file is rewritten as a whole.
writeReceipt(r) ==
  receipts' = [p \in DOMAIN receipts \cup {job.phase} |-> IF p = job.phase THEN r ELSE receipts[p]]

\* The list is read: the image serves already with the right settings, or it is to be deployed.
\* A rollback of a realm restarts it in any case.
Baseline ==
  LET current == Previous # 0 /\ deployments[Previous].image = job.image
      force   == job.phase = "rollback" /\ profile = "realm"
      done    == current /\ ~force /\ deploymentMatchesProfile(Previous)
  IN  /\ job.at = "list"
      /\ job' = [job EXCEPT !.baseline = Len(deployments), !.previous = Previous,
                            !.found = IF done THEN Previous ELSE 0,
                            !.at = IF done THEN "found" ELSE "status"]
      /\ UNCHANGED <<deployments, configured, receipts, served, profile>>

\* The handoff comes after the update.
BugStatus ==
  /\ job.at = "status"
  /\ writeReceipt([Receipt EXCEPT !.previous = job.previous, !.changed = TRUE])
  /\ job' = [job EXCEPT !.at = "update"]
  /\ UNCHANGED <<deployments, configured, served, profile>>

\* configuredServiceImage, and the receipt with the rollback target.
Status ==
  /\ job.at = "status"
  /\ writeReceipt([Receipt EXCEPT !.previous = job.previous, !.changed = TRUE])
  /\ job' = [job EXCEPT !.at = IF Exclusive /\ job.previous # 0 THEN "down" ELSE "update"]
  /\ UNCHANGED <<deployments, configured, served, profile>>

\* The command is answered, or its answer is an error although it took effect.
Answered(at) == \E next \in {at, "failed"} : job' = [job EXCEPT !.at = next]

\* railway down: what serves is stopped, and its lease or its volume with it.
Down ==
  /\ job.at = "down"
  /\ deployments' \in Stopped(Up)
  /\ Answered("update")
  /\ UNCHANGED <<configured, receipts, served, profile>>

\* The service gets the image and the profile's settings, if it has not got them; the platform
\* may start a deployment at once.
Update ==
  LET current == job.previous # 0 /\ deployments[job.previous].image = job.image
      needed  == \/ configured.image # job.image
                 \/ current /\ ~deploymentMatchesProfile(job.previous)
  IN  /\ job.at = "update"
      /\ IF needed
         THEN /\ configured' = [image |-> job.image, fits |-> TRUE]
              /\ deployments' \in {deployments, Started}
              /\ Answered("redeploy")
         ELSE /\ job' = [job EXCEPT !.at = "redeploy"]
              /\ UNCHANGED <<deployments, configured>>
      /\ UNCHANGED <<receipts, served, profile>>

Redeploy ==
  /\ job.at = "redeploy"
  /\ configured' = configured
  /\ deployments' = Started
  /\ Answered("poll")
  /\ UNCHANGED <<receipts, served, profile>>

\* A poll that ends the wait: success with the right settings, or the end of the attempt.
Poll ==
  LET d == matchingDeployment
  IN  /\ job.at = "poll" /\ d # 0 /\ deployments[d].status # "pending"
      /\ job' = IF deployments[d].status = "success" /\ deploymentMatchesProfile(d)
                THEN [job EXCEPT !.found = d, !.at = "found"]
                ELSE [job EXCEPT !.at = "failed"]
      /\ UNCHANGED <<deployments, configured, receipts, served, profile>>

\* The receipt with the deployment, before the health checks.
Found ==
  /\ job.at = "found"
  /\ writeReceipt([Receipt EXCEPT !.previous = job.previous, !.deployment = job.found])
  /\ job' = [job EXCEPT !.at = "health"]
  /\ UNCHANGED <<deployments, configured, served, profile>>

\* verifyHealth: a URL answers "ok" or "ready" within twelve attempts, which needs a process.
verifyHealth ==
  /\ job.at = "health" /\ Up # {}
  /\ writeReceipt([Receipt EXCEPT !.verified = TRUE])
  /\ job' = [job EXCEPT !.at = "done"]
  /\ UNCHANGED <<deployments, configured, served, profile>>

\* runJson throws, the deadline passes, the health checks fail, or the runner is stopped.
GiveUp ==
  /\ job.at \notin {"done", "failed", "over"}
  /\ job' = [job EXCEPT !.at = "failed"]
  /\ UNCHANGED <<deployments, configured, receipts, served, profile>>

-----------------------------------------------------------------------------
\* rollback_service of the workflow: nothing was changed; or the service was new and is taken
\* down; or the image before is rolled out.
rollback_service ==
  /\ job.phase = "forward" /\ job.at = "failed"
  /\ IF "forward" \notin DOMAIN receipts \/ ~receipts["forward"].changed
     THEN /\ job' = [job EXCEPT !.at = "over"]
          /\ UNCHANGED deployments
     ELSE IF receipts["forward"].previous = 0
     THEN /\ deployments' \in Stopped(Up)
          /\ job' = [job EXCEPT !.at = "over"]
     ELSE /\ job' = Job("rollback", deployments[receipts["forward"].previous].image, "list")
          /\ UNCHANGED deployments
  /\ UNCHANGED <<configured, receipts, served, profile>>

RolloutNext ==
  \/ Baseline \/ Status \/ Down \/ Update \/ Redeploy \/ Poll \/ Found \/ verifyHealth
  \/ GiveUp \/ rollback_service
  \/ \E d \in DOMAIN deployments : Ready(d) \/ Fails(d)

RolloutSpec == RolloutInit /\ [][RolloutNext]_rolloutVars

-----------------------------------------------------------------------------
\* What a rollout and its rollback promise:
\*  - what served is stopped or replaced only when a receipt names it, so that it can come
\*    back ("so the explicit, receipt-backed handoff must happen before the mutation");
\*  - a replacement that needs the old process to be gone is not started while it is up,
\*    also when the update starts one by itself;
\*  - a receipt's deployment has the image and the settings that were asked for, and is not
\*    an attempt that failed;
\*  - a verified rollback has deployed the image that served before the workflow.
RolloutsSafe ==
  /\ served # 0 /\ ~deployments[served].up =>
       /\ "forward" \in DOMAIN receipts
       /\ receipts["forward"].changed /\ receipts["forward"].previous = served
  /\ Exclusive /\ job.previous # 0 =>
       \A d \in DOMAIN deployments :
         d > job.baseline /\ deployments[d].status = "pending" => ~deployments[job.previous].up
  /\ \A p \in DOMAIN receipts : receipts[p].deployment # 0 =>
       LET d == deployments[receipts[p].deployment]
       IN  d.fits /\ d.status \in {"success", "removed"} /\ (p = "forward" => d.image = NewImage)
  /\ "rollback" \in DOMAIN receipts /\ receipts["rollback"].verified /\ served # 0 =>
       deployments[receipts["rollback"].deployment].image = deployments[served].image
=============================================================================
