------------------------------ MODULE Cluster ------------------------------
(***************************************************************************)
(* The hosting cluster as services/hosting uses it: one Dokploy app and    *)
(* the Swarm service behind it.  Neither program is in this repository;    *)
(* the actions are what dokploy.go and swarm.go rely on.  GitW3 only   *)
(* saves the app's image and deploys it, and reads Dokploy's newest deploy *)
(* job (dok) and the Swarm service (svc), which follows later on its own.  *)
(*                                                                         *)
(* A digest is a number: NoImage, or the number of the deployment whose    *)
(* build produced it.                                                      *)
(***************************************************************************)
EXTENDS Naturals

VARIABLES
    dok,      \* image saved in the app, newest job's deployment and its status
    svc,      \* Swarm service: image, image before the last update, state
    proven    \* history: digests that once ran on every replica

clusterVars == <<dok, svc, proven>>

NoImage == 0

UpdateStates == {"none", "updating", "completed", "rollback_started",
                 "rollback_completed"}

AppType(IDs, Digests) == [image : Digests, job : IDs \cup {0},
                          status : {"idle", "running", "done", "error"}]
ServiceType(Digests)  == [image : Digests, prev : Digests, update : UpdateStates,
                          ready : BOOLEAN]

ClusterTypeOK(IDs, Digests) ==
    /\ dok \in AppType(IDs, Digests)
    /\ svc \in ServiceType(Digests)
    /\ proven \subseteq Digests

ClusterInit ==
    /\ dok = [image |-> NoImage, job |-> 0, status |-> "idle"]
    /\ svc = [image |-> NoImage, prev |-> NoImage, update |-> "none", ready |-> FALSE]
    /\ proven = {}

\* saveDockerProvider: the app's image is replaced.
SaveDockerProvider(digest) ==
    /\ dok' = [dok EXCEPT !.image = digest]
    /\ UNCHANGED <<svc, proven>>

\* deploy: a job titled with the deployment is queued.  The call returns before Swarm
\* is updated, and the job takes the image that the app has when it runs.
QueueJob(d) ==
    /\ dok' = [dok EXCEPT !.job = d, !.status = "running"]
    /\ UNCHANGED <<svc, proven>>

-----------------------------------------------------------------------------
\* Steps of the cluster itself.

\* Dokploy's job pulls the app's image and updates the Swarm service.
JobUpdatesService ==
    /\ dok.status = "running"
    /\ dok' = [dok EXCEPT !.status = "done"]
    /\ svc' = [image |-> dok.image, prev |-> svc.image, ready |-> FALSE,
               update |-> IF svc.image = NoImage THEN "none" ELSE "updating"]
    /\ UNCHANGED proven

\* The job fails before Swarm sees the release, for example on the pull.
JobFails ==
    /\ dok.status = "running"
    /\ dok' = [dok EXCEPT !.status = "error"]
    /\ UNCHANGED <<svc, proven>>

\* Every replica of the current image passes its health checks.
ReplicasReady ==
    /\ svc.image # NoImage
    /\ svc.update \in {"none", "updating"}
    /\ ~svc.ready
    /\ svc' = [svc EXCEPT !.ready = TRUE,
                          !.update = IF @ = "updating" THEN "completed" ELSE @]
    /\ proven' = proven \cup {svc.image}
    /\ UNCHANGED dok

\* failure_action: rollback.
RollbackStarts ==
    /\ svc.update = "updating"
    /\ svc' = [svc EXCEPT !.update = "rollback_started"]
    /\ UNCHANGED <<dok, proven>>

RollbackCompletes ==
    /\ svc.update = "rollback_started"
    /\ svc' = [svc EXCEPT !.update = "rollback_completed", !.image = svc.prev,
                          !.ready = TRUE]
    /\ UNCHANGED <<dok, proven>>

-----------------------------------------------------------------------------
Rollouts == {"unknown", "in_progress", "healthy", "rolled_back", "failed", "rejected"}

\* Mutant of EvaluateRollout: the image of the service is not compared.
EvaluateAnyImage(service, digest) ==
    IF service.image = NoImage THEN "unknown"
    ELSE CASE service.update = "rollback_completed" -> "rolled_back"
           [] service.update = "rollback_started" -> "failed"
           [] OTHER -> IF service.update # "updating" /\ service.ready
                       THEN "healthy" ELSE "in_progress"

\* EvaluateRollout for an app of one service.
EvaluateRollout(service, digest) ==
    IF service.image = NoImage THEN "unknown"
    ELSE CASE service.update = "rollback_completed" -> "rolled_back"
           [] service.update = "rollback_started" -> "failed"
           [] OTHER -> IF /\ service.update # "updating" /\ service.ready
                          /\ digest \in {NoImage, service.image}
                       THEN "healthy" ELSE "in_progress"

DeployFailed(d) == dok.status = "error" /\ dok.job = d

\* rolloutState: Dokploy's own failure wins over what Swarm shows.
RolloutState(d, digest) ==
    IF DeployFailed(d) THEN "rejected" ELSE EvaluateRollout(svc, digest)
=============================================================================
