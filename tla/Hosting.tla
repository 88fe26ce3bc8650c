------------------------------ MODULE Hosting ------------------------------
(***************************************************************************)
(* Managed hosting of one deploy target: services/hosting and              *)
(* models/hosting.  Web requests create deployments, the builder reports   *)
(* images through a callback, the wallet handler reports signatures, and a *)
(* cron task advances whatever is in flight.  They run concurrently in one *)
(* process and share the database rows below.                              *)
(*                                                                         *)
(* A handler's step ends where another handler can act on what it has read  *)
(* or written: between two steps every other handler may run, and the       *)
(* process may crash and lose all of them.                                  *)
(***************************************************************************)
EXTENDS Naturals, DeploymentStatus, Cluster

CONSTANTS
    Requests,        \* web requests that may be in progress at the same time
    Versions,        \* release versions
    NoVersion,
    RequireW3DS,     \* [hosting] REQUIRE_W3DS
    Events,          \* the kinds of outside events that may happen
    MaxDeployments,  \* bound: deployments created
    MaxRecords,      \* bound: W3DS deployment records prepared
    MaxCrashes       \* bound: restarts of the process

\* An outside call fails or loses its answer (prepare, dispatch, publish, send);
\* a build fails; the builder reports a digest that was not pushed; a run ends; a
\* user cancels; the cluster works on a release; Dokploy's job fails; Swarm rolls
\* back; a timeout expires.
EventKinds == {"prepare", "dispatch", "publish", "send", "build", "forge", "end",
               "cancel", "cluster", "pull", "rollout", "timeout"}

ASSUME HostingAssumption ==
    /\ NoVersion \notin Versions
    /\ RequireW3DS \in BOOLEAN
    /\ Events \subseteq EventKinds
    /\ MaxDeployments \in Nat /\ MaxRecords \in Nat /\ MaxCrashes \in Nat

IDs     == 1 .. MaxDeployments
Records == 1 .. MaxRecords

\* A digest the builder may report although no such image was pushed.
Forged  == MaxDeployments + 1
Digests == 0 .. Forged

\* goLive runs for the callback or the rollback request of a deployment, for
\* the sync cron, and for the wallet handler.
SyncCaller   == 0
WalletCaller == MaxDeployments + 1
Callers      == 0 .. WalletCaller

VARIABLES
    lastID,      \* autoincrement of hosting_deployment
    status, version, image, rollbackOf,        \* columns of hosting_deployment
    late,        \* deployments whose updated_unix is older than their timeout
    job,         \* hosting_build_job by deployment
    target,      \* the hosting_target row
    record,      \* w3ds deployment records by number
    run,         \* the builder's workflow run of each deployment
    registry,    \* digests in the registry under the target's image name
    accepted,    \* history: versions the W3DS publisher accepted
    shipped,     \* history: deployments handed to Dokploy
    request, golive, callback, sync, wallet,   \* handlers in memory
    crashes

columns     == <<lastID, version, image, rollbackOf>>
statusVars  == <<status, late>>
w3dsVars    == <<target, record, accepted>>
handlerVars == <<request, golive, callback, sync, wallet>>
cluster     == <<clusterVars, shipped>>
vars == <<columns, statusVars, job, run, registry, w3dsVars, handlerVars, cluster, crashes>>

JobStatuses == {"none", "queued", "running", "succeeded", "failed", "cancelled"}
RunStates   == {"none", "active", "succeeded", "failed", "cancelled"}
RunEnds     == {"succeeded", "failed", "cancelled"}
Results     == {"failure", "image", "forged"}
RowStatuses == Statuses \cup {"none"}

NoJob       == [status |-> "none", run |-> FALSE, nonceUsed |-> FALSE]
IdleRequest == [pc |-> "idle", version |-> NoVersion, dep |-> 0]
IdleGoLive  == [pc |-> "idle", dep |-> 0]
IdleSync    == [pc |-> "scan", todo |-> [d \in IDs |-> "none"], overdue |-> {},
                verdict |-> "unknown", live |-> 0]
IdleWallet  == [pc |-> "idle", record |-> 0, waiting |-> {}]

\* A call of goLive for deployment d.
GoLiveOf(d) == [pc |-> "load", dep |-> d]

JobType     == [status : JobStatuses, run : BOOLEAN, nonceUsed : BOOLEAN]
TargetType  == [live : IDs \cup {0}, record : Records \cup {0},
                version : Versions \cup {NoVersion}]
RecordType  == {"none", "awaiting", "claimed", "signed"}
RequestType == [pc : {"idle", "prepare", "create", "supersede", "dispatch", "save"},
                version : Versions \cup {NoVersion}, dep : IDs \cup {0}]
GoLiveType  == [pc : {"idle", "load", "park", "publish", "record", "send", "deploy",
                      "mark"},
                dep : IDs \cup {0}]
SyncType    == [pc : {"scan", "verdict", "retire", "point"},
                todo : [IDs -> InFlightStatuses \cup {"none"}],
                overdue : SUBSET IDs, verdict : Rollouts, live : IDs \cup {0}]
WalletType  == [pc : {"idle", "save", "resume", "golive"},
                record : Records \cup {0}, waiting : SUBSET IDs]

TypeOK ==
    /\ lastID \in 0 .. MaxDeployments
    /\ status \in [IDs -> RowStatuses]
    /\ version \in [IDs -> Versions \cup {NoVersion}]
    /\ image \in [IDs -> Digests]
    /\ rollbackOf \in [IDs -> IDs \cup {0}]
    /\ late \subseteq IDs
    /\ job \in [IDs -> JobType]
    /\ target \in TargetType
    /\ record \in [Records -> RecordType]
    /\ run \in [IDs -> RunStates]
    /\ registry \subseteq Digests
    /\ accepted \subseteq Versions \cup {NoVersion}
    /\ shipped \subseteq IDs
    /\ request \in [Requests -> RequestType]
    /\ golive \in [Callers -> GoLiveType]
    /\ callback \in [IDs -> Results \cup {"idle"}]
    /\ sync \in SyncType
    /\ wallet \in WalletType
    /\ crashes \in 0 .. MaxCrashes
    /\ ClusterTypeOK(IDs, Digests)

Init ==
    /\ lastID = 0
    /\ status = [d \in IDs |-> "none"]
    /\ version = [d \in IDs |-> NoVersion]
    /\ image = [d \in IDs |-> NoImage]
    /\ rollbackOf = [d \in IDs |-> 0]
    /\ late = {}
    /\ job = [d \in IDs |-> NoJob]
    /\ target = [live |-> 0, record |-> 0, version |-> NoVersion]
    /\ record = [n \in Records |-> "none"]
    /\ run = [d \in IDs |-> "none"]
    /\ registry = {}
    /\ accepted = {}
    /\ shipped = {}
    /\ request = [r \in Requests |-> IdleRequest]
    /\ golive = [c \in Callers |-> IdleGoLive]
    /\ callback = [d \in IDs |-> "idle"]
    /\ sync = IdleSync
    /\ wallet = IdleWallet
    /\ crashes = 0
    /\ ClusterInit

-----------------------------------------------------------------------------
\* Rows.

\* The conditional UPDATE of Transition: nothing happens when the row has
\* already moved on.  A row that is written is no longer late.
Transition(d, to) ==
    IF CanTransition(status[d], to)
    THEN /\ status' = [status EXCEPT ![d] = to]
         /\ late' = late \ {d}
    ELSE UNCHANGED statusVars

Pending(d) == status[d] \in PendingStatuses

\* targetAuthorised, for the record number read from the target row.  The mutant
\* does not look at the record's status.
AuthorisedOncePrepared(n) == n # 0
Authorised(n) == n # 0 /\ record[n] = "signed"

\* Time passes until the timeout the cron has for the row's status expires.
GrowLate(d) ==
    /\ "timeout" \in Events
    /\ status[d] \in {"queued", "building", "awaiting_signature", "deploying"}
    /\ d \notin late
    /\ late' = late \cup {d}
    /\ UNCHANGED <<columns, status, job, run, registry, w3dsVars, handlerVars,
                   cluster, crashes>>

\* cancelDeployment: stop the build run the row knows of, then cancel the row.
CancelDeployment(d) ==
    LET runs == job[d].run /\ job[d].status \in {"queued", "running"} IN
    /\ job' = IF runs THEN [job EXCEPT ![d].status = "cancelled"] ELSE job
    /\ run' = IF runs /\ run[d] = "active"
              THEN [run EXCEPT ![d] = "cancelled"] ELSE run
    /\ Transition(d, "cancelled")

-----------------------------------------------------------------------------
\* Web requests: Deploy, Rollback and Cancel.

outsideRequests == <<registry, callback, sync, wallet, cluster, crashes>>

\* Deploy up to EnsureTarget: whether the wallet has to sign is decided here.
\* Refused requests change nothing.
StartDeploy(r, v) ==
    /\ request[r].pc = "idle"
    /\ lastID < MaxDeployments
    /\ request' = [request EXCEPT ![r] =
            [pc |-> IF RequireW3DS /\ ~Authorised(target.record)
                    THEN "prepare" ELSE "create",
             version |-> v, dep |-> 0]]
    /\ UNCHANGED <<columns, statusVars, job, run, w3dsVars, golive, outsideRequests>>

\* prepareTargetSigning: a new record replaces the target's one.
PrepareSigning(r) ==
    /\ request[r].pc = "prepare"
    /\ \E n \in Records :
        /\ record[n] = "none"
        /\ \A m \in Records : m < n => record[m] # "none"
        /\ record' = [record EXCEPT ![n] = "awaiting"]
        /\ target' = [target EXCEPT !.record = n, !.version = request[r].version]
    /\ accepted' = accepted \cup {request[r].version}
    /\ request' = [request EXCEPT ![r].pc = "create"]
    /\ UNCHANGED <<columns, statusVars, job, run, golive, outsideRequests>>

PrepareFails(r) ==
    /\ "prepare" \in Events
    /\ request[r].pc = "prepare"
    /\ request' = [request EXCEPT ![r] = IdleRequest]
    /\ UNCHANGED <<columns, statusVars, job, run, w3dsVars, golive, outsideRequests>>

\* The models' CreateDeployment, after which the request supersedes.
InsertDeployment(r, v, digest, previous) ==
    LET d == lastID + 1 IN
    /\ d \in IDs
    /\ lastID' = d
    /\ status' = [status EXCEPT ![d] = "queued"]
    /\ version' = [version EXCEPT ![d] = v]
    /\ image' = [image EXCEPT ![d] = digest]
    /\ rollbackOf' = [rollbackOf EXCEPT ![d] = previous]
    /\ request' = [request EXCEPT ![r] = [pc |-> "supersede", version |-> v, dep |-> d]]
    /\ UNCHANGED <<late, job, run, w3dsVars, golive, outsideRequests>>

CreateDeployment(r) ==
    /\ request[r].pc = "create"
    /\ InsertDeployment(r, request[r].version, NoImage, 0)

\* Rollback to a deployment that was live and whose image still exists.
StartRollback(r, previous) ==
    /\ request[r].pc = "idle"
    /\ status[previous] \in {"live", "superseded"}
    /\ image[previous] \in registry
    /\ InsertDeployment(r, version[previous], image[previous], previous)

\* ListPendingDeployments, as supersedePending uses it.  The mutant forgets the
\* deployments that wait after their build.
OlderUnbuilt(d) == {e \in IDs : e < d /\ status[e] \in {"queued", "building"}}
OlderPending(d) == {e \in IDs : e < d /\ Pending(e)}

\* supersedePending: cancel the older pending deployments one after another.
SupersedeOne(r, d) ==
    /\ request[r].pc = "supersede"
    /\ d \in OlderPending(request[r].dep)
    /\ CancelDeployment(d)
    /\ UNCHANGED <<columns, w3dsVars, request, golive, outsideRequests>>

\* None is left: a deploy dispatches its build, a rollback goes live.
SupersedeDone(r) ==
    LET d == request[r].dep IN
    /\ request[r].pc = "supersede"
    /\ OlderPending(d) = {}
    /\ IF rollbackOf[d] = 0
       THEN /\ request' = [request EXCEPT ![r].pc = "dispatch"]
            /\ UNCHANGED golive
       ELSE /\ request' = [request EXCEPT ![r] = IdleRequest]
            /\ golive' = [golive EXCEPT ![d] = GoLiveOf(d)]
    /\ UNCHANGED <<columns, statusVars, job, run, w3dsVars, outsideRequests>>

\* dispatchBuild: the job row and the workflow run, then the run's number.
DispatchRun(r) ==
    LET d == request[r].dep IN
    /\ request[r].pc = "dispatch"
    /\ job' = [job EXCEPT ![d].status = "queued"]
    /\ run' = [run EXCEPT ![d] = "active"]
    /\ request' = [request EXCEPT ![r].pc = "save"]
    /\ UNCHANGED <<columns, statusVars, w3dsVars, golive, outsideRequests>>

DispatchFails(r) ==
    LET d == request[r].dep IN
    /\ "dispatch" \in Events
    /\ request[r].pc = "dispatch"
    /\ job' = [job EXCEPT ![d].status = "failed"]
    /\ Transition(d, "build_failed")
    /\ request' = [request EXCEPT ![r] = IdleRequest]
    /\ UNCHANGED <<columns, run, w3dsVars, golive, outsideRequests>>

SaveRunID(r) ==
    /\ request[r].pc = "save"
    /\ job' = [job EXCEPT ![request[r].dep].run = TRUE]
    /\ request' = [request EXCEPT ![r] = IdleRequest]
    /\ UNCHANGED <<columns, statusVars, run, w3dsVars, golive, outsideRequests>>

\* Cancel from the Deploy tab.
CancelByUser(d) ==
    /\ "cancel" \in Events
    /\ Pending(d)
    /\ CancelDeployment(d)
    /\ UNCHANGED <<columns, w3dsVars, request, golive, outsideRequests>>

-----------------------------------------------------------------------------
\* The builder: an untrusted workflow run that pushes an image and reports it.

outsideBuild == <<lastID, version, rollbackOf, w3dsVars, request, sync, wallet,
                  cluster, crashes>>

\* A run ends after its report, or without one.
EndRun(d, outcome) ==
    /\ "end" \in Events
    /\ run[d] = "active"
    /\ outcome # "succeeded" => "build" \in Events
    /\ run' = [run EXCEPT ![d] = outcome]
    /\ UNCHANGED <<image, statusVars, job, registry, golive, callback, outsideBuild>>

\* HandleBuildCallback up to ConsumeNonce: a callback is accepted once, at any
\* time after the run was dispatched.  An honest run has pushed what it reports.
ConsumeNonce(d, result) ==
    /\ result = "forged" => "forge" \in Events
    /\ result = "failure" => "build" \in Events
    /\ run[d] # "none"
    /\ ~job[d].nonceUsed
    /\ job' = [job EXCEPT ![d].nonceUsed = TRUE]
    /\ callback' = [callback EXCEPT ![d] = result]
    /\ registry' = IF result = "image" THEN registry \cup {d} ELSE registry
    /\ UNCHANGED <<image, statusVars, run, golive, outsideBuild>>

\* The digest a result reports, and whether the registry has it.  The mutant takes
\* the report's word for it.
Reported(d, result) == IF result = "forged" THEN Forged ELSE d
ReportedImage(d, result) == result \in {"image", "forged"}
VerifiedImage(d, result) ==
    result \in {"image", "forged"} /\ Reported(d, result) \in registry

\* The callback moves a queued row to building, in a write of its own before it looks
\* at the result.  No row becomes queued again.
StartBuilding(d) ==
    /\ callback[d] \in Results /\ status[d] = "queued"
    /\ Transition(d, "building")
    /\ UNCHANGED <<image, job, run, registry, golive, callback, outsideBuild>>

\* A failed or blocked build, or a digest that could not be verified.
ApplyFailure(d) ==
    /\ callback[d] \in Results /\ status[d] # "queued"
    /\ callback[d] = "failure" \/ ~VerifiedImage(d, callback[d]) \/ "build" \in Events
    /\ job' = [job EXCEPT ![d].status = "failed"]
    /\ callback' = [callback EXCEPT ![d] = "idle"]
    /\ Transition(d, "build_failed")
    /\ UNCHANGED <<image, run, registry, golive, outsideBuild>>

\* A verified image: unless the deployment was cancelled meanwhile, the row is
\* built and goes live.
ApplyImage(d) ==
    LET digest == Reported(d, callback[d]) IN
    /\ VerifiedImage(d, callback[d]) /\ status[d] # "queued"
    /\ job' = [job EXCEPT ![d].status = "succeeded"]
    /\ callback' = [callback EXCEPT ![d] = "idle"]
    /\ IF CanTransition(status[d], "built")
       THEN /\ status' = [status EXCEPT ![d] = "built"]
            /\ late' = late \ {d}
            /\ image' = [image EXCEPT ![d] = digest]
            /\ golive' = [golive EXCEPT ![d] = GoLiveOf(d)]
       ELSE UNCHANGED <<statusVars, image, golive>>
    /\ UNCHANGED <<run, registry, outsideBuild>>

-----------------------------------------------------------------------------
\* goLive, by one of its callers.  The target row is read once, at the start.

outsideGoLive == <<columns, job, run, registry, record, request, callback, sync,
                   wallet, crashes>>

GoLiveAt(c, pc) == golive[c].pc = pc
GoLiveTo(c, pc) == golive' = [golive EXCEPT ![c].pc = pc]
GoLiveEnds(c)   == golive' = [golive EXCEPT ![c] = IdleGoLive]

\* What ensureW3DSVersion does with the target row it was given.  The mutant does
\* not compare the version that was published with the one to ship.
SendOnceSigned(d) ==
    IF RequireW3DS /\ ~Authorised(target.record) THEN "park" ELSE "send"
AfterLoad(d) ==
    IF RequireW3DS /\ ~Authorised(target.record) THEN "park"
    ELSE IF RequireW3DS /\ version[d] # target.version THEN "publish"
    ELSE "send"

\* GetTarget and ensureW3DSVersion up to its first outside call.
LoadTarget(c) ==
    /\ GoLiveAt(c, "load")
    /\ GoLiveTo(c, AfterLoad(golive[c].dep))
    /\ UNCHANGED <<statusVars, target, accepted, cluster, outsideGoLive>>

\* Not signed yet: the deployment waits for the wallet.
ParkForSignature(c) ==
    /\ GoLiveAt(c, "park")
    /\ Transition(golive[c].dep, "awaiting_signature")
    /\ GoLiveEnds(c)
    /\ UNCHANGED <<target, accepted, cluster, outsideGoLive>>

\* publishW3DSVersion: accepted, denied by the PPA, or failed and retried later.
PublishAccepted(c) ==
    /\ GoLiveAt(c, "publish")
    /\ accepted' = accepted \cup {version[golive[c].dep]}
    /\ GoLiveTo(c, "record")
    /\ UNCHANGED <<statusVars, target, cluster, outsideGoLive>>

PublishRefused(c) ==
    /\ "publish" \in Events
    /\ GoLiveAt(c, "publish")
    /\ \E to \in {"deploy_failed", "awaiting_certification"} :
            Transition(golive[c].dep, to)
    /\ GoLiveEnds(c)
    /\ UNCHANGED <<target, accepted, cluster, outsideGoLive>>

RecordVersion(c) ==
    /\ GoLiveAt(c, "record")
    /\ target' = [target EXCEPT !.version = version[golive[c].dep]]
    /\ GoLiveTo(c, "send")
    /\ UNCHANGED <<statusVars, accepted, cluster, outsideGoLive>>

\* deployToCluster: the environment snapshot is saved in the row, the environment and
\* the image in Dokploy, and only then is the release deployed.
SendImage(c) ==
    LET d == golive[c].dep IN
    /\ GoLiveAt(c, "send")
    /\ SaveDockerProvider(image[d])
    /\ late' = late \ {d}
    /\ GoLiveTo(c, "deploy")
    /\ UNCHANGED <<status, target, accepted, shipped, outsideGoLive>>

DeployApp(c) ==
    LET d == golive[c].dep IN
    /\ GoLiveAt(c, "deploy")
    /\ QueueJob(d)
    /\ shipped' = shipped \cup {d}
    /\ GoLiveTo(c, "mark")
    /\ UNCHANGED <<statusVars, target, accepted, outsideGoLive>>

\* A call to Dokploy fails, with or without its effect.
SendFails(c) ==
    LET d == golive[c].dep IN
    /\ "send" \in Events
    /\ golive[c].pc \in {"send", "deploy"}
    /\ \/ UNCHANGED cluster
       \/ GoLiveAt(c, "send") /\ SaveDockerProvider(image[d]) /\ UNCHANGED shipped
       \/ GoLiveAt(c, "deploy") /\ QueueJob(d) /\ shipped' = shipped \cup {d}
    /\ Transition(d, "deploy_failed")
    /\ GoLiveEnds(c)
    /\ UNCHANGED <<target, accepted, outsideGoLive>>

MarkDeploying(c) ==
    /\ GoLiveAt(c, "mark")
    /\ Transition(golive[c].dep, "deploying")
    /\ GoLiveEnds(c)
    /\ UNCHANGED <<target, accepted, cluster, outsideGoLive>>

-----------------------------------------------------------------------------
\* SyncDeployments: the cron task lists the rows in flight, then handles each
\* by the status and the age it had in the list, in the order of their IDs.

outsideSync == <<columns, registry, record, accepted, request, callback, wallet,
                 cluster, crashes>>

Listed == {d \in IDs : sync.todo[d] # "none"}
Handling(d, statuses) ==
    /\ sync.todo[d] \in statuses
    /\ \A e \in Listed : d <= e
    /\ golive[SyncCaller].pc = "idle"
Handled(d) ==
    sync' = [IdleSync EXCEPT !.todo = [sync.todo EXCEPT ![d] = "none"],
                             !.overdue = sync.overdue \ {d}]
Overdue(d) == d \in late \cup sync.overdue

\* ListDeploymentsByStatus for the statuses in flight.  The mutant lists all rows.
EveryDeployment == IDs
InFlight == {d \in IDs : status[d] \in InFlightStatuses}

ListInFlight ==
    /\ Listed = {}
    /\ golive[SyncCaller].pc = "idle"
    /\ sync' = [IdleSync EXCEPT
            !.todo = [d \in IDs |-> IF d \in InFlight THEN status[d] ELSE "none"],
            !.overdue = late \cap InFlight]
    /\ UNCHANGED <<statusVars, job, run, target, golive, outsideSync>>

\* A run that failed, or succeeded five minutes ago without a valid report.  The
\* mutant looks only for the first.
RunFailed(d) == run[d] = "failed"
RunLost(d) == run[d] = "failed" \/ (run[d] = "succeeded" /\ Overdue(d))

\* syncBuild: follow the builder's run of a queued or building deployment.
\* A rollback has no job, and a job without a saved run is not looked at.
SyncBuild(d) ==
    LET known == job[d].status # "none" /\ job[d].run IN
    /\ Handling(d, {"queued", "building"})
    /\ Handled(d)
    /\ CASE known /\ run[d] = "active" /\ sync.todo[d] = "queued" ->
                \* Still waiting for a runner, or running.
                \/ UNCHANGED <<job, statusVars>>
                \/ /\ job' = [job EXCEPT ![d].status = "running"]
                   /\ Transition(d, "building")
         [] known /\ RunLost(d) ->
                /\ job' = [job EXCEPT ![d].status = "failed"]
                /\ Transition(d, "build_failed")
         [] known /\ run[d] = "cancelled" ->
                /\ job' = [job EXCEPT ![d].status = "cancelled"]
                /\ Transition(d, "cancelled")
         [] OTHER -> UNCHANGED <<job, statusVars>>
    /\ UNCHANGED <<run, target, golive, outsideSync>>

SyncCallsGoLive(d) ==
    /\ Handled(d)
    /\ golive' = [golive EXCEPT ![SyncCaller] = GoLiveOf(d)]
    /\ UNCHANGED <<statusVars, job, run, target, outsideSync>>

SyncBuilt(d) ==
    /\ Handling(d, {"built", "awaiting_certification"})
    /\ SyncCallsGoLive(d)

\* syncSignature: go live once signed, give up a day after parking.
SyncSigned(d) ==
    /\ Handling(d, {"awaiting_signature"})
    /\ Authorised(target.record)
    /\ SyncCallsGoLive(d)

SyncUnsigned(d) ==
    /\ Handling(d, {"awaiting_signature"})
    /\ ~Authorised(target.record)
    /\ Handled(d)
    /\ IF Overdue(d) THEN CancelDeployment(d) ELSE UNCHANGED <<job, run, statusVars>>
    /\ UNCHANGED <<target, golive, outsideSync>>

\* syncRollout: the target row and the rollout are read before acting on them.
ReadRollout(d) ==
    /\ Handling(d, {"deploying"})
    /\ sync.pc = "scan"
    /\ sync' = [sync EXCEPT !.pc = "verdict", !.live = target.live,
                            !.verdict = RolloutState(d, image[d])]
    /\ UNCHANGED <<statusVars, job, run, target, golive, outsideSync>>

\* Anything but a healthy rollout ends the deployment, or waits for the timeout.
EndRollout(d) ==
    /\ Handling(d, {"deploying"})
    /\ sync.pc = "verdict"
    /\ sync.verdict # "healthy"
    /\ Handled(d)
    /\ IF sync.verdict = "rolled_back" THEN Transition(d, "rolled_back")
       ELSE IF sync.verdict \in {"failed", "rejected"} \/ Overdue(d)
       THEN Transition(d, "deploy_failed")
       ELSE UNCHANGED statusVars
    /\ UNCHANGED <<job, run, target, golive, outsideSync>>

\* markLive in its three writes: the new row, the previous row, the target row.
MarkLive(d) ==
    /\ Handling(d, {"deploying"})
    /\ sync.pc = "verdict"
    /\ sync.verdict = "healthy"
    /\ Transition(d, "live")
    /\ IF CanTransition(status[d], "live")
       THEN sync' = [sync EXCEPT !.pc = "retire"]
       ELSE Handled(d)
    /\ UNCHANGED <<job, run, target, golive, outsideSync>>

RetirePrevious(d) ==
    /\ Handling(d, {"deploying"})
    /\ sync.pc = "retire"
    /\ sync' = [sync EXCEPT !.pc = "point"]
    /\ IF sync.live \notin {0, d}
       THEN Transition(sync.live, "superseded")
       ELSE UNCHANGED statusVars
    /\ UNCHANGED <<job, run, target, golive, outsideSync>>

PointTarget(d) ==
    /\ Handling(d, {"deploying"})
    /\ sync.pc = "point"
    /\ target' = [target EXCEPT !.live = d]
    /\ Handled(d)
    /\ UNCHANGED <<statusVars, job, run, golive, outsideSync>>

SyncStep ==
    \/ ListInFlight
    \/ \E d \in IDs :
            \/ SyncBuild(d) \/ SyncBuilt(d) \/ SyncSigned(d) \/ SyncUnsigned(d)
            \/ ReadRollout(d) \/ EndRollout(d)
            \/ MarkLive(d) \/ RetirePrevious(d) \/ PointTarget(d)

-----------------------------------------------------------------------------
\* The wallet callback of a W3DS deployment record, and OnW3DSDeploymentSigned.

outsideWallet == <<columns, statusVars, job, run, registry, target, accepted,
                   request, callback, sync, cluster, crashes>>

\* ClaimDeploymentSignature: a record is claimed once.
ClaimSignature(n) ==
    /\ wallet.pc = "idle"
    /\ record[n] = "awaiting"
    /\ record' = [record EXCEPT ![n] = "claimed"]
    /\ wallet' = [wallet EXCEPT !.pc = "save", !.record = n]
    /\ UNCHANGED <<golive, outsideWallet>>

\* The release changed while the wallet was open: the record stays unsigned.
RefuseSignature ==
    /\ wallet.pc = "save"
    /\ wallet' = IdleWallet
    /\ UNCHANGED <<record, golive, outsideWallet>>

RecordSignature ==
    /\ wallet.pc = "save"
    /\ record' = [record EXCEPT ![wallet.record] = "signed"]
    /\ wallet' = [wallet EXCEPT !.pc = "resume"]
    /\ UNCHANGED <<golive, outsideWallet>>

\* The target is found by the signed record; its waiting deployments are listed.
ListWaiting ==
    /\ wallet.pc = "resume"
    /\ wallet' = IF target.record = wallet.record
                 THEN [wallet EXCEPT !.pc = "golive",
                          !.waiting = {d \in IDs : status[d] = "awaiting_signature"}]
                 ELSE IdleWallet
    /\ UNCHANGED <<record, golive, outsideWallet>>

ResumeWaiting(d) ==
    /\ wallet.pc = "golive"
    /\ golive[WalletCaller].pc = "idle"
    /\ d \in wallet.waiting
    /\ \A e \in wallet.waiting : d <= e
    /\ wallet' = [wallet EXCEPT !.waiting = @ \ {d}]
    /\ golive' = [golive EXCEPT ![WalletCaller] = GoLiveOf(d)]
    /\ UNCHANGED <<record, outsideWallet>>

WalletReturns ==
    /\ wallet.pc = "golive"
    /\ wallet.waiting = {}
    /\ golive[WalletCaller].pc = "idle"
    /\ wallet' = IdleWallet
    /\ UNCHANGED <<record, golive, outsideWallet>>

-----------------------------------------------------------------------------
\* The process restarts: every handler is lost, the rows stay.
Crash ==
    /\ crashes < MaxCrashes
    /\ crashes' = crashes + 1
    /\ request' = [r \in Requests |-> IdleRequest]
    /\ golive' = [c \in Callers |-> IdleGoLive]
    /\ callback' = [d \in IDs |-> "idle"]
    /\ sync' = IdleSync
    /\ wallet' = IdleWallet
    /\ UNCHANGED <<columns, statusVars, job, run, registry, w3dsVars, cluster>>

ClusterStep ==
    /\ \/ "cluster" \in Events /\ (JobUpdatesService \/ ReplicasReady)
       \/ "pull" \in Events /\ JobFails
       \/ "rollout" \in Events /\ (RollbackStarts \/ RollbackCompletes)
    /\ UNCHANGED <<columns, statusVars, job, run, registry, w3dsVars, handlerVars,
                   shipped, crashes>>

\* A request that has started goes on until it returns.
RequestStep(r) ==
    \/ PrepareSigning(r) \/ PrepareFails(r) \/ CreateDeployment(r)
    \/ \E d \in IDs : SupersedeOne(r, d)
    \/ SupersedeDone(r)
    \/ DispatchRun(r) \/ DispatchFails(r) \/ SaveRunID(r)

CallbackStep(d) == StartBuilding(d) \/ ApplyFailure(d) \/ ApplyImage(d)

GoLiveStep(c) ==
    \/ LoadTarget(c) \/ ParkForSignature(c)
    \/ PublishAccepted(c) \/ PublishRefused(c) \/ RecordVersion(c)
    \/ SendImage(c) \/ DeployApp(c) \/ SendFails(c) \/ MarkDeploying(c)

WalletStep ==
    \/ RefuseSignature \/ RecordSignature \/ ListWaiting
    \/ \E d \in IDs : ResumeWaiting(d)
    \/ WalletReturns

\* What people, the builder and time may do.
EnvironmentStep ==
    \/ \E r \in Requests : \E v \in Versions : StartDeploy(r, v)
    \/ \E r \in Requests : \E d \in IDs : StartRollback(r, d)
    \/ \E n \in Records : ClaimSignature(n)
    \/ \E d \in IDs :
            \/ CancelByUser(d) \/ GrowLate(d)
            \/ \E outcome \in RunEnds : EndRun(d, outcome)
            \/ \E result \in Results : ConsumeNonce(d, result)

Next ==
    \/ EnvironmentStep
    \/ \E r \in Requests : RequestStep(r)
    \/ \E d \in IDs : CallbackStep(d)
    \/ \E c \in Callers : GoLiveStep(c)
    \/ SyncStep
    \/ WalletStep
    \/ ClusterStep
    \/ Crash

Spec == Init /\ [][Next]_vars

(***************************************************************************)
(* Handlers that have started run on and the cron fires every 15 seconds.  *)
(* A workflow run ends, since the builder limits its jobs, and timeouts    *)
(* expire.  Nothing is assumed of people, of the cluster, or of crashes.   *)
(***************************************************************************)
Fairness ==
    /\ \A r \in Requests : WF_vars(RequestStep(r))
    /\ \A d \in IDs : WF_vars(CallbackStep(d) \/ GoLiveStep(d))
    /\ WF_vars(SyncStep \/ GoLiveStep(SyncCaller))
    /\ WF_vars(WalletStep \/ GoLiveStep(WalletCaller))
    /\ \A d \in IDs :
            /\ WF_vars(GrowLate(d))
            /\ WF_vars(\E outcome \in RunEnds : EndRun(d, outcome))

FairSpec == Spec /\ Fairness
=============================================================================
