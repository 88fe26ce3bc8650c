---------------------------- MODULE HostingProofs ----------------------------
(***************************************************************************)
(* Proofs about Hosting for every number of requests, versions, records,   *)
(* deployments and crashes, and every set of outside events.               *)
(*                                                                         *)
(* One inductive invariant is proved: TypeOK, References and SigningInv    *)
(* together.  TypeOK alone is not inductive, since a handler that worked on *)
(* deployment 0 would leave the types; References rules that out.  The     *)
(* signing properties hold because of what goLive remembers between its    *)
(* steps, which SigningInv states.  Each of the three has a lemma with one *)
(* step per action.                                                        *)
(***************************************************************************)
EXTENDS HostingProperties, TLAPS

USE DEF columns, statusVars, w3dsVars, handlerVars, cluster, clusterVars,
        outsideRequests, outsideBuild, outsideGoLive, outsideSync, outsideWallet

\* The conditional status update of Transition writes only known statuses.
LEMMA TransitionType ==
    ASSUME TypeOK, NEW d, NEW to \in Statuses, Transition(d, to)
    PROVE  status' \in [IDs -> RowStatuses] /\ late' \subseteq IDs
BY DEF TypeOK, Transition, RowStatuses

\* Writing one column of the target row keeps the row's type.
LEMMA TargetFields ==
    ASSUME TypeOK
    PROVE  /\ \A d \in IDs : [target EXCEPT !.live = d] \in TargetType
           /\ \A v \in Versions \cup {NoVersion} : [target EXCEPT !.version = v] \in TargetType
           /\ \A n \in Records, v \in Versions \cup {NoVersion} :
                [target EXCEPT !.record = n, !.version = v] \in TargetType
BY DEF TypeOK, TargetType

\* The data of a web request, and moving it on to its next step.
LEMMA RequestFields ==
    ASSUME TypeOK, NEW r \in Requests
    PROVE  /\ request[r].version \in Versions \cup {NoVersion}
           /\ request[r].dep \in IDs \cup {0}
           /\ \A pc \in {"create", "dispatch", "save"} :
                [request EXCEPT ![r].pc = pc] \in [Requests -> RequestType]
BY DEF TypeOK, RequestType

\* Writing one column of a build job keeps the rows' type.
LEMMA JobFields ==
    ASSUME TypeOK
    PROVE  \A d \in IDs :
            /\ \A s \in JobStatuses : [job EXCEPT ![d].status = s] \in [IDs -> JobType]
            /\ [job EXCEPT ![d].run = TRUE] \in [IDs -> JobType]
            /\ [job EXCEPT ![d].nonceUsed = TRUE] \in [IDs -> JobType]
BY DEF TypeOK, JobType

\* The data of a goLive call, moving it on, ending it and starting one.
LEMMA GoLiveFields ==
    ASSUME TypeOK, NEW c \in Callers
    PROVE  /\ golive[c].dep \in IDs \cup {0}
           /\ \A pc \in {"park", "publish", "record", "send", "deploy", "mark"} :
                [golive EXCEPT ![c].pc = pc] \in [Callers -> GoLiveType]
           /\ [golive EXCEPT ![c] = IdleGoLive] \in [Callers -> GoLiveType]
           /\ \A d \in IDs : [golive EXCEPT ![c] = GoLiveOf(d)] \in [Callers -> GoLiveType]
BY DEF TypeOK, GoLiveType, IdleGoLive, GoLiveOf

\* The data of the sync task, and what it is once a row has been handled.
LEMMA SyncFields ==
    ASSUME TypeOK
    PROVE  /\ sync.overdue \subseteq IDs
           /\ sync.live \in IDs \cup {0}
           /\ \A pc \in {"retire", "point"} : [sync EXCEPT !.pc = pc] \in SyncType
           /\ \A d \in IDs : Handled(d) => sync' \in SyncType
<1>1. sync.overdue \subseteq IDs /\ sync.live \in IDs \cup {0}
  BY DEF TypeOK, SyncType
<1>2. \A pc \in {"retire", "point"} : [sync EXCEPT !.pc = pc] \in SyncType
  BY DEF TypeOK, SyncType
<1>3. ASSUME NEW d \in IDs, Handled(d)
      PROVE  sync' \in SyncType
  <2>1. [sync.todo EXCEPT ![d] = "none"] \in [IDs -> InFlightStatuses \cup {"none"}]
    BY DEF TypeOK, SyncType
  <2>2. sync' = [pc |-> "scan", todo |-> [sync.todo EXCEPT ![d] = "none"],
                 overdue |-> sync.overdue \ {d}, verdict |-> "unknown", live |-> 0]
    BY <1>3 DEF Handled, IdleSync
  <2>. QED  BY <1>1, <2>1, <2>2 DEF SyncType, Rollouts
<1>. QED  BY <1>1, <1>2, <1>3

\* Deployments are numbers from 1; their digests and callers are numbers too.
LEMMA DigestFields ==
    ASSUME HostingAssumption
    PROVE  /\ IDs \subseteq Nat /\ 0 \notin IDs
           /\ NoImage \in Digests /\ Forged \in Digests /\ IDs \subseteq Digests
           /\ IDs \subseteq Callers /\ SyncCaller \in Callers /\ WalletCaller \in Callers
BY DEF HostingAssumption, IDs, Digests, Forged, NoImage, Callers, SyncCaller, WalletCaller

\* CreateDeployment of the models keeps the types, for a deploy and a rollback.
LEMMA InsertType ==
    ASSUME HostingAssumption, TypeOK, NEW r \in Requests,
           NEW v \in Versions \cup {NoVersion}, NEW digest \in Digests,
           NEW previous \in IDs \cup {0}, InsertDeployment(r, v, digest, previous)
    PROVE  TypeOK'
BY DEF TypeOK, InsertDeployment, ClusterTypeOK, HostingAssumption, IDs,
       RowStatuses, Statuses, PendingStatuses, RequestType

\* cancelDeployment keeps the types of the rows it writes.
LEMMA CancelType ==
    ASSUME TypeOK, NEW d \in IDs, CancelDeployment(d)
    PROVE  /\ status' \in [IDs -> RowStatuses] /\ late' \subseteq IDs
           /\ job' \in [IDs -> JobType] /\ run' \in [IDs -> RunStates]
<1>1. status' \in [IDs -> RowStatuses] /\ late' \subseteq IDs
  BY TransitionType DEF CancelDeployment, Statuses
<1>2. job' \in [IDs -> JobType]
  BY JobFields DEF CancelDeployment, TypeOK, JobStatuses
<1>3. run' \in [IDs -> RunStates]
  BY DEF CancelDeployment, TypeOK, RunStates
<1>. QED  BY <1>1, <1>2, <1>3

\* A running goLive works on a deployment.
LEMMA GoLiveDep ==
    ASSUME HostingAssumption, References, TypeOK, NEW c \in Callers, golive[c].pc # "idle"
    PROVE  golive[c].dep \in IDs
BY DEF References, TypeOK, IDs, HostingAssumption

\* A request past its insert works on a deployment.
LEMMA RequestDep ==
    ASSUME HostingAssumption, References, TypeOK, NEW r \in Requests,
           request[r].pc \in {"supersede", "dispatch", "save"}
    PROVE  request[r].dep \in IDs
BY DEF References, Working, TypeOK, IDs, HostingAssumption

\* Handlers that are not running are of their type.
LEMMA IdleTypes ==
    /\ IdleRequest \in RequestType /\ IdleGoLive \in GoLiveType
    /\ IdleSync \in SyncType /\ IdleWallet \in WalletType
BY DEF IdleRequest, RequestType, IdleGoLive, GoLiveType, IdleSync, SyncType, Rollouts,
       IdleWallet, WalletType

-----------------------------------------------------------------------------
\* Every step keeps the types, given that handlers work on existing deployments.
LEMMA TypeStep ==
    ASSUME HostingAssumption, TypeOK, References, Next
    PROVE  TypeOK'
<1>1. ASSUME NEW r \in Requests, NEW v \in Versions, StartDeploy(r, v)
      PROVE  TypeOK'
  BY <1>1 DEF StartDeploy, TypeOK, ClusterTypeOK, RequestType
<1>2. ASSUME NEW r \in Requests, PrepareSigning(r)
      PROVE  TypeOK'
  <2>1. PICK n \in Records :
            /\ record' = [record EXCEPT ![n] = "awaiting"]
            /\ target' = [target EXCEPT !.record = n, !.version = request[r].version]
    BY <1>2 DEF PrepareSigning
  <2>2. record' \in [Records -> RecordType]
    BY <2>1 DEF TypeOK, RecordType
  <2>3. target' \in TargetType
    BY <2>1, TargetFields, RequestFields
  <2>4. request' \in [Requests -> RequestType]
    BY <1>2, RequestFields DEF PrepareSigning
  <2>. QED
    BY <1>2, <2>2, <2>3, <2>4, RequestFields DEF TypeOK, PrepareSigning, ClusterTypeOK
<1>3. ASSUME NEW r \in Requests, PrepareFails(r)
      PROVE  TypeOK'
  BY <1>3 DEF PrepareFails, TypeOK, ClusterTypeOK, RequestType, IdleRequest
<1>4. ASSUME NEW r \in Requests, CreateDeployment(r)
      PROVE  TypeOK'
  BY <1>4, InsertType, RequestFields, DigestFields DEF CreateDeployment
<1>5. ASSUME NEW r \in Requests, NEW d \in IDs, StartRollback(r, d)
      PROVE  TypeOK'
  BY <1>5, InsertType DEF StartRollback, TypeOK
<1>6. ASSUME NEW r \in Requests, NEW d \in IDs, SupersedeOne(r, d)
      PROVE  TypeOK'
  BY <1>6, CancelType DEF SupersedeOne, TypeOK, ClusterTypeOK
<1>7. ASSUME NEW r \in Requests, SupersedeDone(r)
      PROVE  TypeOK'
  <2>1. request' \in [Requests -> RequestType]
    BY <1>7, RequestFields, IdleTypes DEF SupersedeDone, TypeOK
  <2>2. request[r].dep \in IDs /\ request[r].dep \in Callers
    BY <1>7, RequestDep, DigestFields DEF SupersedeDone
  <2>3. golive' \in [Callers -> GoLiveType]
    <3>1. CASE UNCHANGED golive
      BY <3>1 DEF TypeOK
    <3>2. CASE golive' = [golive EXCEPT ![request[r].dep] = GoLiveOf(request[r].dep)]
      <4>1. [golive EXCEPT ![request[r].dep] = GoLiveOf(request[r].dep)]
                \in [Callers -> GoLiveType]
        BY <2>2, GoLiveFields
      <4>. QED  BY <3>2, <4>1
    <3>. QED  BY <1>7, <3>1, <3>2 DEF SupersedeDone
  <2>. QED  BY <1>7, <2>1, <2>3 DEF SupersedeDone, TypeOK, ClusterTypeOK
<1>8. ASSUME NEW r \in Requests, DispatchRun(r)
      PROVE  TypeOK'
  <2>1. job' \in [IDs -> JobType]
    BY <1>8, JobFields, RequestDep DEF DispatchRun, JobStatuses
  <2>2. request' \in [Requests -> RequestType]
    BY <1>8, RequestFields DEF DispatchRun, TypeOK
  <2>. QED  BY <1>8, <2>1, <2>2 DEF DispatchRun, TypeOK, ClusterTypeOK, RunStates
<1>9. ASSUME NEW r \in Requests, DispatchFails(r)
      PROVE  TypeOK'
  <2>1. job' \in [IDs -> JobType]
    BY <1>9, JobFields, RequestDep DEF DispatchFails, JobStatuses
  <2>2. request' \in [Requests -> RequestType]
    BY <1>9, RequestFields, IdleTypes DEF DispatchFails, TypeOK
  <2>3. status' \in [IDs -> RowStatuses] /\ late' \subseteq IDs
    BY <1>9, TransitionType DEF DispatchFails, Statuses
  <2>. QED  BY <1>9, <2>1, <2>2, <2>3 DEF DispatchFails, TypeOK, ClusterTypeOK
<1>10. ASSUME NEW r \in Requests, SaveRunID(r)
      PROVE  TypeOK'
  <2>1. job' \in [IDs -> JobType]
    BY <1>10, JobFields, RequestDep DEF SaveRunID, JobStatuses
  <2>2. request' \in [Requests -> RequestType]
    BY <1>10, RequestFields, IdleTypes DEF SaveRunID, TypeOK
  <2>. QED  BY <1>10, <2>1, <2>2 DEF SaveRunID, TypeOK, ClusterTypeOK
<1>11. ASSUME NEW d \in IDs, CancelByUser(d)
      PROVE  TypeOK'
  BY <1>11, CancelType DEF CancelByUser, TypeOK, ClusterTypeOK
<1>12. ASSUME NEW d \in IDs, GrowLate(d)
      PROVE  TypeOK'
  BY <1>12 DEF GrowLate, TypeOK, ClusterTypeOK
<1>13. ASSUME NEW d \in IDs, NEW outcome \in RunEnds, EndRun(d, outcome)
      PROVE  TypeOK'
  BY <1>13 DEF EndRun, TypeOK, ClusterTypeOK, RunEnds, RunStates
<1>14. ASSUME NEW d \in IDs, NEW result \in Results, ConsumeNonce(d, result)
      PROVE  TypeOK'
  BY <1>14, JobFields, DigestFields DEF ConsumeNonce, TypeOK, ClusterTypeOK
<1>15. ASSUME NEW d \in IDs, StartBuilding(d) \/ ApplyFailure(d)
      PROVE  TypeOK'
  <2>1. CASE StartBuilding(d)
    BY <2>1, TransitionType
    DEF StartBuilding, TypeOK, ClusterTypeOK, Statuses, PendingStatuses
  <2>2. CASE ApplyFailure(d)
    BY <2>2, JobFields, TransitionType
    DEF ApplyFailure, TypeOK, ClusterTypeOK, JobStatuses, Statuses
  <2>. QED  BY <1>15, <2>1, <2>2
<1>16. ASSUME NEW d \in IDs, ApplyImage(d)
      PROVE  TypeOK'
  <2>1. job' \in [IDs -> JobType]
    BY <1>16, JobFields DEF ApplyImage, JobStatuses
  <2>2. golive' \in [Callers -> GoLiveType]
    <3>1. CASE UNCHANGED golive
      BY <3>1 DEF TypeOK
    <3>2. CASE golive' = [golive EXCEPT ![d] = GoLiveOf(d)]
      <4>1. [golive EXCEPT ![d] = GoLiveOf(d)] \in [Callers -> GoLiveType]
        BY GoLiveFields, DigestFields
      <4>. QED  BY <3>2, <4>1
    <3>. QED  BY <1>16, <3>1, <3>2 DEF ApplyImage
  <2>3. image' \in [IDs -> Digests]
    BY <1>16, DigestFields DEF ApplyImage, TypeOK, Reported
  <2>4. status' \in [IDs -> RowStatuses] /\ late' \subseteq IDs
    BY <1>16 DEF ApplyImage, TypeOK, RowStatuses, Statuses, PendingStatuses
  <2>. QED
    BY <1>16, <2>1, <2>2, <2>3, <2>4 DEF ApplyImage, TypeOK, ClusterTypeOK
<1>17. ASSUME NEW c \in Callers, LoadTarget(c)
      PROVE  TypeOK'
  BY <1>17, GoLiveFields DEF LoadTarget, GoLiveTo, AfterLoad, TypeOK, ClusterTypeOK
<1>18. ASSUME NEW c \in Callers, ParkForSignature(c)
      PROVE  TypeOK'
  BY <1>18, GoLiveFields, TransitionType
  DEF ParkForSignature, GoLiveEnds, TypeOK, ClusterTypeOK, Statuses, PendingStatuses
<1>19. ASSUME NEW c \in Callers, PublishAccepted(c)
      PROVE  TypeOK'
  <2>1. version[golive[c].dep] \in Versions \cup {NoVersion}
    BY <1>19, GoLiveDep DEF PublishAccepted, GoLiveAt, TypeOK
  <2>. QED
    BY <1>19, <2>1, GoLiveFields DEF PublishAccepted, GoLiveTo, TypeOK, ClusterTypeOK
<1>20. ASSUME NEW c \in Callers, PublishRefused(c)
      PROVE  TypeOK'
  BY <1>20, GoLiveFields, TransitionType
  DEF PublishRefused, GoLiveEnds, TypeOK, ClusterTypeOK, Statuses, PendingStatuses
<1>21. ASSUME NEW c \in Callers, RecordVersion(c)
      PROVE  TypeOK'
  <2>1. version[golive[c].dep] \in Versions \cup {NoVersion}
    BY <1>21, GoLiveDep DEF RecordVersion, GoLiveAt, TypeOK
  <2>2. target' \in TargetType
    BY <1>21, <2>1, TargetFields DEF RecordVersion
  <2>. QED
    BY <1>21, <2>2, GoLiveFields DEF RecordVersion, GoLiveTo, TypeOK, ClusterTypeOK
<1>22. ASSUME NEW c \in Callers, SendImage(c) \/ DeployApp(c)
      PROVE  TypeOK'
  <2>1. golive[c].dep \in IDs
    BY <1>22, GoLiveDep DEF SendImage, DeployApp, GoLiveAt
  <2>2. ClusterTypeOK(IDs, Digests)' /\ shipped' \subseteq IDs
    BY <1>22, <2>1
    DEF SendImage, DeployApp, SaveDockerProvider, QueueJob, TypeOK, ClusterTypeOK, AppType
  <2>3. golive' \in [Callers -> GoLiveType]
    <3>1. /\ [golive EXCEPT ![c].pc = "deploy"] \in [Callers -> GoLiveType]
          /\ [golive EXCEPT ![c].pc = "mark"] \in [Callers -> GoLiveType]
      BY GoLiveFields, Zenon
    <3>2. \/ golive' = [golive EXCEPT ![c].pc = "deploy"]
          \/ golive' = [golive EXCEPT ![c].pc = "mark"]
      BY <1>22 DEF SendImage, DeployApp, GoLiveTo
    <3>. QED  BY <3>1, <3>2, Zenon
  <2>4. status' \in [IDs -> RowStatuses] /\ late' \subseteq IDs
    BY <1>22 DEF SendImage, DeployApp, TypeOK
  <2>5. UNCHANGED <<target, accepted, outsideGoLive>>
    BY <1>22 DEF SendImage, DeployApp
  <2>. QED
    BY <2>2, <2>3, <2>4, <2>5 DEF TypeOK
<1>23. ASSUME NEW c \in Callers, SendFails(c)
      PROVE  TypeOK'
  <2>1. golive[c].dep \in IDs
    BY <1>23, GoLiveDep DEF SendFails
  <2>2. ClusterTypeOK(IDs, Digests)' /\ shipped' \subseteq IDs
    BY <1>23, <2>1 
    DEF SendFails, SaveDockerProvider, QueueJob, TypeOK, ClusterTypeOK, AppType
  <2>3. status' \in [IDs -> RowStatuses] /\ late' \subseteq IDs
    BY <1>23, TransitionType DEF SendFails, Statuses
  <2>. QED
    BY <1>23, <2>2, <2>3, GoLiveFields DEF SendFails, GoLiveEnds, TypeOK
<1>24. ASSUME NEW c \in Callers, MarkDeploying(c)
      PROVE  TypeOK'
  BY <1>24, GoLiveFields, TransitionType
  DEF MarkDeploying, GoLiveEnds, TypeOK, ClusterTypeOK, Statuses
<1>25. ASSUME ListInFlight
      PROVE  TypeOK'
  <2>1. sync' \in SyncType
    BY <1>25 DEF ListInFlight, InFlight, IdleSync, TypeOK, SyncType, Rollouts
  <2>. QED  BY <1>25, <2>1 DEF ListInFlight, TypeOK, ClusterTypeOK
<1>26. ASSUME NEW d \in IDs, SyncBuild(d)
      PROVE  TypeOK'
  <2>1. job' \in [IDs -> JobType]
    <3>1. CASE UNCHANGED job
      BY <3>1 DEF TypeOK
    <3>2. ASSUME NEW s \in JobStatuses, job' = [job EXCEPT ![d].status = s]
          PROVE  job' \in [IDs -> JobType]
      <4>1. [job EXCEPT ![d].status = s] \in [IDs -> JobType]
        BY JobFields
      <4>. QED  BY <3>2, <4>1
    <3>. QED  BY <1>26, <3>1, <3>2 DEF SyncBuild, JobStatuses
  <2>2. status' \in [IDs -> RowStatuses] /\ late' \subseteq IDs
    BY <1>26, TransitionType DEF SyncBuild, TypeOK, Statuses, PendingStatuses
  <2>. QED  BY <1>26, <2>1, <2>2, SyncFields DEF SyncBuild, TypeOK, ClusterTypeOK
<1>27. ASSUME NEW d \in IDs, SyncBuilt(d)
      PROVE  TypeOK'
  BY <1>27, SyncFields, GoLiveFields, DigestFields
  DEF SyncBuilt, SyncCallsGoLive, TypeOK, ClusterTypeOK
<1>28. ASSUME NEW d \in IDs, SyncSigned(d)
      PROVE  TypeOK'
  BY <1>28, SyncFields, GoLiveFields, DigestFields
  DEF SyncSigned, SyncCallsGoLive, TypeOK, ClusterTypeOK
<1>29. ASSUME NEW d \in IDs, SyncUnsigned(d)
      PROVE  TypeOK'
  BY <1>29, SyncFields, CancelType DEF SyncUnsigned, TypeOK, ClusterTypeOK
<1>30. ASSUME NEW d \in IDs, ReadRollout(d)
      PROVE  TypeOK'
  <2>1. RolloutState(d, image[d]) \in Rollouts
    BY DEF RolloutState, EvaluateRollout, Rollouts
  <2>2. sync' \in SyncType
    BY <1>30, <2>1 DEF ReadRollout, TypeOK, SyncType, TargetType
  <2>. QED  BY <1>30, <2>2 DEF ReadRollout, TypeOK, ClusterTypeOK
<1>31. ASSUME NEW d \in IDs, EndRollout(d)
      PROVE  TypeOK'
  BY <1>31, SyncFields, TransitionType DEF EndRollout, TypeOK, ClusterTypeOK, Statuses
<1>32. ASSUME NEW d \in IDs, MarkLive(d)
      PROVE  TypeOK'
  BY <1>32, SyncFields, TransitionType DEF MarkLive, TypeOK, ClusterTypeOK, Statuses
<1>33. ASSUME NEW d \in IDs, RetirePrevious(d)
      PROVE  TypeOK'
  BY <1>33, SyncFields, TransitionType DEF RetirePrevious, TypeOK, ClusterTypeOK, Statuses
<1>34. ASSUME NEW d \in IDs, PointTarget(d)
      PROVE  TypeOK'
  BY <1>34, SyncFields, TargetFields DEF PointTarget, TypeOK, ClusterTypeOK
<1>35. ASSUME NEW n \in Records, ClaimSignature(n)
      PROVE  TypeOK'
  BY <1>35 DEF ClaimSignature, TypeOK, ClusterTypeOK, RecordType, WalletType
<1>36. ASSUME RefuseSignature
      PROVE  TypeOK'
  BY <1>36 DEF RefuseSignature, TypeOK, ClusterTypeOK, IdleWallet, WalletType
<1>37. ASSUME RecordSignature
      PROVE  TypeOK'
  BY <1>37 DEF RecordSignature, TypeOK, ClusterTypeOK, RecordType, WalletType
<1>38. ASSUME ListWaiting
      PROVE  TypeOK'
  <2>1. wallet' \in WalletType
    BY <1>38 DEF ListWaiting, TypeOK, WalletType, IdleWallet
  <2>. QED  BY <1>38, <2>1 DEF ListWaiting, TypeOK, ClusterTypeOK
<1>39. ASSUME NEW d \in IDs, ResumeWaiting(d)
      PROVE  TypeOK'
  <2>1. wallet' \in WalletType
    BY <1>39 DEF ResumeWaiting, TypeOK, WalletType
  <2>. QED
    BY <1>39, <2>1, GoLiveFields, DigestFields DEF ResumeWaiting, TypeOK, ClusterTypeOK
<1>40. ASSUME WalletReturns
      PROVE  TypeOK'
  BY <1>40 DEF WalletReturns, TypeOK, ClusterTypeOK, IdleWallet, WalletType
<1>41. ASSUME Crash
      PROVE  TypeOK'
  <2>1. crashes' \in 0 .. MaxCrashes
    BY <1>41 DEF Crash, TypeOK, HostingAssumption
  <2>. QED
    BY <1>41, <2>1, IdleTypes DEF Crash, TypeOK, ClusterTypeOK
<1>42. ASSUME ClusterStep
      PROVE  TypeOK'
  <2>1. ClusterTypeOK(IDs, Digests)'
    <3>1. CASE JobUpdatesService
      BY <3>1 DEF JobUpdatesService, TypeOK, ClusterTypeOK, AppType, ServiceType, UpdateStates
    <3>2. CASE ReplicasReady
      BY <3>2 DEF ReplicasReady, TypeOK, ClusterTypeOK, ServiceType, UpdateStates
    <3>3. CASE JobFails
      BY <3>3 DEF JobFails, TypeOK, ClusterTypeOK, AppType
    <3>4. CASE RollbackStarts
      BY <3>4 DEF RollbackStarts, TypeOK, ClusterTypeOK, ServiceType, UpdateStates
    <3>5. CASE RollbackCompletes
      BY <3>5 DEF RollbackCompletes, TypeOK, ClusterTypeOK, ServiceType, UpdateStates
    <3>. QED  BY <1>42, <3>1, <3>2, <3>3, <3>4, <3>5 DEF ClusterStep
  <2>. QED  BY <1>42, <2>1 DEF ClusterStep, TypeOK
<1>. QED
  BY <1>1, <1>2, <1>3, <1>4, <1>5, <1>6, <1>7, <1>8, <1>9, <1>10, <1>11, <1>12,
     <1>13, <1>14, <1>15, <1>16, <1>17, <1>18, <1>19, <1>20, <1>21, <1>22,
     <1>23, <1>24, <1>25, <1>26, <1>27, <1>28, <1>29, <1>30, <1>31, <1>32,
     <1>33, <1>34, <1>35, <1>36, <1>37, <1>38, <1>39, <1>40, <1>41, <1>42
  DEF Next, EnvironmentStep, RequestStep, CallbackStep, GoLiveStep, SyncStep, WalletStep

-----------------------------------------------------------------------------
\* What a step leaves of the references when it creates no deployment: rows stay,
\* a goLive or a request keeps its deployment or takes an existing one, and nothing
\* new is remembered of a deployment that does not exist.
RowsKept == lastID' = lastID /\ \A d \in IDs : status'[d] = "none" <=> status[d] = "none"
GoLivesKept ==
    \A c \in Callers : golive'[c].pc # "idle" =>
        golive'[c].dep \in 1 .. lastID
        \/ (golive[c].pc # "idle" /\ golive'[c].dep = golive[c].dep)
RequestsKept ==
    \A r \in Requests : request'[r].pc \in Working =>
        request[r].pc \in Working /\ request'[r].dep = request[r].dep
MemoryKept == \A d \in IDs : Remembered(d)' => Remembered(d) \/ d \in 1 .. lastID

\* Such a step keeps the references.
LEMMA ReferencesKept ==
    ASSUME HostingAssumption, TypeOK, References,
           RowsKept, GoLivesKept, RequestsKept, MemoryKept
    PROVE  References'
<1>1. lastID \in Nat /\ lastID' = lastID
  BY DEF TypeOK, RowsKept, HostingAssumption
<1>2. \A d \in IDs : status'[d] # "none" <=> d <= lastID'
  BY <1>1 DEF RowsKept, References
<1>3. \A c \in Callers : golive'[c].pc # "idle" => golive'[c].dep \in 1 .. lastID'
  BY <1>1 DEF GoLivesKept, References
<1>4. \A r \in Requests : request'[r].pc \in Working => request'[r].dep \in 1 .. lastID'
  BY <1>1 DEF RequestsKept, References
<1>5. \A d \in IDs : Remembered(d)' => d <= lastID'
  BY <1>1 DEF MemoryKept, References
<1>. QED  BY <1>2, <1>3, <1>4, <1>5 DEF References

\* A conditional status update creates and removes no row.
LEMMA TransitionKeeps ==
    ASSUME TypeOK, NEW d, NEW to \in Statuses, Transition(d, to), lastID' = lastID
    PROVE  RowsKept
<1>1. "none" \notin Statuses
  BY DEF Statuses, PendingStatuses
<1>. QED  BY <1>1 DEF RowsKept, TypeOK, Transition, CanTransition

\* Nor does cancelling a deployment, and it starts no run.
LEMMA CancelKeeps ==
    ASSUME TypeOK, NEW d \in IDs, CancelDeployment(d), lastID' = lastID,
           UNCHANGED <<callback, sync, wallet, shipped>>
    PROVE  RowsKept /\ MemoryKept
<1>1. RowsKept
  BY TransitionKeeps DEF CancelDeployment, Statuses
<1>2. \A e \in IDs : run'[e] # "none" => run[e] # "none"
  BY DEF CancelDeployment, TypeOK
<1>. QED  BY <1>1, <1>2 DEF MemoryKept, Remembered

\* A goLive that moves on or ends keeps its deployment.
LEMMA GoLiveKeeps ==
    ASSUME TypeOK, NEW c \in Callers, NEW pc, golive[c].pc # "idle",
           GoLiveTo(c, pc) \/ GoLiveEnds(c)
    PROVE  GoLivesKept
BY DEF GoLivesKept, GoLiveTo, GoLiveEnds, IdleGoLive, TypeOK, GoLiveType

\* A goLive is started for an existing deployment.
LEMMA GoLiveStarts ==
    ASSUME TypeOK, NEW c \in Callers, NEW d \in 1 .. lastID,
           golive' = [golive EXCEPT ![c] = GoLiveOf(d)]
    PROVE  GoLivesKept
BY DEF GoLivesKept, GoLiveOf, TypeOK

\* A request that moves on or returns keeps its deployment.
LEMMA RequestKeeps ==
    ASSUME TypeOK, NEW r \in Requests,
           \/ \E pc : request' = [request EXCEPT ![r].pc = pc] /\ request[r].pc \in Working
           \/ request' = [request EXCEPT ![r] = IdleRequest]
           \/ request' = [request EXCEPT ![r].pc = "create"]
    PROVE  RequestsKept
BY DEF RequestsKept, IdleRequest, TypeOK, RequestType, Working

\* Handling a listed row lists no other row.
LEMMA HandledKeeps ==
    ASSUME TypeOK, NEW d \in IDs, Handled(d), UNCHANGED <<run, callback, wallet, shipped>>
    PROVE  MemoryKept
<1>1. sync'.todo = [sync.todo EXCEPT ![d] = "none"]
  BY DEF Handled, IdleSync
<1>2. sync.todo \in [IDs -> InFlightStatuses \cup {"none"}]
  BY DEF TypeOK, SyncType
<1>. QED  BY <1>1, <1>2 DEF MemoryKept, Remembered

\* What a listed row, a run or a callback names exists.
LEMMA RememberedExists ==
    ASSUME HostingAssumption, TypeOK, References, NEW d \in IDs, Remembered(d) \/ status[d] # "none"
    PROVE  d \in 1 .. lastID
BY DEF References, TypeOK, IDs, HostingAssumption

\* A new row gets the next number, and only the request that inserted it knows it.
LEMMA InsertReferences ==
    ASSUME HostingAssumption, TypeOK, References, NEW r \in Requests,
           NEW v, NEW digest, NEW previous, InsertDeployment(r, v, digest, previous)
    PROVE  References'
<1>1. lastID \in Nat /\ lastID' = lastID + 1 /\ lastID + 1 \in IDs
  BY DEF TypeOK, InsertDeployment, HostingAssumption
<1>2. \A d \in IDs : d \in Nat
  BY DEF IDs
<1>3. status' = [status EXCEPT ![lastID + 1] = "queued"]
  BY DEF InsertDeployment
<1>4. \A d \in IDs : status'[d] # "none" <=> d <= lastID'
  BY <1>1, <1>2, <1>3 DEF References, TypeOK
<1>5. \A c \in Callers : golive'[c].pc # "idle" => golive'[c].dep \in 1 .. lastID'
  BY <1>1 DEF InsertDeployment, References
<1>6. request' = [request EXCEPT ![r] = [pc |-> "supersede", version |-> v, dep |-> lastID + 1]]
  BY DEF InsertDeployment
<1>7. \A q \in Requests : request'[q].pc \in Working => request'[q].dep \in 1 .. lastID'
  BY <1>1, <1>6 DEF References, TypeOK
<1>8. \A d \in IDs : Remembered(d)' => d <= lastID'
  BY <1>1, <1>2 DEF InsertDeployment, References, Remembered
<1>. QED  BY <1>4, <1>5, <1>7, <1>8 DEF References

\* Every step keeps the references of handlers, rows and runs to deployments.
LEMMA ReferencesStep ==
    ASSUME HostingAssumption, TypeOK, References, Next
    PROVE  References'
<1>1. ASSUME NEW r \in Requests, NEW v \in Versions, StartDeploy(r, v)
      PROVE  References'
  <2>1. RequestsKept
    BY <1>1 DEF StartDeploy, RequestsKept, TypeOK, Working
  <2>. QED
    BY <1>1, <2>1, ReferencesKept DEF StartDeploy, RowsKept, GoLivesKept, MemoryKept, Remembered
<1>2. ASSUME NEW r \in Requests,
             PrepareSigning(r) \/ PrepareFails(r) \/ DispatchFails(r) \/ SaveRunID(r)
      PROVE  References'
  <2>1. RequestsKept
    BY <1>2, RequestKeeps DEF PrepareSigning, PrepareFails, DispatchFails, SaveRunID
  <2>2. RowsKept
    BY <1>2, TransitionKeeps
    DEF PrepareSigning, PrepareFails, DispatchFails, SaveRunID, RowsKept, Statuses
  <2>. QED
    BY <1>2, <2>1, <2>2, ReferencesKept
    DEF PrepareSigning, PrepareFails, DispatchFails, SaveRunID,
        GoLivesKept, MemoryKept, Remembered
<1>3. ASSUME NEW r \in Requests, CreateDeployment(r)
      PROVE  References'
  BY <1>3, InsertReferences DEF CreateDeployment
<1>4. ASSUME NEW r \in Requests, NEW d \in IDs, StartRollback(r, d)
      PROVE  References'
  BY <1>4, InsertReferences DEF StartRollback
<1>5. ASSUME NEW r \in Requests, NEW d \in IDs, SupersedeOne(r, d)
      PROVE  References'
  BY <1>5, CancelKeeps, ReferencesKept DEF SupersedeOne, GoLivesKept, RequestsKept
<1>6. ASSUME NEW r \in Requests, SupersedeDone(r)
      PROVE  References'
  <2>1. request[r].dep \in IDs /\ request[r].dep \in Callers /\ request[r].dep \in 1 .. lastID
    BY <1>6, RequestDep, DigestFields DEF SupersedeDone, References, Working
  <2>2. RequestsKept
    BY <1>6, RequestKeeps DEF SupersedeDone, Working
  <2>3. GoLivesKept
    <3>1. CASE UNCHANGED golive
      BY <3>1 DEF GoLivesKept
    <3>2. CASE golive' = [golive EXCEPT ![request[r].dep] = GoLiveOf(request[r].dep)]
      BY <2>1, <3>2, GoLiveStarts
    <3>. QED  BY <1>6, <3>1, <3>2 DEF SupersedeDone
  <2>. QED
    BY <1>6, <2>2, <2>3, ReferencesKept DEF SupersedeDone, RowsKept, MemoryKept, Remembered
<1>7. ASSUME NEW r \in Requests, DispatchRun(r)
      PROVE  References'
  <2>1. RequestsKept
    BY <1>7, RequestKeeps DEF DispatchRun, Working
  <2>2. request[r].dep \in IDs /\ request[r].dep \in 1 .. lastID
    BY <1>7, RequestDep DEF DispatchRun, References, Working
  <2>3. MemoryKept
    BY <1>7, <2>2 DEF DispatchRun, MemoryKept, Remembered, TypeOK
  <2>. QED
    BY <1>7, <2>1, <2>3, ReferencesKept DEF DispatchRun, RowsKept, GoLivesKept
<1>8. ASSUME NEW d \in IDs, CancelByUser(d)
      PROVE  References'
  BY <1>8, CancelKeeps, ReferencesKept DEF CancelByUser, GoLivesKept, RequestsKept
<1>9. ASSUME NEW d \in IDs, GrowLate(d)
      PROVE  References'
  BY <1>9, ReferencesKept
  DEF GrowLate, RowsKept, GoLivesKept, RequestsKept, MemoryKept, Remembered
<1>10. ASSUME NEW d \in IDs, NEW outcome \in RunEnds, EndRun(d, outcome)
       PROVE  References'
  <2>1. MemoryKept
    BY <1>10 DEF EndRun, MemoryKept, Remembered, TypeOK
  <2>. QED
    BY <1>10, <2>1, ReferencesKept DEF EndRun, RowsKept, GoLivesKept, RequestsKept
<1>11. ASSUME NEW d \in IDs, NEW result \in Results, ConsumeNonce(d, result)
       PROVE  References'
  <2>1. MemoryKept
    BY <1>11 DEF ConsumeNonce, MemoryKept, Remembered, TypeOK
  <2>. QED
    BY <1>11, <2>1, ReferencesKept DEF ConsumeNonce, RowsKept, GoLivesKept, RequestsKept
<1>12. ASSUME NEW d \in IDs, StartBuilding(d) \/ ApplyFailure(d)
       PROVE  References'
  <2>1. RowsKept
    BY <1>12, TransitionKeeps DEF StartBuilding, ApplyFailure, Statuses, PendingStatuses
  <2>2. MemoryKept
    BY <1>12 DEF StartBuilding, ApplyFailure, MemoryKept, Remembered, TypeOK
  <2>. QED
    BY <1>12, <2>1, <2>2, ReferencesKept
    DEF StartBuilding, ApplyFailure, GoLivesKept, RequestsKept
<1>13. ASSUME NEW d \in IDs, ApplyImage(d)
       PROVE  References'
  <2>1. d \in Callers /\ d \in 1 .. lastID
    BY <1>13, DigestFields, RememberedExists DEF ApplyImage, VerifiedImage, Remembered
  <2>2. RowsKept
    <3>1. status[d] # "none" /\ (status' = status \/ status' = [status EXCEPT ![d] = "built"])
      BY <1>13, <2>1 DEF ApplyImage, References
    <3>. QED  BY <1>13, <3>1 DEF ApplyImage, RowsKept, TypeOK
  <2>3. MemoryKept
    BY <1>13 DEF ApplyImage, MemoryKept, Remembered, TypeOK
  <2>4. GoLivesKept
    <3>1. CASE UNCHANGED golive
      BY <3>1 DEF GoLivesKept
    <3>2. CASE golive' = [golive EXCEPT ![d] = GoLiveOf(d)]
      BY <2>1, <3>2, GoLiveStarts
    <3>. QED  BY <1>13, <3>1, <3>2 DEF ApplyImage
  <2>. QED
    BY <1>13, <2>2, <2>3, <2>4, ReferencesKept DEF ApplyImage, RequestsKept
<1>14. ASSUME NEW c \in Callers, GoLiveStep(c)
       PROVE  References'
  <2>1. GoLivesKept
    BY <1>14, GoLiveKeeps
    DEF GoLiveStep, GoLiveAt, LoadTarget, ParkForSignature, PublishAccepted, PublishRefused,
        RecordVersion, SendImage, DeployApp, SendFails, MarkDeploying
  <2>2. RowsKept
    <3>1. CASE UNCHANGED status
      BY <1>14, <3>1
      DEF RowsKept, GoLiveStep, LoadTarget, ParkForSignature, PublishAccepted, PublishRefused,
          RecordVersion, SendImage, DeployApp, SendFails, MarkDeploying
    <3>2. CASE /\ lastID' = lastID
               /\ \E to \in Statuses : Transition(golive[c].dep, to)
      BY <3>2, TransitionKeeps
    <3>. QED
      BY <1>14, <3>1, <3>2
      DEF GoLiveStep, LoadTarget, ParkForSignature, PublishAccepted, PublishRefused,
          RecordVersion, SendImage, DeployApp, SendFails, MarkDeploying, Statuses, PendingStatuses
  <2>3. golive[c].dep \in 1 .. lastID
    BY <1>14
    DEF References, GoLiveStep, GoLiveAt, LoadTarget, ParkForSignature, PublishAccepted,
        PublishRefused, RecordVersion, SendImage, DeployApp, SendFails, MarkDeploying
  <2>4. shipped' \subseteq shipped \cup {golive[c].dep}
    BY <1>14
    DEF GoLiveStep, LoadTarget, ParkForSignature, PublishAccepted, PublishRefused,
        RecordVersion, SendImage, DeployApp, SendFails, MarkDeploying
  <2>5. UNCHANGED <<request, run, callback, sync, wallet>>
    BY <1>14
    DEF GoLiveStep, LoadTarget, ParkForSignature, PublishAccepted, PublishRefused,
        RecordVersion, SendImage, DeployApp, SendFails, MarkDeploying
  <2>6. MemoryKept
    BY <2>3, <2>4, <2>5 DEF MemoryKept, Remembered
  <2>. QED
    BY <2>1, <2>2, <2>5, <2>6, ReferencesKept DEF RequestsKept
<1>15. ASSUME ListInFlight
       PROVE  References'
  <2>1. \A d \in IDs : sync'.todo[d] # "none" => status[d] # "none"
    BY <1>15 DEF ListInFlight, InFlight, IdleSync, InFlightStatuses, PendingStatuses
  <2>2. MemoryKept
    BY <1>15, <2>1, RememberedExists DEF ListInFlight, MemoryKept, Remembered
  <2>. QED
    BY <1>15, <2>2, ReferencesKept DEF ListInFlight, RowsKept, GoLivesKept, RequestsKept
<1>16. ASSUME NEW d \in IDs, SyncBuild(d)
       PROVE  References'
  <2>1. RowsKept
    <3>1. CASE UNCHANGED status
      BY <1>16, <3>1 DEF RowsKept, SyncBuild
    <3>2. CASE \E to \in {"building", "build_failed", "cancelled"} : Transition(d, to)
      BY <1>16, <3>2, TransitionKeeps DEF SyncBuild, Statuses, PendingStatuses
    <3>. QED  BY <1>16, <3>1, <3>2 DEF SyncBuild
  <2>2. MemoryKept
    BY <1>16, HandledKeeps DEF SyncBuild
  <2>. QED
    BY <1>16, <2>1, <2>2, ReferencesKept DEF SyncBuild, GoLivesKept, RequestsKept
<1>17. ASSUME NEW d \in IDs, SyncBuilt(d) \/ SyncSigned(d)
       PROVE  References'
  <2>1. SyncCallsGoLive(d) /\ sync.todo[d] # "none"
    BY <1>17 DEF SyncBuilt, SyncSigned, Handling
  <2>2. GoLivesKept
    BY <2>1, GoLiveStarts, RememberedExists, DigestFields DEF SyncCallsGoLive, Remembered
  <2>3. MemoryKept
    BY <2>1, HandledKeeps DEF SyncCallsGoLive
  <2>. QED
    BY <2>1, <2>2, <2>3, ReferencesKept DEF SyncCallsGoLive, RowsKept, RequestsKept
<1>18. ASSUME NEW d \in IDs, SyncUnsigned(d)
       PROVE  References'
  <2>1. RowsKept
    BY <1>18, TransitionKeeps DEF SyncUnsigned, CancelDeployment, RowsKept, Statuses
  <2>2. \A e \in IDs : run'[e] # "none" => run[e] # "none"
    BY <1>18 DEF SyncUnsigned, CancelDeployment, TypeOK
  <2>3. \A e \in IDs : sync'.todo[e] # "none" => sync.todo[e] # "none"
    BY <1>18 DEF SyncUnsigned, Handled, IdleSync, TypeOK, SyncType
  <2>4. MemoryKept
    BY <1>18, <2>2, <2>3 DEF SyncUnsigned, MemoryKept, Remembered
  <2>. QED
    BY <1>18, <2>1, <2>4, ReferencesKept DEF SyncUnsigned, GoLivesKept, RequestsKept
<1>19. ASSUME NEW d \in IDs, ReadRollout(d)
       PROVE  References'
  <2>1. sync'.todo = sync.todo
    BY <1>19 DEF ReadRollout, TypeOK, SyncType
  <2>. QED
    BY <1>19, <2>1, ReferencesKept
    DEF ReadRollout, RowsKept, GoLivesKept, RequestsKept, MemoryKept, Remembered
<1>20. ASSUME NEW d \in IDs, EndRollout(d) \/ PointTarget(d)
       PROVE  References'
  <2>1. RowsKept
    BY <1>20, TransitionKeeps
    DEF EndRollout, PointTarget, RowsKept, Statuses
  <2>2. MemoryKept
    BY <1>20, HandledKeeps DEF EndRollout, PointTarget
  <2>. QED
    BY <1>20, <2>1, <2>2, ReferencesKept DEF EndRollout, PointTarget, GoLivesKept, RequestsKept
<1>21. ASSUME NEW d \in IDs, MarkLive(d) \/ RetirePrevious(d)
       PROVE  References'
  <2>1. RowsKept
    BY <1>21, TransitionKeeps DEF MarkLive, RetirePrevious, RowsKept, Statuses
  <2>2. MemoryKept
    <3>1. CASE Handled(d)
      BY <1>21, <3>1, HandledKeeps DEF MarkLive, RetirePrevious
    <3>2. CASE sync'.todo = sync.todo
      BY <1>21, <3>2 DEF MarkLive, RetirePrevious, MemoryKept, Remembered
    <3>. QED  BY <1>21, <3>1, <3>2 DEF MarkLive, RetirePrevious, TypeOK, SyncType
  <2>. QED
    BY <1>21, <2>1, <2>2, ReferencesKept DEF MarkLive, RetirePrevious, GoLivesKept, RequestsKept
<1>22. ASSUME NEW n \in Records, ClaimSignature(n)
       PROVE  References'
  <2>1. wallet'.waiting = wallet.waiting
    BY <1>22 DEF ClaimSignature, TypeOK, WalletType
  <2>. QED
    BY <1>22, <2>1, ReferencesKept
    DEF ClaimSignature, RowsKept, GoLivesKept, RequestsKept, MemoryKept, Remembered
<1>23. ASSUME RefuseSignature \/ RecordSignature \/ ListWaiting \/ WalletReturns
       PROVE  References'
  <2>1. \/ wallet'.waiting \in {{}, wallet.waiting}
        \/ wallet'.waiting = {d \in IDs : status[d] = "awaiting_signature"}
    <3>1. ASSUME ListWaiting
          PROVE  \/ wallet'.waiting = {}
                 \/ wallet'.waiting = {d \in IDs : status[d] = "awaiting_signature"}
      BY <3>1 DEF ListWaiting, IdleWallet, TypeOK, WalletType
    <3>2. ASSUME RefuseSignature \/ RecordSignature \/ WalletReturns
          PROVE  wallet'.waiting \in {{}, wallet.waiting}
      BY <3>2 DEF RefuseSignature, RecordSignature, WalletReturns, IdleWallet, TypeOK, WalletType
    <3>. QED  BY <1>23, <3>1, <3>2
  <2>2. MemoryKept
    BY <1>23, <2>1, RememberedExists
    DEF RefuseSignature, RecordSignature, ListWaiting, WalletReturns, MemoryKept, Remembered
  <2>. QED
    BY <1>23, <2>2, ReferencesKept
    DEF RefuseSignature, RecordSignature, ListWaiting, WalletReturns,
        RowsKept, GoLivesKept, RequestsKept
<1>24. ASSUME NEW d \in IDs, ResumeWaiting(d)
       PROVE  References'
  <2>1. GoLivesKept
    BY <1>24, GoLiveStarts, RememberedExists, DigestFields DEF ResumeWaiting, Remembered
  <2>2. wallet'.waiting \subseteq wallet.waiting
    BY <1>24 DEF ResumeWaiting, TypeOK, WalletType
  <2>. QED
    BY <1>24, <2>1, <2>2, ReferencesKept
    DEF ResumeWaiting, RowsKept, RequestsKept, MemoryKept, Remembered
<1>25. ASSUME Crash
       PROVE  References'
  BY <1>25, ReferencesKept
  DEF Crash, RowsKept, GoLivesKept, RequestsKept, MemoryKept, Remembered,
      IdleRequest, IdleGoLive, IdleSync, IdleWallet, Working
<1>26. ASSUME ClusterStep
       PROVE  References'
  BY <1>26, ReferencesKept
  DEF ClusterStep, RowsKept, GoLivesKept, RequestsKept, MemoryKept, Remembered
<1>. QED
  BY <1>1, <1>2, <1>3, <1>4, <1>5, <1>6, <1>7, <1>8, <1>9, <1>10, <1>11, <1>12,
     <1>13, <1>14, <1>15, <1>16, <1>17, <1>18, <1>19, <1>20, <1>21, <1>22,
     <1>23, <1>24, <1>25, <1>26
  DEF Next, EnvironmentStep, RequestStep, CallbackStep, SyncStep, WalletStep

-----------------------------------------------------------------------------
\* A new row changes nothing for the deployments that goLive works on or has sent.
LEMMA InsertSigning ==
    ASSUME HostingAssumption, TypeOK, References, SigningInv, NEW r \in Requests,
           NEW v, NEW digest, NEW previous, InsertDeployment(r, v, digest, previous)
    PROVE  SigningInv'
<1>1. lastID \in Nat /\ lastID + 1 \in IDs /\ version' = [version EXCEPT ![lastID + 1] = v]
  BY DEF TypeOK, InsertDeployment, HostingAssumption
<1>2. \A d \in IDs : d \in Nat /\ (d <= lastID => version'[d] = version[d])
  BY <1>1 DEF IDs, TypeOK
<1>3. \A c \in Callers : golive[c].pc # "idle" => version'[golive[c].dep] = version[golive[c].dep]
  BY <1>2, GoLiveDep DEF References
<1>4. \A d \in shipped : version'[d] = version[d]
  BY <1>2 DEF References, Remembered, TypeOK
<1>. QED
  BY <1>3, <1>4
  DEF InsertDeployment, SigningInv, GoLivePast, SignedBeforeShipping, AcceptedVersionShips
\* Every step keeps what goLive relies on: signatures are never taken back, the
\* target's version and every version it read are accepted ones.
LEMMA SigningStep ==
    ASSUME HostingAssumption, TypeOK, References, SigningInv, Next
    PROVE  SigningInv'
<1>. USE DEF SigningInv, SignedBeforeShipping, AcceptedVersionShips, GoLivePast
<1>1. ASSUME UNCHANGED <<target, record, accepted, golive, version, shipped>>
      PROVE  SigningInv'
  BY <1>1
<1>2. ASSUME NEW r \in Requests, PrepareSigning(r)
      PROVE  SigningInv'
  BY <1>2 DEF PrepareSigning, TypeOK, GoLiveType, TargetType
<1>3. ASSUME NEW r \in Requests, CreateDeployment(r)
      PROVE  SigningInv'
  BY <1>3, InsertSigning DEF CreateDeployment
<1>4. ASSUME NEW r \in Requests, NEW d \in IDs, StartRollback(r, d)
      PROVE  SigningInv'
  BY <1>4, InsertSigning DEF StartRollback
<1>5. ASSUME NEW r \in Requests, SupersedeDone(r)
      PROVE  SigningInv'
  <2>1. \A c \in Callers : golive'[c] = golive[c] \/ golive'[c].pc = "load"
    BY <1>5 DEF SupersedeDone, GoLiveOf, TypeOK
  <2>. QED  BY <1>5, <2>1 DEF SupersedeDone
<1>6. ASSUME NEW d \in IDs, ApplyImage(d)
      PROVE  SigningInv'
  <2>1. \A c \in Callers : golive'[c] = golive[c] \/ golive'[c].pc = "load"
    BY <1>6 DEF ApplyImage, GoLiveOf, TypeOK
  <2>. QED  BY <1>6, <2>1 DEF ApplyImage
<1>7. ASSUME NEW c \in Callers, LoadTarget(c)
      PROVE  SigningInv'
  <2>. SUFFICES ASSUME RequireW3DS
                PROVE  SigningInv'
    OBVIOUS
  <2>1. /\ golive'[c].pc = AfterLoad(golive[c].dep) /\ golive'[c].dep = golive[c].dep
        /\ \A b \in Callers \ {c} : golive'[b] = golive[b]
    BY <1>7 DEF LoadTarget, GoLiveTo, TypeOK, GoLiveType
  <2>2. CASE ~Authorised(target.record)
    <3>1. AfterLoad(golive[c].dep) = "park"
      BY <2>2 DEF AfterLoad
    <3>. QED  BY <1>7, <2>1, <3>1 DEF LoadTarget
  <2>3. CASE Authorised(target.record)
    <3>1. \E n \in Records : record[n] = "signed"
      BY <2>3 DEF Authorised, TypeOK, TargetType
    <3>2. target.version \in accepted
      BY <2>3 DEF Authorised
    <3>3. golive'[c].pc = "publish" \/ version[golive[c].dep] = target.version
      BY <2>1, <2>3 DEF AfterLoad
    <3>. QED  BY <1>7, <2>1, <3>1, <3>2, <3>3 DEF LoadTarget
  <2>. QED  BY <2>2, <2>3
<1>8. ASSUME NEW c \in Callers, ParkForSignature(c)
      PROVE  SigningInv'
  BY <1>8 DEF ParkForSignature, GoLiveEnds, IdleGoLive, Transition, TypeOK,
     GoLiveType
<1>9. ASSUME NEW c \in Callers, PublishAccepted(c)
      PROVE  SigningInv'
  BY <1>9 DEF PublishAccepted, GoLiveAt, GoLiveTo, TypeOK, GoLiveType
<1>10. ASSUME NEW c \in Callers, PublishRefused(c)
      PROVE  SigningInv'
  BY <1>10 DEF PublishRefused, GoLiveEnds, IdleGoLive, Transition, TypeOK,
     GoLiveType
<1>11. ASSUME NEW c \in Callers, RecordVersion(c)
      PROVE  SigningInv'
  BY <1>11 DEF RecordVersion, GoLiveAt, GoLiveTo, TypeOK, GoLiveType
<1>12. ASSUME NEW c \in Callers, SendImage(c) \/ DeployApp(c)
      PROVE  SigningInv'
  BY <1>12 DEF SendImage, DeployApp, GoLiveAt, GoLiveTo, TypeOK, GoLiveType
<1>13. ASSUME NEW c \in Callers, SendFails(c)
      PROVE  SigningInv'
  BY <1>13 DEF SendFails, GoLiveAt, GoLiveEnds, IdleGoLive, Transition, TypeOK,
     GoLiveType
<1>14. ASSUME NEW c \in Callers, MarkDeploying(c)
      PROVE  SigningInv'
  BY <1>14 DEF MarkDeploying, GoLiveEnds, IdleGoLive, Transition, TypeOK,
     GoLiveType
<1>15. ASSUME NEW d \in IDs, SyncBuilt(d)
      PROVE  SigningInv'
  BY <1>15 DEF SyncBuilt, Handling, SyncCallsGoLive, Handled, IdleSync,
     GoLiveOf, TypeOK, GoLiveType
<1>16. ASSUME NEW d \in IDs, SyncSigned(d)
      PROVE  SigningInv'
  BY <1>16 DEF SyncSigned, Handling, SyncCallsGoLive, Handled, IdleSync,
     GoLiveOf, TypeOK, GoLiveType
<1>17. ASSUME NEW d \in IDs, PointTarget(d)
      PROVE  SigningInv'
  BY <1>17 DEF PointTarget, Handled, IdleSync, TypeOK, GoLiveType, TargetType
<1>18. ASSUME NEW n \in Records, ClaimSignature(n)
      PROVE  SigningInv'
  BY <1>18 DEF ClaimSignature, TypeOK, GoLiveType
<1>19. ASSUME RecordSignature
      PROVE  SigningInv'
  BY <1>19 DEF RecordSignature, TypeOK, GoLiveType
<1>20. ASSUME NEW d \in IDs, ResumeWaiting(d)
      PROVE  SigningInv'
  BY <1>20 DEF ResumeWaiting, GoLiveOf, TypeOK, GoLiveType
<1>21. ASSUME Crash
      PROVE  SigningInv'
  BY <1>21 DEF Crash, IdleRequest, IdleGoLive, IdleSync, IdleWallet, TypeOK,
     GoLiveType
<1>. QED
  <2>1. ASSUME NEW r \in Requests, NEW v \in Versions,
               StartDeploy(r, v)
        PROVE  UNCHANGED <<target, record, accepted, golive, version, shipped>>
    BY <2>1 DEF StartDeploy
  <2>2. ASSUME NEW r \in Requests,
               PrepareFails(r) \/ DispatchRun(r) \/ DispatchFails(r) \/
               SaveRunID(r)
        PROVE  UNCHANGED <<target, record, accepted, golive, version, shipped>>
    BY <2>2 DEF PrepareFails, DispatchRun, DispatchFails, SaveRunID
  <2>3. ASSUME NEW r \in Requests, NEW d \in IDs,
               SupersedeOne(r, d)
        PROVE  UNCHANGED <<target, record, accepted, golive, version, shipped>>
    BY <2>3 DEF SupersedeOne
  <2>4. ASSUME NEW d \in IDs,
               CancelByUser(d) \/ GrowLate(d) \/ StartBuilding(d) \/ ApplyFailure(d)
               \/ SyncBuild(d)
               \/ SyncUnsigned(d) \/ ReadRollout(d) \/
               EndRollout(d) \/ MarkLive(d) \/ RetirePrevious(d)
        PROVE  UNCHANGED <<target, record, accepted, golive, version, shipped>>
    BY <2>4 DEF CancelByUser, GrowLate, StartBuilding, ApplyFailure, SyncBuild, SyncUnsigned,
       ReadRollout, EndRollout, MarkLive, RetirePrevious
  <2>5. ASSUME NEW d \in IDs, NEW outcome \in RunEnds,
               EndRun(d, outcome)
        PROVE  UNCHANGED <<target, record, accepted, golive, version, shipped>>
    BY <2>5 DEF EndRun
  <2>6. ASSUME NEW d \in IDs, NEW result \in Results,
               ConsumeNonce(d, result)
        PROVE  UNCHANGED <<target, record, accepted, golive, version, shipped>>
    BY <2>6 DEF ConsumeNonce
  <2>7. ASSUME ListInFlight \/ RefuseSignature \/ ListWaiting \/ WalletReturns \/
               ClusterStep
        PROVE  UNCHANGED <<target, record, accepted, golive, version, shipped>>
    BY <2>7 DEF ListInFlight, RefuseSignature, ListWaiting, WalletReturns,
       ClusterStep
  <2>. QED
    BY <1>1, <1>2, <1>3, <1>4, <1>5, <1>6, <1>7, <1>8, <1>9, <1>10, <1>11,
       <1>12, <1>13, <1>14, <1>15, <1>16, <1>17, <1>18, <1>19, <1>20, <1>21,
       <2>1, <2>2, <2>3, <2>4, <2>5, <2>6, <2>7
    DEF Next, EnvironmentStep, RequestStep, CallbackStep, GoLiveStep, SyncStep, WalletStep

-----------------------------------------------------------------------------
\* An empty database satisfies the invariant.
LEMMA InitInvariants ==
    ASSUME HostingAssumption, Init
    PROVE  TypeOK /\ References /\ SigningInv
<1>1. ClusterTypeOK(IDs, Digests)
  BY DigestFields DEF Init, ClusterInit, ClusterTypeOK, AppType, ServiceType, UpdateStates
<1>2. TypeOK
  BY <1>1, IdleTypes, DigestFields DEF Init, TypeOK, HostingAssumption, RowStatuses, JobType,
     NoJob, JobStatuses, TargetType, RecordType, RunStates
<1>3. References
  BY DigestFields DEF Init, References, Remembered, Working, IDs, IdleGoLive, IdleRequest,
     IdleSync, IdleWallet,
     HostingAssumption
<1>4. SigningInv
  BY DEF Init, SigningInv, IdleGoLive, GoLivePast, SignedBeforeShipping,
     AcceptedVersionShips
<1>. QED  BY <1>2, <1>3, <1>4

\* So does a step of something else.
LEMMA StutterInvariants ==
    ASSUME TypeOK, References, SigningInv, UNCHANGED vars
    PROVE  TypeOK' /\ References' /\ SigningInv'
<1>1. TypeOK'
  BY DEF vars, TypeOK, ClusterTypeOK
<1>2. References'
  BY DEF vars, References, Remembered
<1>3. SigningInv'
  BY DEF vars, SigningInv, GoLivePast, SignedBeforeShipping, AcceptedVersionShips
<1>. QED  BY <1>1, <1>2, <1>3

\* The inductive invariant: types, references to deployments, and what goLive
\* knows of the signature and the published version, in every reachable state.
THEOREM Invariants == Spec => [](TypeOK /\ References /\ SigningInv)
<1>1. Init => TypeOK /\ References /\ SigningInv
  BY InitInvariants, HostingAssumption
<1>2. TypeOK /\ References /\ SigningInv /\ [Next]_vars
        => (TypeOK /\ References /\ SigningInv)'
  BY TypeStep, ReferencesStep, SigningStep, StutterInvariants, HostingAssumption
<1>. QED  BY <1>1, <1>2, PTL DEF Spec

\* Every row, handler and outside service keeps its type under any interleaving
\* of requests, callbacks, the cron and crashes.
THEOREM TypeCorrect == Spec => []TypeOK
BY Invariants, PTL

\* Handlers, runs and callbacks only ever name deployments that were created.
THEOREM ReferencesHold == Spec => []References
BY Invariants, PTL

\* With REQUIRE_W3DS nothing is handed to Dokploy before a deployer has signed a
\* record (targetAuthorised in ensureW3DSVersion), whoever calls goLive.
THEOREM SigningHolds == Spec => []SignedBeforeShipping
<1>1. SigningInv => SignedBeforeShipping
  BY DEF SigningInv, SignedBeforeShipping
<1>. QED  BY <1>1, Invariants, PTL

\* With REQUIRE_W3DS every release handed to Dokploy has a version that the W3DS
\* publisher accepted (ensureW3DSVersion), though three handlers publish and the
\* target row they read may be stale.
THEOREM PublicationHolds == Spec => []AcceptedVersionShips
<1>1. SigningInv => AcceptedVersionShips
  BY DEF SigningInv, AcceptedVersionShips
<1>. QED  BY <1>1, Invariants, PTL

=============================================================================
