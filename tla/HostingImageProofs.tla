------------------------- MODULE HostingImageProofs -------------------------
(***************************************************************************)
(* Proofs about the images of Hosting and about the lifecycle its rows     *)
(* implement, for every value of the constants.                            *)
(*                                                                         *)
(* ImageInv is inductive once TypeOK and References are known.  From it    *)
(* follow that only registry images reach the cluster, and that every step *)
(* of every handler is a step of DeploymentLifecycle or a stutter: a row   *)
(* ships only with an image, gets one only while it has none, and the live *)
(* row is retired only after another one is live.                          *)
(***************************************************************************)
EXTENDS HostingProofs

USE DEF columns, statusVars, w3dsVars, handlerVars, cluster, clusterVars,
        outsideRequests, outsideBuild, outsideGoLive, outsideSync, outsideWallet

\* Deployments are numbered from 1, and NoImage is no deployment's digest.
LEMMA Numbers ==
    ASSUME HostingAssumption
    PROVE  /\ \A d \in IDs : d \in Nat /\ d # 0 /\ d # NoImage /\ d \in Digests
           /\ NoImage \in Digests /\ Forged \in Digests /\ Forged # NoImage
BY DEF HostingAssumption, IDs, Digests, Forged, NoImage

\* A callback, a run or a goLive of a deployment, and the deployment of a request.
LEMMA WorkedOn ==
    ASSUME HostingAssumption, TypeOK, References
    PROVE  /\ \A c \in Callers : golive[c].pc # "idle" => golive[c].dep \in IDs
           /\ \A r \in Requests : request[r].pc \in Working => request[r].dep \in IDs
           /\ lastID \in Nat /\ \A d \in 1 .. lastID : d \in IDs
BY DEF TypeOK, References, IDs, HostingAssumption

-----------------------------------------------------------------------------
\* The registry's images are the only ones in the rows and in the cluster.
LEMMA RegistryStep ==
    ASSUME HostingAssumption, TypeOK, References, ImagesRegistered, Next
    PROVE  ImagesRegistered'
<1>. USE DEF ImagesRegistered
<1>1. ASSUME NEW d \in IDs, NEW result \in Results, ConsumeNonce(d, result)
      PROVE  ImagesRegistered'
  <2>1. d # NoImage
    BY Numbers
  <2>. QED  BY <1>1, <2>1 DEF ConsumeNonce
<1>2. ASSUME NEW d \in IDs, ApplyImage(d)
      PROVE  ImagesRegistered'
  <2>1. Reported(d, callback[d]) \in registry
    BY <1>2 DEF ApplyImage, VerifiedImage
  <2>. QED  BY <1>2, <2>1 DEF ApplyImage, TypeOK
<1>3. ASSUME NEW r \in Requests, NEW v, NEW digest \in registry \cup {NoImage}, NEW previous,
             InsertDeployment(r, v, digest, previous)
      PROVE  ImagesRegistered'
  BY <1>3 DEF InsertDeployment, TypeOK
<1>4. ASSUME NEW c \in Callers, SendImage(c) \/ DeployApp(c) \/ SendFails(c)
      PROVE  ImagesRegistered'
  <2>1. golive[c].dep \in IDs
    BY <1>4, WorkedOn DEF SendImage, DeployApp, SendFails, GoLiveAt
  <2>2. image[golive[c].dep] \in registry \cup {NoImage}
    BY <2>1
  <2>3. UNCHANGED <<image, registry, svc>>
    BY <1>4 DEF SendImage, DeployApp, SendFails, SaveDockerProvider, QueueJob
  <2>4. dok'.image \in {dok.image, image[golive[c].dep]}
    BY <1>4 DEF SendImage, DeployApp, SendFails, SaveDockerProvider, QueueJob, TypeOK,
       ClusterTypeOK, AppType
  <2>. QED  BY <2>2, <2>3, <2>4
<1>5. ASSUME ClusterStep
      PROVE  ImagesRegistered'
  <2>1. UNCHANGED <<image, registry>>
    BY <1>5 DEF ClusterStep
  <2>2. {dok'.image, svc'.image, svc'.prev} \subseteq {dok.image, svc.image, svc.prev}
    <3>1. CASE JobUpdatesService
      BY <3>1 DEF JobUpdatesService, TypeOK, ClusterTypeOK, AppType
    <3>2. CASE JobFails
      BY <3>2 DEF JobFails, TypeOK, ClusterTypeOK, AppType
    <3>3. CASE ReplicasReady
      BY <3>3 DEF ReplicasReady, TypeOK, ClusterTypeOK, ServiceType
    <3>4. CASE RollbackStarts
      BY <3>4 DEF RollbackStarts, TypeOK, ClusterTypeOK, ServiceType
    <3>5. CASE RollbackCompletes
      BY <3>5 DEF RollbackCompletes, TypeOK, ClusterTypeOK, ServiceType
    <3>. QED  BY <1>5, <3>1, <3>2, <3>3, <3>4, <3>5 DEF ClusterStep
  <2>. QED  BY <2>1, <2>2
<1>. DEFINE Kept == UNCHANGED <<image, registry, dok, svc>>
<1>6. Kept => ImagesRegistered'
  OBVIOUS
<1>. HIDE DEF Kept
<1>7. ASSUME NEW r \in Requests, CreateDeployment(r) \/ \E d \in IDs : StartRollback(r, d)
      PROVE  ImagesRegistered'
  BY <1>3, <1>7 DEF CreateDeployment, StartRollback
<1>8. ASSUME NEW r \in Requests,
             \/ PrepareSigning(r) \/ PrepareFails(r) \/ SupersedeDone(r)
             \/ DispatchRun(r) \/ DispatchFails(r) \/ SaveRunID(r)
             \/ \E v \in Versions : StartDeploy(r, v)
             \/ \E d \in IDs : SupersedeOne(r, d)
      PROVE  Kept
  BY <1>8 DEF Kept, PrepareSigning, PrepareFails, SupersedeDone, DispatchRun, DispatchFails,
     SaveRunID, StartDeploy, SupersedeOne
<1>9. ASSUME NEW d \in IDs,
             \/ CancelByUser(d) \/ GrowLate(d) \/ StartBuilding(d) \/ ApplyFailure(d)
             \/ \E outcome \in RunEnds : EndRun(d, outcome)
      PROVE  Kept
  BY <1>9 DEF Kept, CancelByUser, GrowLate, StartBuilding, ApplyFailure, EndRun
<1>10. ASSUME NEW c \in Callers,
              \/ LoadTarget(c) \/ ParkForSignature(c) \/ PublishAccepted(c)
              \/ PublishRefused(c) \/ RecordVersion(c) \/ MarkDeploying(c)
       PROVE  Kept
  BY <1>10 DEF Kept, LoadTarget, ParkForSignature, PublishAccepted, PublishRefused,
     RecordVersion, MarkDeploying
<1>11. ASSUME SyncStep
       PROVE  Kept
  BY <1>11 DEF Kept, SyncStep, ListInFlight, SyncBuild, SyncBuilt, SyncSigned, SyncUnsigned,
     SyncCallsGoLive, ReadRollout, EndRollout, MarkLive, RetirePrevious, PointTarget
<1>12. ASSUME WalletStep \/ (\E n \in Records : ClaimSignature(n)) \/ Crash
       PROVE  Kept
  BY <1>12 DEF Kept, WalletStep, ClaimSignature, RefuseSignature, RecordSignature, ListWaiting,
     ResumeWaiting, WalletReturns, Crash
<1>. QED
  BY <1>1, <1>2, <1>4, <1>5, <1>6, <1>7, <1>8, <1>9, <1>10, <1>11, <1>12
  DEF Next, EnvironmentStep, RequestStep, CallbackStep, GoLiveStep

-----------------------------------------------------------------------------
\* A conditional status update keeps what the rows say of their images, if it does
\* not move a row without an image to a status that needs one.
LEMMA MoveKnown ==
    ASSUME TypeOK, RowsKnown, NEW d \in IDs, NEW to \in Statuses, Transition(d, to),
           UNCHANGED <<image, rollbackOf>>,
           to \in BuiltStatuses \cup {"deploying"} => image[d] # NoImage
    PROVE  RowsKnown'
<1>1. status' = status \/ (CanTransition(status[d], to) /\ status' = [status EXCEPT ![d] = to])
  BY DEF Transition
<1>2. CASE status' = status
  BY <1>2 DEF RowsKnown
<1>3. CASE CanTransition(status[d], to) /\ status' = [status EXCEPT ![d] = to]
  <2>1. /\ to \in {"live", "superseded"} => status[d] \in {"deploying", "live"}
        /\ to = "building" => status[d] = "queued"
        /\ to # "queued"
    BY <1>3 DEF CanTransition, Transitions, Statuses, PendingStatuses
  <2>. QED  BY <1>3, <2>1 DEF RowsKnown, BuiltOrLater, BuiltStatuses, TypeOK
<1>. QED  BY <1>1, <1>2, <1>3

\* So does cancelling a deployment.
LEMMA CancelKnown ==
    ASSUME TypeOK, RowsKnown, NEW d \in IDs, CancelDeployment(d), UNCHANGED <<image, rollbackOf>>
    PROVE  RowsKnown'
BY MoveKnown DEF CancelDeployment, Statuses, PendingStatuses, BuiltStatuses

\* A verified image is for a row that had none.
LEMMA ImageIsFirst ==
    ASSUME HostingAssumption, TypeOK, References, ImageInv, NEW d \in IDs, ApplyImage(d),
           CanTransition(status[d], "built")
    PROVE  /\ status[d] \in {"queued", "building"} /\ image[d] = NoImage
           /\ Reported(d, callback[d]) \in Digests \ {NoImage}
<1>1. status[d] \in {"queued", "building"}
  BY DEF CanTransition, Transitions, Statuses, PendingStatuses
<1>2. rollbackOf[d] = 0
  BY DEF ApplyImage, VerifiedImage, ImageInv, BuildsOnly
<1>3. image[d] = NoImage
  BY <1>1, <1>2 DEF ImageInv, RowsKnown
<1>4. Reported(d, callback[d]) \in registry
  BY DEF ApplyImage, VerifiedImage
<1>. QED  BY <1>1, <1>3, <1>4 DEF TypeOK, ImageInv, ImagesRegistered

\* A row is inserted under a number nothing works on, with an image exactly when
\* it rolls back.
LEMMA InsertKnown ==
    ASSUME HostingAssumption, TypeOK, References, ImageInv, NEW r \in Requests, NEW v,
           NEW digest \in Digests, NEW previous \in IDs \cup {0},
           InsertDeployment(r, v, digest, previous), digest # NoImage <=> previous # 0
    PROVE  RowsKnown' /\ WorkKnown' /\ BuildsOnly'
<1>. DEFINE n == lastID + 1
<1>1. n \in IDs /\ lastID \in Nat /\ \A d \in IDs : d \in Nat
  BY WorkedOn, Numbers DEF InsertDeployment
<1>2. ~Remembered(n)
  BY <1>1 DEF References
<1>3. \A c \in Callers : golive[c].pc # "idle" => golive[c].dep # n
  BY <1>1, WorkedOn DEF References
<1>4. \A q \in Requests : request[q].pc \in Working => request[q].dep # n
  BY <1>1 DEF References
<1>5. /\ status' = [status EXCEPT ![n] = "queued"]
      /\ image' = [image EXCEPT ![n] = digest]
      /\ rollbackOf' = [rollbackOf EXCEPT ![n] = previous]
      /\ request' = [request EXCEPT ![r] = [pc |-> "supersede", version |-> v, dep |-> n]]
      /\ UNCHANGED <<run, callback, golive, sync, wallet>>
  BY DEF InsertDeployment
<1>. HIDE DEF n
<1>6. RowsKnown'
  BY <1>1, <1>5 DEF TypeOK, ImageInv, RowsKnown, BuiltOrLater, BuiltStatuses
<1>7. WorkKnown'
  <2>1. sync.todo[n] = "none" /\ n \notin wallet.waiting
    BY <1>2 DEF Remembered
  <2>2. "none" \notin BuiltStatuses
    BY DEF BuiltStatuses
  <2>. QED  BY <1>1, <1>3, <1>5, <2>1, <2>2 DEF TypeOK, ImageInv, WorkKnown
<1>8. BuildsOnly'
  <2>1. run[n] = "none" /\ callback[n] = "idle"
    BY <1>2 DEF Remembered
  <2>2. \A d \in IDs : /\ (callback[d] # "idle" => run[d] # "none")'
                      /\ (run[d] # "none" => rollbackOf[d] = 0)'
    BY <1>1, <1>5, <2>1 DEF TypeOK, ImageInv, BuildsOnly
  <2>3. \A q \in Requests : request'[q].pc \in {"dispatch", "save"} => rollbackOf'[request'[q].dep] = 0
    <3>1. ASSUME NEW q \in Requests, request'[q].pc \in {"dispatch", "save"}
          PROVE  rollbackOf'[request'[q].dep] = 0
      <4>1. q # r /\ request'[q] = request[q]
        BY <1>5, <3>1 DEF TypeOK
      <4>2. request[q].dep \in IDs /\ request[q].dep # n /\ rollbackOf[request[q].dep] = 0
        BY <1>4, <3>1, <4>1, WorkedOn DEF Working, ImageInv, BuildsOnly
      <4>. QED  BY <1>5, <4>1, <4>2 DEF TypeOK
    <3>. QED  BY <3>1
  <2>. QED  BY <2>2, <2>3 DEF BuildsOnly
<1>. QED  BY <1>6, <1>7, <1>8

\* What a deploy and a rollback insert.
LEMMA InsertCases ==
    ASSUME HostingAssumption, TypeOK, References, ImageInv, NEW r \in Requests,
           CreateDeployment(r) \/ \E d \in IDs : StartRollback(r, d)
    PROVE  RowsKnown' /\ WorkKnown' /\ BuildsOnly'
<1>1. CASE CreateDeployment(r)
  BY <1>1, InsertKnown, Numbers DEF CreateDeployment, NoImage
<1>2. ASSUME NEW d \in IDs, StartRollback(r, d)
      PROVE  RowsKnown' /\ WorkKnown' /\ BuildsOnly'
  <2>1. image[d] \in Digests \ {NoImage} /\ d # 0
    BY <1>2, Numbers DEF StartRollback, ImageInv, ImagesRegistered, TypeOK
  <2>. QED  BY <1>2, <2>1, InsertKnown DEF StartRollback
<1>. QED  BY <1>1, <1>2

\* Every step keeps what the rows say of their images.
LEMMA RowsStep ==
    ASSUME HostingAssumption, TypeOK, References, ImageInv, Next
    PROVE  RowsKnown'
<1>. USE DEF ImageInv
<1>1. ASSUME NEW d \in IDs, ApplyImage(d)
      PROVE  RowsKnown'
  <2>1. CASE CanTransition(status[d], "built")
    <3>1. status' = [status EXCEPT ![d] = "built"]
      BY <1>1, <2>1 DEF ApplyImage
    <3>2. image' = [image EXCEPT ![d] = Reported(d, callback[d])] /\ rollbackOf' = rollbackOf
      BY <1>1, <2>1 DEF ApplyImage
    <3>. QED  BY <1>1, <2>1, <3>1, <3>2, ImageIsFirst DEF RowsKnown, BuiltOrLater, BuiltStatuses, TypeOK
  <2>2. CASE ~CanTransition(status[d], "built")
    BY <1>1, <2>2 DEF ApplyImage, RowsKnown
  <2>. QED  BY <2>1, <2>2
<1>2. ASSUME NEW r \in Requests, DispatchFails(r)
      PROVE  RowsKnown'
  <2>1. request[r].dep \in IDs
    BY <1>2, WorkedOn DEF DispatchFails, Working
  <2>. QED  BY <1>2, <2>1, MoveKnown DEF DispatchFails, Statuses, BuiltStatuses
<1>3. ASSUME NEW d \in IDs, CancelByUser(d) \/ SyncUnsigned(d) \/ \E r \in Requests : SupersedeOne(r, d)
      PROVE  RowsKnown'
  BY <1>3, CancelKnown DEF CancelByUser, SyncUnsigned, SupersedeOne, RowsKnown
<1>4. ASSUME NEW d \in IDs, StartBuilding(d) \/ ApplyFailure(d) \/ SyncBuild(d)
      PROVE  RowsKnown'
  BY <1>4, MoveKnown DEF StartBuilding, ApplyFailure, SyncBuild, RowsKnown, Statuses,
     PendingStatuses, BuiltStatuses
<1>5. ASSUME NEW c \in Callers,
             ParkForSignature(c) \/ PublishRefused(c) \/ SendFails(c) \/ MarkDeploying(c)
      PROVE  RowsKnown'
  <2>. DEFINE d == golive[c].dep
  <2>1. d \in IDs /\ image[d] # NoImage
    BY <1>5, WorkedOn DEF ParkForSignature, PublishRefused, SendFails, MarkDeploying, GoLiveAt,
       WorkKnown
  <2>2. /\ UNCHANGED <<image, rollbackOf>>
        /\ \E to \in Statuses : Transition(d, to)
    BY <1>5 DEF ParkForSignature, PublishRefused, SendFails, MarkDeploying, Statuses, PendingStatuses
  <2>. QED  BY <2>1, <2>2, MoveKnown
<1>6. ASSUME NEW d \in IDs, EndRollout(d) \/ MarkLive(d)
      PROVE  RowsKnown'
  BY <1>6, MoveKnown DEF EndRollout, MarkLive, RowsKnown, Statuses, BuiltStatuses
<1>7. ASSUME NEW d \in IDs, RetirePrevious(d)
      PROVE  RowsKnown'
  <2>1. sync.live \in IDs \cup {0}
    BY DEF TypeOK, SyncType
  <2>. QED  BY <1>7, <2>1, MoveKnown DEF RetirePrevious, RowsKnown, Statuses, BuiltStatuses
<1>. DEFINE Kept == UNCHANGED <<status, image, rollbackOf>>
<1>8. Kept => RowsKnown'
  BY DEF RowsKnown
<1>. HIDE DEF Kept
<1>9. ASSUME NEW r \in Requests,
             \/ PrepareSigning(r) \/ PrepareFails(r) \/ SupersedeDone(r)
             \/ DispatchRun(r) \/ SaveRunID(r)
             \/ \E v \in Versions : StartDeploy(r, v)
      PROVE  Kept
  BY <1>9 DEF Kept, PrepareSigning, PrepareFails, SupersedeDone, DispatchRun, SaveRunID, StartDeploy
<1>10. ASSUME NEW d \in IDs,
              \/ GrowLate(d) \/ \E outcome \in RunEnds : EndRun(d, outcome)
              \/ \E result \in Results : ConsumeNonce(d, result)
       PROVE  Kept
  BY <1>10 DEF Kept, GrowLate, EndRun, ConsumeNonce
<1>11. ASSUME NEW c \in Callers,
              LoadTarget(c) \/ PublishAccepted(c) \/ RecordVersion(c) \/ SendImage(c) \/ DeployApp(c)
       PROVE  Kept
  BY <1>11 DEF Kept, LoadTarget, PublishAccepted, RecordVersion, SendImage, DeployApp
<1>12. ASSUME NEW d \in IDs,
              SyncBuilt(d) \/ SyncSigned(d) \/ ReadRollout(d) \/ PointTarget(d)
       PROVE  Kept
  BY <1>12 DEF Kept, SyncBuilt, SyncSigned, SyncCallsGoLive, ReadRollout, PointTarget
<1>13. ASSUME ListInFlight \/ WalletStep \/ (\E n \in Records : ClaimSignature(n)) \/ ClusterStep \/ Crash
       PROVE  Kept
  BY <1>13 DEF Kept, ListInFlight, WalletStep, ClaimSignature, RefuseSignature, RecordSignature,
     ListWaiting, ResumeWaiting, WalletReturns, ClusterStep, Crash
<1>. QED
  BY <1>1, <1>2, <1>3, <1>4, <1>5, <1>6, <1>7, <1>8, <1>9, <1>10, <1>11, <1>12, <1>13, InsertCases
  DEF Next, EnvironmentStep, RequestStep, CallbackStep, GoLiveStep, SyncStep

\* Handling a listed row takes it off the list and adds none.
LEMMA HandledTodo ==
    ASSUME TypeOK, NEW d \in IDs, Handled(d)
    PROVE  /\ \A e \in IDs : sync'.todo[e] = "none" \/ sync'.todo[e] = sync.todo[e]
           /\ sync'.pc = "scan"
<1>1. sync'.todo = [sync.todo EXCEPT ![d] = "none"] /\ sync'.pc = "scan"
  BY DEF Handled, IdleSync
<1>. QED  BY <1>1 DEF TypeOK, SyncType

\* Every step keeps it that whatever works on a built deployment finds its image.
LEMMA WorkStep ==
    ASSUME HostingAssumption, TypeOK, References, ImageInv, Next
    PROVE  WorkKnown'
<1>. USE DEF ImageInv
<1>. DEFINE GoLivesFrom(d) == \A c \in Callers :
                golive'[c].pc # "idle" => \/ golive[c].pc # "idle" /\ golive'[c].dep = golive[c].dep
                                         \/ golive'[c].dep = d
            TodoKept == \A e \in IDs : sync'.todo[e] \in BuiltStatuses => sync'.todo[e] = sync.todo[e]
            WaitingKept == wallet'.waiting \subseteq wallet.waiting
<1>1. ASSUME NEW d, d \in IDs => image[d] # NoImage, image' = image,
             GoLivesFrom(d), TodoKept, WaitingKept
      PROVE  WorkKnown'
  BY <1>1 DEF WorkKnown
<1>2. image' = image /\ golive' = golive /\ TodoKept /\ WaitingKept => WorkKnown'
  BY DEF WorkKnown
<1>3. ASSUME NEW d \in IDs, ApplyImage(d)
      PROVE  WorkKnown'
  <2>1. CASE CanTransition(status[d], "built")
    <3>1. /\ golive' = [golive EXCEPT ![d] = GoLiveOf(d)]
          /\ image' = [image EXCEPT ![d] = Reported(d, callback[d])]
          /\ UNCHANGED <<sync, wallet>>
      BY <1>3, <2>1 DEF ApplyImage
    <3>2. \A e \in IDs : image[e] # NoImage \/ e = d => image'[e] # NoImage
      BY <1>3, <2>1, <3>1, ImageIsFirst DEF TypeOK
    <3>3. \A c \in Callers : golive'[c].pc # "idle" =>
              (golive[c].pc # "idle" /\ golive'[c].dep = golive[c].dep) \/ golive'[c].dep = d
      BY <3>1 DEF TypeOK, GoLiveOf
    <3>. QED  BY <3>1, <3>2, <3>3 DEF WorkKnown
  <2>2. CASE ~CanTransition(status[d], "built")
    BY <1>2, <1>3, <2>2 DEF ApplyImage
  <2>. QED  BY <2>1, <2>2
<1>4. ASSUME NEW r \in Requests, SupersedeDone(r)
      PROVE  WorkKnown'
  <2>. DEFINE d == request[r].dep
  <2>1. d \in IDs
    BY <1>4, WorkedOn DEF SupersedeDone, Working
  <2>2. CASE rollbackOf[d] = 0
    BY <1>2, <1>4, <2>2 DEF SupersedeDone
  <2>3. CASE rollbackOf[d] # 0
    <3>1. image[d] # NoImage
      BY <2>1, <2>3 DEF RowsKnown
    <3>2. golive' = [golive EXCEPT ![d] = GoLiveOf(d)] /\ UNCHANGED <<image, sync, wallet>>
      BY <1>4, <2>3 DEF SupersedeDone
    <3>3. GoLivesFrom(d)
      BY <3>2 DEF TypeOK, GoLiveOf
    <3>. QED  BY <1>1, <3>1, <3>2, <3>3
  <2>. QED  BY <2>2, <2>3
<1>5. ASSUME NEW d \in IDs, SyncBuilt(d) \/ SyncSigned(d)
      PROVE  WorkKnown'
  <2>1. sync.todo[d] \in BuiltStatuses
    BY <1>5 DEF SyncBuilt, SyncSigned, Handling, BuiltStatuses
  <2>2. image[d] # NoImage
    BY <2>1 DEF WorkKnown
  <2>3. /\ Handled(d)
        /\ golive' = [golive EXCEPT ![SyncCaller] = GoLiveOf(d)]
        /\ UNCHANGED <<image, wallet>>
    BY <1>5 DEF SyncBuilt, SyncSigned, SyncCallsGoLive
  <2>4. GoLivesFrom(d)
    BY <2>3 DEF TypeOK, GoLiveOf
  <2>5. TodoKept
    BY <2>3, HandledTodo DEF BuiltStatuses
  <2>. QED  BY <1>1, <2>2, <2>3, <2>4, <2>5
<1>6. ASSUME NEW d \in IDs,
             SyncBuild(d) \/ SyncUnsigned(d) \/ EndRollout(d) \/ MarkLive(d) \/ PointTarget(d)
      PROVE  WorkKnown'
  <2>1. Handled(d) \/ sync'.todo = sync.todo
    BY <1>6 DEF SyncBuild, SyncUnsigned, EndRollout, MarkLive, PointTarget, TypeOK, SyncType
  <2>2. UNCHANGED <<image, golive, wallet>>
    BY <1>6 DEF SyncBuild, SyncUnsigned, EndRollout, MarkLive, PointTarget
  <2>3. TodoKept
    BY <2>1, HandledTodo DEF BuiltStatuses
  <2>. QED  BY <1>2, <2>2, <2>3
<1>7. ASSUME NEW d \in IDs, ReadRollout(d) \/ RetirePrevious(d)
      PROVE  WorkKnown'
  <2>1. sync'.todo = sync.todo /\ UNCHANGED <<image, golive, wallet>>
    BY <1>7 DEF ReadRollout, RetirePrevious, TypeOK, SyncType
  <2>. QED  BY <1>2, <2>1
<1>8. ASSUME ListInFlight
      PROVE  WorkKnown'
  <2>1. sync'.todo = [e \in IDs |-> IF e \in InFlight THEN status[e] ELSE "none"]
    BY <1>8 DEF ListInFlight, IdleSync
  <2>2. \A e \in IDs : sync'.todo[e] \in BuiltStatuses => image[e] # NoImage
    BY <2>1 DEF RowsKnown, BuiltOrLater, BuiltStatuses
  <2>. QED  BY <1>8, <2>2 DEF ListInFlight, WorkKnown
<1>9. ASSUME ListWaiting
      PROVE  WorkKnown'
  <2>1. \A e \in IDs : e \in wallet'.waiting => status[e] = "awaiting_signature"
    BY <1>9 DEF ListWaiting, IdleWallet, TypeOK, WalletType
  <2>2. \A e \in IDs : e \in wallet'.waiting => image[e] # NoImage
    BY <2>1 DEF RowsKnown, BuiltOrLater, BuiltStatuses
  <2>. QED  BY <1>9, <2>2 DEF ListWaiting, WorkKnown
<1>10. ASSUME NEW d \in IDs, ResumeWaiting(d)
       PROVE  WorkKnown'
  <2>1. /\ d \in wallet.waiting /\ wallet'.waiting = wallet.waiting \ {d}
        /\ golive' = [golive EXCEPT ![WalletCaller] = GoLiveOf(d)]
        /\ UNCHANGED <<image, sync>>
    BY <1>10 DEF ResumeWaiting, TypeOK, WalletType
  <2>2. image[d] # NoImage
    BY <2>1 DEF WorkKnown
  <2>3. GoLivesFrom(d)
    BY <2>1 DEF TypeOK, GoLiveOf
  <2>. QED  BY <1>1, <2>1, <2>2, <2>3
<1>11. ASSUME RefuseSignature \/ RecordSignature \/ WalletReturns \/ \E n \in Records : ClaimSignature(n)
       PROVE  WorkKnown'
  <2>1. UNCHANGED <<image, golive, sync>>
    BY <1>11 DEF RefuseSignature, RecordSignature, WalletReturns, ClaimSignature
  <2>2. CASE RefuseSignature \/ WalletReturns
    BY <1>2, <2>1, <2>2 DEF RefuseSignature, WalletReturns, IdleWallet
  <2>3. CASE RecordSignature \/ \E n \in Records : ClaimSignature(n)
    <3>1. wallet'.waiting = wallet.waiting
      BY <2>3 DEF RecordSignature, ClaimSignature, TypeOK, WalletType
    <3>. QED  BY <1>2, <2>1, <3>1
  <2>. QED  BY <1>11, <2>2, <2>3
<1>12. ASSUME NEW c \in Callers,
              \/ LoadTarget(c) \/ ParkForSignature(c) \/ PublishAccepted(c) \/ PublishRefused(c)
              \/ RecordVersion(c) \/ SendImage(c) \/ DeployApp(c) \/ SendFails(c) \/ MarkDeploying(c)
       PROVE  WorkKnown'
  <2>1. \/ GoLiveEnds(c)
        \/ golive[c].pc # "idle" /\ \E pc : GoLiveTo(c, pc)
    BY <1>12 DEF LoadTarget, ParkForSignature, PublishAccepted, PublishRefused, RecordVersion,
       SendImage, DeployApp, SendFails, MarkDeploying, GoLiveAt
  <2>2. UNCHANGED <<image, sync, wallet>>
    BY <1>12 DEF LoadTarget, ParkForSignature, PublishAccepted, PublishRefused, RecordVersion,
       SendImage, DeployApp, SendFails, MarkDeploying
  <2>3. GoLivesFrom(0)
    BY <2>1 DEF GoLiveEnds, GoLiveTo, IdleGoLive, TypeOK, GoLiveType
  <2>. QED  BY <1>1, <2>2, <2>3, Numbers
<1>13. ASSUME Crash
       PROVE  WorkKnown'
  BY <1>13 DEF Crash, WorkKnown, IdleGoLive, IdleSync, IdleWallet, BuiltStatuses
<1>. HIDE DEF GoLivesFrom, TodoKept, WaitingKept
<1>. DEFINE Kept == UNCHANGED <<image, golive, sync, wallet>>
<1>14. Kept => WorkKnown'
  BY DEF WorkKnown
<1>. HIDE DEF Kept
<1>15. ASSUME NEW r \in Requests,
              \/ PrepareSigning(r) \/ PrepareFails(r) \/ DispatchRun(r) \/ DispatchFails(r)
              \/ SaveRunID(r) \/ (\E v \in Versions : StartDeploy(r, v))
              \/ \E d \in IDs : SupersedeOne(r, d)
       PROVE  Kept
  BY <1>15 DEF Kept, PrepareSigning, PrepareFails, DispatchRun, DispatchFails, SaveRunID, StartDeploy,
     SupersedeOne
<1>16. ASSUME NEW d \in IDs,
              \/ GrowLate(d) \/ CancelByUser(d) \/ StartBuilding(d) \/ ApplyFailure(d)
              \/ (\E outcome \in RunEnds : EndRun(d, outcome))
              \/ \E result \in Results : ConsumeNonce(d, result)
       PROVE  Kept
  BY <1>16 DEF Kept, GrowLate, CancelByUser, StartBuilding, ApplyFailure, EndRun, ConsumeNonce
<1>17. ASSUME ClusterStep
       PROVE  Kept
  BY <1>17 DEF Kept, ClusterStep
<1>. QED
  BY <1>3, <1>4, <1>5, <1>6, <1>7, <1>8, <1>9, <1>10, <1>11, <1>12, <1>13, <1>14, <1>15, <1>16,
     <1>17, InsertCases
  DEF Next, EnvironmentStep, RequestStep, CallbackStep, GoLiveStep, SyncStep, WalletStep

\* Every step keeps it that only builds, never rollbacks, have runs and callbacks.
LEMMA BuildsStep ==
    ASSUME HostingAssumption, TypeOK, References, ImageInv, Next
    PROVE  BuildsOnly'
<1>. USE DEF ImageInv
<1>. DEFINE SameRuns == \A e \in IDs : run'[e] = "none" <=> run[e] = "none"
            CallbacksFrom(S) == \A e \in IDs : callback'[e] # "idle" => callback[e] # "idle" \/ e \in S
            RequestsFrom == \A q \in Requests : request'[q].pc \in {"dispatch", "save"} =>
                                /\ request[q].pc \in {"dispatch", "save"}
                                /\ request'[q].dep = request[q].dep
<1>1. rollbackOf' = rollbackOf /\ SameRuns /\ CallbacksFrom({}) /\ RequestsFrom => BuildsOnly'
  BY DEF BuildsOnly
<1>2. ASSUME NEW r \in Requests, DispatchRun(r)
      PROVE  BuildsOnly'
  <2>. DEFINE d == request[r].dep
  <2>1. d \in IDs /\ rollbackOf[d] = 0
    BY <1>2, WorkedOn DEF DispatchRun, Working, BuildsOnly
  <2>2. run' = [run EXCEPT ![d] = "active"] /\ UNCHANGED <<rollbackOf, callback>>
    BY <1>2 DEF DispatchRun
  <2>3. RequestsFrom
    BY <1>2 DEF DispatchRun, TypeOK, RequestType
  <2>. QED  BY <2>1, <2>2, <2>3 DEF BuildsOnly, TypeOK
<1>3. ASSUME NEW r \in Requests, SupersedeDone(r)
      PROVE  BuildsOnly'
  <2>1. UNCHANGED <<rollbackOf, run, callback>>
    BY <1>3 DEF SupersedeDone
  <2>2. \A q \in Requests : request'[q].pc \in {"dispatch", "save"} =>
            rollbackOf[request'[q].dep] = 0
    BY <1>3 DEF SupersedeDone, BuildsOnly, IdleRequest, TypeOK, RequestType
  <2>. QED  BY <2>1, <2>2 DEF BuildsOnly
<1>4. ASSUME NEW d \in IDs, NEW result \in Results, ConsumeNonce(d, result)
      PROVE  BuildsOnly'
  <2>1. run[d] # "none" /\ CallbacksFrom({d}) /\ UNCHANGED <<rollbackOf, run, request>>
    BY <1>4 DEF ConsumeNonce, TypeOK
  <2>. QED  BY <2>1 DEF BuildsOnly
<1>5. ASSUME NEW d \in IDs, CancelDeployment(d), UNCHANGED <<rollbackOf, callback, request>>
      PROVE  BuildsOnly'
  <2>1. SameRuns
    BY <1>5 DEF CancelDeployment, TypeOK
  <2>. QED  BY <1>1, <1>5, <2>1
<1>6. ASSUME NEW d \in IDs, NEW outcome \in RunEnds, EndRun(d, outcome)
      PROVE  BuildsOnly'
  <2>1. SameRuns
    BY <1>6 DEF EndRun, TypeOK, RunEnds
  <2>. QED  BY <1>1, <1>6, <2>1 DEF EndRun
<1>7. ASSUME NEW d \in IDs, StartBuilding(d) \/ ApplyFailure(d) \/ ApplyImage(d)
      PROVE  BuildsOnly'
  <2>1. CallbacksFrom({}) /\ UNCHANGED <<rollbackOf, run, request>>
    BY <1>7 DEF StartBuilding, ApplyFailure, ApplyImage, TypeOK
  <2>. QED  BY <1>1, <2>1
<1>8. ASSUME NEW r \in Requests,
             \/ PrepareSigning(r) \/ PrepareFails(r) \/ DispatchFails(r) \/ SaveRunID(r)
             \/ \E v \in Versions : StartDeploy(r, v)
      PROVE  BuildsOnly'
  <2>1. ASSUME PrepareSigning(r)
        PROVE  RequestsFrom
    BY <2>1 DEF PrepareSigning, TypeOK, RequestType
  <2>2. ASSUME PrepareFails(r) \/ DispatchFails(r) \/ SaveRunID(r)
        PROVE  RequestsFrom
    BY <2>2 DEF PrepareFails, DispatchFails, SaveRunID, IdleRequest, TypeOK
  <2>3. ASSUME NEW v \in Versions, StartDeploy(r, v)
        PROVE  RequestsFrom
    <3>1. \E pc \in {"prepare", "create"} :
            request' = [request EXCEPT ![r] = [pc |-> pc, version |-> v, dep |-> 0]]
      BY <2>3 DEF StartDeploy
    <3>. QED  BY <3>1 DEF TypeOK
  <2>4. RequestsFrom
    BY <1>8, <2>1, <2>2, <2>3
  <2>5. UNCHANGED <<rollbackOf, run, callback>>
    BY <1>8 DEF PrepareSigning, PrepareFails, DispatchFails, SaveRunID, StartDeploy
  <2>. QED  BY <1>1, <2>4, <2>5
<1>9. ASSUME NEW d \in IDs, CancelByUser(d) \/ SyncUnsigned(d) \/ \E r \in Requests : SupersedeOne(r, d)
      PROVE  BuildsOnly'
  <2>1. UNCHANGED <<rollbackOf, callback, request>>
    BY <1>9 DEF CancelByUser, SyncUnsigned, SupersedeOne
  <2>2. CancelDeployment(d) \/ UNCHANGED run
    BY <1>9 DEF CancelByUser, SyncUnsigned, SupersedeOne
  <2>. QED  BY <1>1, <1>5, <2>1, <2>2
<1>10. ASSUME Crash
       PROVE  BuildsOnly'
  BY <1>1, <1>10 DEF Crash, IdleRequest
<1>. HIDE DEF SameRuns, CallbacksFrom, RequestsFrom
<1>. DEFINE Kept == UNCHANGED <<rollbackOf, run, callback, request>>
<1>11. Kept => BuildsOnly'
  BY DEF BuildsOnly
<1>. HIDE DEF Kept
<1>12. ASSUME NEW c \in Callers,
              \/ LoadTarget(c) \/ ParkForSignature(c) \/ PublishAccepted(c) \/ PublishRefused(c)
              \/ RecordVersion(c) \/ SendImage(c) \/ DeployApp(c) \/ SendFails(c) \/ MarkDeploying(c)
       PROVE  Kept
  BY <1>12 DEF Kept, LoadTarget, ParkForSignature, PublishAccepted, PublishRefused, RecordVersion,
     SendImage, DeployApp, SendFails, MarkDeploying
<1>13. ASSUME NEW d \in IDs,
              \/ GrowLate(d) \/ SyncBuild(d) \/ SyncBuilt(d) \/ SyncSigned(d) \/ ReadRollout(d)
              \/ EndRollout(d) \/ MarkLive(d) \/ RetirePrevious(d) \/ PointTarget(d)
       PROVE  Kept
  BY <1>13 DEF Kept, GrowLate, SyncBuild, SyncBuilt, SyncSigned, SyncCallsGoLive, ReadRollout,
     EndRollout, MarkLive, RetirePrevious, PointTarget
<1>14. ASSUME ListInFlight \/ WalletStep \/ (\E n \in Records : ClaimSignature(n)) \/ ClusterStep
       PROVE  Kept
  BY <1>14 DEF Kept, ListInFlight, WalletStep, ClaimSignature, RefuseSignature, RecordSignature,
     ListWaiting, ResumeWaiting, WalletReturns, ClusterStep
<1>. QED
  BY <1>2, <1>3, <1>4, <1>6, <1>7, <1>8, <1>9, <1>10, <1>11, <1>12, <1>13, <1>14, InsertCases
  DEF Next, EnvironmentStep, RequestStep, CallbackStep, GoLiveStep, SyncStep

-----------------------------------------------------------------------------
\* A live row leaves that status only when it is retired.
LEMMA LiveStays ==
    ASSUME TypeOK, NEW d, NEW to \in Statuses \ {"superseded"}, Transition(d, to)
    PROVE  \A e \in IDs : status[e] = "live" => status'[e] = "live"
<1>1. CanTransition("live", to) => to = "superseded"
  BY DEF CanTransition, Transitions, Statuses, PendingStatuses
<1>. QED  BY <1>1 DEF Transition, TypeOK

\* The row the cron is handling is the first of those it has listed.
LEMMA HandledFirst ==
    ASSUME HostingAssumption, NEW d \in IDs, NEW S, Handling(d, S), "none" \notin S,
           NEW e \in IDs, FirstListed(e)
    PROVE  e = d
BY Numbers DEF Handling, FirstListed, Listed

\* Between its writes markLive works on the first listed row, which is live.
LEMMA MarkedStep ==
    ASSUME HostingAssumption, TypeOK, References, ImageInv, Next
    PROVE  MarkedLive'
<1>. USE DEF ImageInv
<1>. DEFINE LivesStay == \A e \in IDs : status[e] = "live" => status'[e] = "live"
<1>1. sync' = sync /\ LivesStay => MarkedLive'
  BY DEF MarkedLive, FirstListed, Listed
<1>2. sync'.pc \notin {"retire", "point"} => MarkedLive'
  BY DEF MarkedLive
<1>3. ASSUME NEW d \in IDs, MarkLive(d)
      PROVE  MarkedLive'
  <2>1. CASE CanTransition(status[d], "live")
    <3>1. status'[d] = "live"
      BY <1>3, <2>1 DEF MarkLive, Transition, TypeOK
    <3>2. sync.todo[d] = "deploying" /\ \A e \in Listed : d <= e
      BY <1>3 DEF MarkLive, Handling
    <3>3. sync'.todo = sync.todo
      BY <1>3, <2>1 DEF MarkLive, TypeOK, SyncType
    <3>. QED  BY <3>1, <3>2, <3>3 DEF MarkedLive, FirstListed, Listed
  <2>2. CASE ~CanTransition(status[d], "live")
    BY <1>2, <1>3, <2>2, HandledTodo DEF MarkLive
  <2>. QED  BY <2>1, <2>2
<1>4. ASSUME NEW d \in IDs, RetirePrevious(d)
      PROVE  MarkedLive'
  <2>1. sync.todo[d] = "deploying" /\ \A e \in Listed : d <= e
    BY <1>4 DEF RetirePrevious, Handling
  <2>2. status[d] = "live"
    <3>1. PICK e \in IDs : FirstListed(e) /\ status[e] = "live"
      BY <1>4 DEF RetirePrevious, MarkedLive
    <3>. QED  BY <1>4, <3>1, HandledFirst DEF RetirePrevious
  <2>3. status'[d] = "live"
    BY <1>4, <2>2 DEF RetirePrevious, Transition, TypeOK
  <2>4. sync'.todo = sync.todo
    BY <1>4 DEF RetirePrevious, TypeOK, SyncType
  <2>. QED  BY <2>1, <2>3, <2>4 DEF MarkedLive, FirstListed, Listed
<1>5. ASSUME NEW d \in IDs,
             \/ SyncBuild(d) \/ SyncBuilt(d) \/ SyncSigned(d) \/ SyncUnsigned(d)
             \/ EndRollout(d) \/ PointTarget(d)
      PROVE  MarkedLive'
  <2>1. Handled(d)
    BY <1>5 DEF SyncBuild, SyncBuilt, SyncSigned, SyncUnsigned, SyncCallsGoLive, EndRollout, PointTarget
  <2>. QED  BY <1>2, <2>1, HandledTodo
<1>6. ASSUME ListInFlight \/ Crash \/ \E d \in IDs : ReadRollout(d)
      PROVE  MarkedLive'
  <2>1. IdleSync.pc = "scan"
    BY DEF IdleSync
  <2>2. ASSUME NEW d \in IDs, ReadRollout(d)
        PROVE  sync'.pc = "verdict"
    BY <2>2 DEF ReadRollout, TypeOK, SyncType
  <2>3. CASE Crash
    BY <1>2, <2>1, <2>3 DEF Crash
  <2>4. CASE ListInFlight
    <3>1. sync'.pc = IdleSync.pc
      BY <2>4 DEF ListInFlight, IdleSync
    <3>. QED  BY <1>2, <2>1, <3>1
  <2>. QED  BY <1>2, <1>6, <2>2, <2>3, <2>4
<1>7. ASSUME NEW c \in Callers,
             ParkForSignature(c) \/ PublishRefused(c) \/ SendFails(c) \/ MarkDeploying(c)
      PROVE  MarkedLive'
  <2>1. /\ sync' = sync
        /\ \E to \in Statuses \ {"superseded"} : Transition(golive[c].dep, to)
    BY <1>7 DEF ParkForSignature, PublishRefused, SendFails, MarkDeploying, Statuses, PendingStatuses
  <2>. QED  BY <1>1, <2>1, LiveStays
<1>8. ASSUME NEW d \in IDs, CancelByUser(d) \/ \E r \in Requests : SupersedeOne(r, d)
      PROVE  MarkedLive'
  BY <1>1, <1>8, LiveStays DEF CancelByUser, SupersedeOne, CancelDeployment, Statuses
<1>9. ASSUME NEW d \in IDs, StartBuilding(d) \/ ApplyFailure(d)
      PROVE  MarkedLive'
  BY <1>1, <1>9, LiveStays DEF StartBuilding, ApplyFailure, Statuses, PendingStatuses
<1>10. ASSUME NEW r \in Requests, DispatchFails(r)
       PROVE  MarkedLive'
  BY <1>1, <1>10, LiveStays DEF DispatchFails, Statuses
<1>11. ASSUME NEW d \in IDs, ApplyImage(d)
       PROVE  MarkedLive'
  <2>1. status' = status \/ (status[d] # "live" /\ status' = [status EXCEPT ![d] = "built"])
    BY <1>11, ImageIsFirst DEF ApplyImage
  <2>2. LivesStay
    BY <2>1 DEF TypeOK
  <2>. QED  BY <1>1, <1>11, <2>2 DEF ApplyImage
<1>12. ASSUME NEW r \in Requests, NEW v, NEW digest, NEW previous,
              InsertDeployment(r, v, digest, previous)
       PROVE  MarkedLive'
  <2>1. lastID + 1 \in IDs /\ status[lastID + 1] = "none"
    BY <1>12, WorkedOn DEF InsertDeployment, References
  <2>2. LivesStay
    BY <1>12, <2>1 DEF InsertDeployment, TypeOK
  <2>. QED  BY <1>1, <1>12, <2>2 DEF InsertDeployment
<1>13. ASSUME NEW r \in Requests, CreateDeployment(r) \/ \E d \in IDs : StartRollback(r, d)
       PROVE  MarkedLive'
  BY <1>12, <1>13 DEF CreateDeployment, StartRollback
<1>. HIDE DEF LivesStay
<1>. DEFINE Kept == UNCHANGED <<status, sync>>
<1>14. Kept => MarkedLive'
  BY DEF MarkedLive, FirstListed, Listed
<1>. HIDE DEF Kept
<1>15. ASSUME NEW r \in Requests,
              \/ PrepareSigning(r) \/ PrepareFails(r) \/ SupersedeDone(r) \/ DispatchRun(r)
              \/ SaveRunID(r) \/ \E v \in Versions : StartDeploy(r, v)
       PROVE  Kept
  BY <1>15 DEF Kept, PrepareSigning, PrepareFails, SupersedeDone, DispatchRun, SaveRunID, StartDeploy
<1>16. ASSUME NEW d \in IDs,
              \/ GrowLate(d) \/ (\E outcome \in RunEnds : EndRun(d, outcome))
              \/ \E result \in Results : ConsumeNonce(d, result)
       PROVE  Kept
  BY <1>16 DEF Kept, GrowLate, EndRun, ConsumeNonce
<1>17. ASSUME NEW c \in Callers,
              LoadTarget(c) \/ PublishAccepted(c) \/ RecordVersion(c) \/ SendImage(c) \/ DeployApp(c)
       PROVE  Kept
  BY <1>17 DEF Kept, LoadTarget, PublishAccepted, RecordVersion, SendImage, DeployApp
<1>18. ASSUME WalletStep \/ (\E n \in Records : ClaimSignature(n)) \/ ClusterStep
       PROVE  Kept
  BY <1>18 DEF Kept, WalletStep, ClaimSignature, RefuseSignature, RecordSignature, ListWaiting,
     ResumeWaiting, WalletReturns, ClusterStep
<1>. QED
  BY <1>3, <1>4, <1>5, <1>6, <1>7, <1>8, <1>9, <1>10, <1>11, <1>13, <1>14, <1>15, <1>16, <1>17, <1>18
  DEF Next, EnvironmentStep, RequestStep, CallbackStep, GoLiveStep, SyncStep

-----------------------------------------------------------------------------
\* ImageInv is inductive with the types and the references.
THEOREM ImageInvariant == Spec => []ImageInv
<1>1. ASSUME HostingAssumption, Init
      PROVE  ImageInv
  <2>1. ImagesRegistered
    BY <1>1 DEF Init, ClusterInit, ImagesRegistered
  <2>2. RowsKnown /\ WorkKnown
    BY <1>1 DEF Init, RowsKnown, WorkKnown, BuiltOrLater, BuiltStatuses, IdleGoLive, IdleSync,
       IdleWallet
  <2>3. BuildsOnly /\ MarkedLive
    BY <1>1 DEF Init, BuildsOnly, MarkedLive, IdleRequest, IdleSync
  <2>. QED  BY <2>1, <2>2, <2>3 DEF ImageInv
<1>2. ASSUME ImageInv, UNCHANGED vars
      PROVE  ImageInv'
  <2>1. ImagesRegistered' /\ RowsKnown' /\ WorkKnown'
    BY <1>2 DEF vars, ImageInv, ImagesRegistered, RowsKnown, WorkKnown
  <2>2. BuildsOnly' /\ MarkedLive'
    BY <1>2 DEF vars, ImageInv, BuildsOnly, MarkedLive, FirstListed, Listed
  <2>. QED  BY <2>1, <2>2 DEF ImageInv
<1>3. HostingAssumption /\ TypeOK /\ References /\ ImageInv /\ [Next]_vars => ImageInv'
  <2>1. ASSUME HostingAssumption, TypeOK, References, ImageInv, Next
        PROVE  ImageInv'
    BY <2>1, RegistryStep, RowsStep, WorkStep, BuildsStep, MarkedStep DEF ImageInv
  <2>. QED  BY <1>2, <2>1
<1>. QED
  BY <1>1, <1>3, TypeCorrect, ReferencesHold, HostingAssumption, PTL DEF Spec

\* No image but the registry's reaches the cluster: the digest a callback reports is
\* looked up before it is saved (HandleBuildCallback), and a rollback's before it is
\* inserted.
THEOREM RegistryImagesHold == Spec => []OnlyRegistryImages
<1>1. ImageInv => OnlyRegistryImages
  BY DEF ImageInv, ImagesRegistered, OnlyRegistryImages
<1>. QED  BY <1>1, ImageInvariant, PTL

-----------------------------------------------------------------------------
\* Refinement of DeploymentLifecycle.

\* The step the lifecycle allows.
LifecycleStep == [UNCHANGED <<status, image>> \/ Lifecycle!Next]_(Lifecycle!vars)

\* A conditional status update is a move of the lifecycle.
LEMMA MoveMaps ==
    ASSUME HostingAssumption, TypeOK, NEW d \in IDs, NEW to \in Statuses, Transition(d, to),
           image' = image,
           to = "deploying" => image[d] # NoImage,
           to = "superseded" => \E e \in IDs \ {d} : status[e] = "live"
    PROVE  LifecycleStep
<1>. DEFINE phases == [e \in IDs |-> Phase(status[e])]
<1>1. CASE status' = status
  BY <1>1 DEF LifecycleStep
<1>2. CASE CanTransition(status[d], to) /\ status' = [status EXCEPT ![d] = to]
  <2>1. phases' = [phases EXCEPT ![d] = Phase(to)]
    BY <1>2 DEF TypeOK
  <2>2. \/ Phase(to) = Phase(status[d])
        \/ Phase(status[d]) = "pending" /\ to = "deploying" /\ Phase(to) = "rolling"
        \/ Phase(status[d]) \in {"pending", "rolling"} /\ Phase(to) = "closed"
        \/ Phase(status[d]) = "rolling" /\ Phase(to) = "live"
        \/ Phase(status[d]) = "live" /\ to = "superseded" /\ Phase(to) = "retired"
    BY <1>2 DEF CanTransition, Transitions, Statuses, PendingStatuses, Phase
  <2>3. CASE Phase(to) = Phase(status[d])
    <3>1. phases' = phases
      BY <2>1, <2>3
    <3>. QED  BY <3>1 DEF LifecycleStep, Lifecycle!vars
  <2>4. CASE Phase(status[d]) = "pending" /\ to = "deploying" /\ Phase(to) = "rolling"
    <3>1. Lifecycle!Ship(d)
      BY <2>1, <2>4 DEF Lifecycle!Ship, Lifecycle!Move
    <3>. QED  BY <3>1 DEF LifecycleStep, Lifecycle!Next
  <2>5. CASE Phase(status[d]) \in {"pending", "rolling"} /\ Phase(to) = "closed"
    <3>1. Lifecycle!Close(d)
      BY <2>1, <2>5 DEF Lifecycle!Close, Lifecycle!Move
    <3>. QED  BY <3>1 DEF LifecycleStep, Lifecycle!Next
  <2>6. CASE Phase(status[d]) = "rolling" /\ Phase(to) = "live"
    <3>1. Lifecycle!GoLive(d)
      BY <2>1, <2>6 DEF Lifecycle!GoLive, Lifecycle!Move
    <3>. QED  BY <3>1 DEF LifecycleStep, Lifecycle!Next
  <2>7. CASE Phase(status[d]) = "live" /\ to = "superseded" /\ Phase(to) = "retired"
    <3>1. \E e \in IDs \ {d} : Phase(status[e]) = "live"
      BY <2>7 DEF Phase, PendingStatuses
    <3>2. Lifecycle!Retire(d)
      BY <2>1, <2>7, <3>1 DEF Lifecycle!Retire, Lifecycle!Move
    <3>. QED  BY <3>2 DEF LifecycleStep, Lifecycle!Next
  <2>. QED  BY <2>2, <2>3, <2>4, <2>5, <2>6, <2>7
<1>. QED  BY <1>1, <1>2 DEF Transition

\* A deploy or a rollback is a creation of the lifecycle.
LEMMA InsertMaps ==
    ASSUME HostingAssumption, TypeOK, References, NEW r \in Requests, NEW v,
           NEW digest \in Digests, NEW previous, InsertDeployment(r, v, digest, previous),
           \/ digest = NoImage
           \/ \E e \in IDs : status[e] \in {"live", "superseded"} /\ image[e] = digest
    PROVE  LifecycleStep
<1>. DEFINE phases == [e \in IDs |-> Phase(status[e])]
            n == lastID + 1
<1>1. /\ n \in IDs /\ lastID \in Nat /\ \A e \in IDs : e \in Nat
      /\ status' = [status EXCEPT ![n] = "queued"]
      /\ image' = [image EXCEPT ![n] = digest]
  BY WorkedOn, Numbers DEF InsertDeployment
<1>2. \A e \in IDs : status[e] # "none" <=> e <= lastID
  BY DEF References
<1>. HIDE DEF n
<1>3. /\ Phase("none") = "none" /\ Phase("queued") = "pending"
      /\ Phase("live") = "live" /\ Phase("superseded") = "retired"
      /\ \A s \in Statuses : Phase(s) # "none"
  BY DEF Phase, PendingStatuses, Statuses
<1>4. phases' = [phases EXCEPT ![n] = "pending"]
  BY <1>1, <1>3 DEF TypeOK
<1>5. phases[n] = "none" /\ \A e \in IDs : e < n => phases[e] # "none"
  BY <1>1, <1>2, <1>3 DEF TypeOK, RowStatuses, n
<1>6. digest = NoImage \/ \E e \in IDs : phases[e] \in {"live", "retired"} /\ image[e] = digest
  BY <1>3
<1>7. Lifecycle!Create(n, digest)
  BY <1>1, <1>4, <1>5, <1>6 DEF Lifecycle!Create, Lifecycle!Move
<1>. QED  BY <1>1, <1>7 DEF LifecycleStep, Lifecycle!Next

\* A verified image that a row accepts is a build of the lifecycle.
LEMMA ImageMaps ==
    ASSUME HostingAssumption, TypeOK, References, ImageInv, NEW d \in IDs, ApplyImage(d)
    PROVE  LifecycleStep
<1>. DEFINE phases == [e \in IDs |-> Phase(status[e])]
            digest == Reported(d, callback[d])
<1>1. CASE CanTransition(status[d], "built")
  <2>1. /\ status' = [status EXCEPT ![d] = "built"]
        /\ image' = [image EXCEPT ![d] = digest]
    BY <1>1 DEF ApplyImage
  <2>2. /\ status[d] \in {"queued", "building"} /\ image[d] = NoImage
        /\ digest \in Digests \ {NoImage}
    BY <1>1, ImageIsFirst
  <2>3. Phase(status[d]) = "pending" /\ Phase("built") = "pending"
    BY <2>2 DEF Phase, PendingStatuses
  <2>4. phases' = phases
    BY <2>1, <2>3 DEF TypeOK
  <2>. HIDE DEF digest
  <2>5. Lifecycle!Build(d, digest)
    BY <2>1, <2>2, <2>3, <2>4 DEF Lifecycle!Build
  <2>. QED  BY <2>2, <2>5 DEF LifecycleStep, Lifecycle!Next
<1>2. CASE ~CanTransition(status[d], "built")
  BY <1>2 DEF ApplyImage, LifecycleStep
<1>. QED  BY <1>1, <1>2

\* Every step of every handler is a step of the lifecycle or a stutter.
LEMMA LifecycleMaps ==
    ASSUME HostingAssumption, TypeOK, References, ImageInv, Next
    PROVE  LifecycleStep
<1>1. ASSUME NEW r \in Requests, CreateDeployment(r)
      PROVE  LifecycleStep
  BY <1>1, InsertMaps, Numbers DEF CreateDeployment
<1>2. ASSUME NEW r \in Requests, NEW d \in IDs, StartRollback(r, d)
      PROVE  LifecycleStep
  <2>1. image[d] \in Digests
    BY DEF TypeOK
  <2>. QED  BY <1>2, <2>1, InsertMaps DEF StartRollback
<1>. DEFINE Plain == Statuses \ {"deploying", "superseded"}
<1>3. ASSUME NEW d \in IDs, NEW to \in Plain, Transition(d, to), image' = image
      PROVE  LifecycleStep
  BY <1>3, MoveMaps
<1>4. /\ Plain \subseteq Statuses
      /\ {"building", "built", "awaiting_signature", "awaiting_certification", "live", "build_failed",
          "deploy_failed", "rolled_back", "cancelled"} \subseteq Plain
  BY DEF Statuses, PendingStatuses
<1>. HIDE DEF Plain
<1>5. ASSUME NEW r \in Requests, DispatchFails(r)
      PROVE  LifecycleStep
  BY <1>3, <1>4, <1>5, WorkedOn DEF DispatchFails, Working
<1>6. ASSUME NEW d \in IDs, CancelByUser(d) \/ \E r \in Requests : SupersedeOne(r, d)
      PROVE  LifecycleStep
  BY <1>3, <1>4, <1>6 DEF CancelByUser, SupersedeOne, CancelDeployment
<1>. DEFINE Kept == UNCHANGED <<status, image>>
<1>7. Kept => LifecycleStep
  BY DEF LifecycleStep
<1>. HIDE DEF Kept
<1>8. ASSUME NEW d \in IDs, SyncUnsigned(d) \/ StartBuilding(d) \/ ApplyFailure(d) \/ SyncBuild(d)
      PROVE  LifecycleStep
  BY <1>3, <1>4, <1>7, <1>8 DEF Kept, SyncUnsigned, CancelDeployment, StartBuilding,
     ApplyFailure, SyncBuild
<1>9. ASSUME NEW c \in Callers, ParkForSignature(c) \/ PublishRefused(c) \/ SendFails(c)
      PROVE  LifecycleStep
  <2>1. golive[c].dep \in IDs
    BY <1>9, WorkedOn DEF ParkForSignature, PublishRefused, SendFails, GoLiveAt
  <2>. QED  BY <1>3, <1>4, <1>9, <2>1 DEF ParkForSignature, PublishRefused, SendFails
<1>10. ASSUME NEW c \in Callers, MarkDeploying(c)
       PROVE  LifecycleStep
  <2>1. golive[c].dep \in IDs /\ image[golive[c].dep] # NoImage
    BY <1>10, WorkedOn DEF MarkDeploying, GoLiveAt, ImageInv, WorkKnown
  <2>. QED  BY <1>10, <2>1, MoveMaps DEF MarkDeploying, Statuses
<1>11. ASSUME NEW d \in IDs, EndRollout(d) \/ MarkLive(d)
       PROVE  LifecycleStep
  BY <1>3, <1>4, <1>7, <1>11 DEF Kept, EndRollout, MarkLive
<1>12. ASSUME NEW d \in IDs, RetirePrevious(d)
       PROVE  LifecycleStep
  <2>1. CASE sync.live \in {0, d}
    BY <1>7, <1>12, <2>1 DEF Kept, RetirePrevious
  <2>2. CASE sync.live \notin {0, d}
    <3>1. PICK e \in IDs : FirstListed(e) /\ status[e] = "live"
      BY <1>12 DEF RetirePrevious, ImageInv, MarkedLive
    <3>2. e = d
      BY <1>12, <3>1, HandledFirst DEF RetirePrevious
    <3>3. sync.live \in IDs
      BY <2>2 DEF TypeOK, SyncType
    <3>. QED  BY <1>12, <2>2, <3>1, <3>2, <3>3, MoveMaps DEF RetirePrevious, Statuses
  <2>. QED  BY <2>1, <2>2
<1>13. ASSUME NEW r \in Requests,
              \/ PrepareSigning(r) \/ PrepareFails(r) \/ SupersedeDone(r) \/ DispatchRun(r)
              \/ SaveRunID(r) \/ \E v \in Versions : StartDeploy(r, v)
       PROVE  Kept
  BY <1>13 DEF Kept, PrepareSigning, PrepareFails, SupersedeDone, DispatchRun, SaveRunID, StartDeploy
<1>14. ASSUME NEW d \in IDs,
              \/ GrowLate(d) \/ (\E outcome \in RunEnds : EndRun(d, outcome))
              \/ \E result \in Results : ConsumeNonce(d, result)
       PROVE  Kept
  BY <1>14 DEF Kept, GrowLate, EndRun, ConsumeNonce
<1>15. ASSUME NEW c \in Callers,
              LoadTarget(c) \/ PublishAccepted(c) \/ RecordVersion(c) \/ SendImage(c) \/ DeployApp(c)
       PROVE  Kept
  BY <1>15 DEF Kept, LoadTarget, PublishAccepted, RecordVersion, SendImage, DeployApp
<1>16. ASSUME NEW d \in IDs, SyncBuilt(d) \/ SyncSigned(d) \/ ReadRollout(d) \/ PointTarget(d)
       PROVE  Kept
  BY <1>16 DEF Kept, SyncBuilt, SyncSigned, SyncCallsGoLive, ReadRollout, PointTarget
<1>17. ASSUME ListInFlight \/ WalletStep \/ (\E n \in Records : ClaimSignature(n)) \/ ClusterStep \/ Crash
       PROVE  Kept
  BY <1>17 DEF Kept, ListInFlight, WalletStep, ClaimSignature, RefuseSignature, RecordSignature,
     ListWaiting, ResumeWaiting, WalletReturns, ClusterStep, Crash
<1>. QED
  BY <1>1, <1>2, <1>5, <1>6, <1>7, <1>8, <1>9, <1>10, <1>11, <1>12, <1>13, <1>14, <1>15, <1>16, <1>17,
     ImageMaps
  DEF Next, EnvironmentStep, RequestStep, CallbackStep, GoLiveStep, SyncStep

\* Hosting implements DeploymentLifecycle: whichever handlers move the rows, in
\* whatever order and through whatever crashes, they behave as one lifecycle per
\* deployment.
THEOREM RefinesLifecycle == Spec => LifecycleSpec
<1>1. ASSUME HostingAssumption, Init
      PROVE  Lifecycle!Init
  <2>1. Phase("none") = "none"
    BY DEF Phase, PendingStatuses
  <2>2. [d \in IDs |-> Phase(status[d])] = [d \in IDs |-> "none"]
    BY <1>1, <2>1 DEF Init
  <2>. QED  BY <1>1, <2>2 DEF Init, Lifecycle!Init
<1>2. HostingAssumption /\ TypeOK /\ References /\ ImageInv /\ [Next]_vars
        => [UNCHANGED <<status, image>> \/ Lifecycle!Next]_(Lifecycle!vars)
  <2>1. ASSUME UNCHANGED vars
        PROVE  UNCHANGED <<status, image>>
    BY <2>1 DEF vars
  <2>. QED  BY <2>1, LifecycleMaps DEF LifecycleStep
<1>. QED
  BY <1>1, <1>2, HostingAssumption, TypeCorrect, ReferencesHold, ImageInvariant, PTL
  DEF Spec, LifecycleSpec
=============================================================================
