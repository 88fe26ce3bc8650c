------------------------ MODULE HostingReleaseProofs ------------------------
(***************************************************************************)
(* Proofs about the releases of Hosting, for every value of the constants: *)
(* only the newest deployment stays pending, the live row is the one the   *)
(* target points to, and a live release once ran on every replica.         *)
(*                                                                         *)
(* Each rests on an inductive invariant of its own, over the types, the    *)
(* references and ImageInv.  StatusMoves and RequestMoves say once what    *)
(* any step may do to the rows and to the requests that supersede.         *)
(***************************************************************************)
EXTENDS HostingImageProofs

USE DEF columns, statusVars, w3dsVars, handlerVars, cluster, clusterVars,
        outsideRequests, outsideBuild, outsideGoLive, outsideSync, outsideWallet

Inserts == \E r \in Requests : CreateDeployment(r) \/ \E d \in IDs : StartRollback(r, d)

\* The statuses that more than one handler moves rows to.
Plain == Statuses \ {"deploying", "live", "superseded"}

\* What a step may do to the statuses.
LEMMA StatusMoves ==
    ASSUME HostingAssumption, TypeOK, References, Next
    PROVE  \/ status' = status
           \/ \E d \in IDs : \E to \in Plain : Transition(d, to)
           \/ \E d \in IDs : ApplyImage(d) \/ MarkLive(d) \/ RetirePrevious(d)
           \/ \E c \in Callers : MarkDeploying(c)
           \/ Inserts
<1>. DEFINE Moves == \/ status' = status
                     \/ \E d \in IDs : \E to \in Plain : Transition(d, to)
<1>1. {"building", "awaiting_signature", "awaiting_certification", "build_failed",
       "deploy_failed", "rolled_back", "cancelled"} \subseteq Plain
  BY DEF Plain, Statuses, PendingStatuses
<1>2. ASSUME NEW r \in Requests, DispatchFails(r)
      PROVE  Moves
  <2>1. request[r].dep \in IDs
    BY <1>2, WorkedOn DEF DispatchFails, Working
  <2>. QED  BY <1>1, <1>2, <2>1 DEF DispatchFails
<1>3. ASSUME NEW d \in IDs,
             \/ CancelByUser(d) \/ SyncUnsigned(d) \/ StartBuilding(d) \/ ApplyFailure(d)
             \/ SyncBuild(d) \/ EndRollout(d)
             \/ \E r \in Requests : SupersedeOne(r, d)
      PROVE  Moves
  BY <1>1, <1>3 DEF CancelByUser, SyncUnsigned, StartBuilding, ApplyFailure, SyncBuild,
     EndRollout, SupersedeOne,
     CancelDeployment
<1>4. ASSUME NEW c \in Callers, ParkForSignature(c) \/ PublishRefused(c) \/ SendFails(c)
      PROVE  Moves
  <2>1. golive[c].dep \in IDs
    BY <1>4, WorkedOn DEF ParkForSignature, PublishRefused, SendFails, GoLiveAt
  <2>. QED  BY <1>1, <1>4, <2>1 DEF ParkForSignature, PublishRefused, SendFails
<1>5. ASSUME NEW r \in Requests,
             \/ PrepareSigning(r) \/ PrepareFails(r) \/ SupersedeDone(r) \/ DispatchRun(r)
             \/ SaveRunID(r) \/ \E v \in Versions : StartDeploy(r, v)
      PROVE  status' = status
  BY <1>5 DEF PrepareSigning, PrepareFails, SupersedeDone, DispatchRun, SaveRunID, StartDeploy
<1>6. ASSUME NEW d \in IDs,
             \/ GrowLate(d) \/ (\E outcome \in RunEnds : EndRun(d, outcome))
             \/ \E result \in Results : ConsumeNonce(d, result)
      PROVE  status' = status
  BY <1>6 DEF GrowLate, EndRun, ConsumeNonce
<1>7. ASSUME NEW c \in Callers,
             LoadTarget(c) \/ PublishAccepted(c) \/ RecordVersion(c) \/ SendImage(c) \/ DeployApp(c)
      PROVE  status' = status
  BY <1>7 DEF LoadTarget, PublishAccepted, RecordVersion, SendImage, DeployApp
<1>8. ASSUME NEW d \in IDs, SyncBuilt(d) \/ SyncSigned(d) \/ ReadRollout(d) \/ PointTarget(d)
      PROVE  status' = status
  BY <1>8 DEF SyncBuilt, SyncSigned, SyncCallsGoLive, ReadRollout, PointTarget
<1>9. ASSUME ListInFlight \/ WalletStep \/ (\E n \in Records : ClaimSignature(n)) \/ ClusterStep \/ Crash
      PROVE  status' = status
  BY <1>9 DEF ListInFlight, WalletStep, ClaimSignature, RefuseSignature, RecordSignature,
     ListWaiting, ResumeWaiting, WalletReturns, ClusterStep, Crash
<1>. QED
  BY <1>2, <1>3, <1>4, <1>5, <1>6, <1>7, <1>8, <1>9
  DEF Inserts, Next, EnvironmentStep, RequestStep, CallbackStep, GoLiveStep, SyncStep

\* What a step may do to a request that supersedes, and to the number of crashes.
LEMMA RequestMoves ==
    ASSUME TypeOK, Next
    PROVE  \/ Inserts \/ (\E r \in Requests : SupersedeDone(r)) \/ Crash
           \/ /\ crashes' = crashes
              /\ \A q \in Requests : request[q].pc = "supersede" => request'[q] = request[q]
<1>. DEFINE Stay == /\ crashes' = crashes
                    /\ \A q \in Requests : request[q].pc = "supersede" => request'[q] = request[q]
<1>1. ASSUME NEW r \in Requests,
             \/ PrepareSigning(r) \/ PrepareFails(r) \/ DispatchRun(r) \/ DispatchFails(r)
             \/ SaveRunID(r)
             \/ \E v \in Versions : StartDeploy(r, v)
      PROVE  Stay
  <2>1. crashes' = crashes /\ request[r].pc # "supersede"
    BY <1>1 DEF PrepareSigning, PrepareFails, DispatchRun, DispatchFails, SaveRunID, StartDeploy
  <2>2. \E to : request' = [request EXCEPT ![r] = to]
    BY <1>1 DEF PrepareSigning, PrepareFails, DispatchRun, DispatchFails, SaveRunID, StartDeploy
  <2>. QED  BY <2>1, <2>2 DEF TypeOK
<1>. DEFINE Kept == UNCHANGED <<request, crashes>>
<1>2. Kept => Stay
  OBVIOUS
<1>. HIDE DEF Stay, Kept
<1>3. ASSUME NEW d \in IDs,
             \/ GrowLate(d) \/ CancelByUser(d) \/ StartBuilding(d) \/ ApplyFailure(d) \/ ApplyImage(d)
             \/ (\E outcome \in RunEnds : EndRun(d, outcome))
             \/ (\E result \in Results : ConsumeNonce(d, result))
             \/ \E r \in Requests : SupersedeOne(r, d)
      PROVE  Kept
  BY <1>3 DEF Kept, GrowLate, CancelByUser, StartBuilding, ApplyFailure, ApplyImage, EndRun,
     ConsumeNonce, SupersedeOne
<1>4. ASSUME NEW c \in Callers,
             \/ LoadTarget(c) \/ ParkForSignature(c) \/ PublishAccepted(c) \/ PublishRefused(c)
             \/ RecordVersion(c) \/ SendImage(c) \/ DeployApp(c) \/ SendFails(c) \/ MarkDeploying(c)
      PROVE  Kept
  BY <1>4 DEF Kept, LoadTarget, ParkForSignature, PublishAccepted, PublishRefused, RecordVersion,
     SendImage, DeployApp, SendFails, MarkDeploying
<1>5. ASSUME SyncStep
      PROVE  Kept
  BY <1>5 DEF Kept, SyncStep, ListInFlight, SyncBuild, SyncBuilt, SyncSigned, SyncUnsigned,
     SyncCallsGoLive, ReadRollout, EndRollout, MarkLive, RetirePrevious, PointTarget
<1>6. ASSUME WalletStep \/ (\E n \in Records : ClaimSignature(n)) \/ ClusterStep
      PROVE  Kept
  BY <1>6 DEF Kept, WalletStep, ClaimSignature, RefuseSignature, RecordSignature, ListWaiting,
     ResumeWaiting, WalletReturns, ClusterStep
<1>. QED
  BY <1>1, <1>2, <1>3, <1>4, <1>5, <1>6
  DEF Stay, Inserts, Next, EnvironmentStep, RequestStep, CallbackStep, GoLiveStep

-----------------------------------------------------------------------------
\* Only an insertion makes a row pending.
LEMMA PendingIsOld ==
    ASSUME HostingAssumption, TypeOK, References, ImageInv, Next, ~Inserts, NEW e \in IDs, Pending(e)'
    PROVE  Pending(e)
<1>1. \A from \in Statuses, to \in PendingStatuses :
          CanTransition(from, to) => from \in PendingStatuses
  BY DEF CanTransition, Transitions, Statuses, PendingStatuses
<1>2. ASSUME NEW d \in IDs, NEW to \in Statuses, Transition(d, to)
      PROVE  Pending(e)
  <2>1. CASE status' = status
    BY <2>1 DEF Pending
  <2>2. CASE CanTransition(status[d], to) /\ status' = [status EXCEPT ![d] = to]
    BY <1>1, <2>2 DEF Pending, CanTransition, TypeOK
  <2>. QED  BY <1>2, <2>1, <2>2 DEF Transition
<1>3. ASSUME NEW d \in IDs, ApplyImage(d)
      PROVE  Pending(e)
  <2>1. status' = status \/ (status[d] \in PendingStatuses /\ status' = [status EXCEPT ![d] = "built"])
    BY <1>3, ImageIsFirst DEF ApplyImage, PendingStatuses
  <2>. QED  BY <2>1 DEF Pending, TypeOK
<1>4. ASSUME NEW d \in IDs, MarkLive(d) \/ RetirePrevious(d)
      PROVE  Pending(e)
  <2>1. status' = status \/ \E f \in IDs : \E to \in Statuses : Transition(f, to)
    BY <1>4 DEF MarkLive, RetirePrevious, TypeOK, SyncType, Statuses
  <2>. QED  BY <1>2, <2>1 DEF Pending
<1>6. ASSUME NEW c \in Callers, MarkDeploying(c)
      PROVE  Pending(e)
  <2>1. golive[c].dep \in IDs
    BY <1>6, WorkedOn DEF MarkDeploying, GoLiveAt
  <2>. QED  BY <1>2, <1>6, <2>1 DEF MarkDeploying, Statuses
<1>5. CASE status' = status
  BY <1>5 DEF Pending
<1>. QED  BY <1>2, <1>3, <1>4, <1>5, <1>6, StatusMoves DEF Plain

\* Every step keeps it that two deployments are pending only while the request of
\* the newer one is still cancelling.
LEMMA NewestStep ==
    ASSUME HostingAssumption, TypeOK, References, ImageInv, NewestPendingOnly, Next
    PROVE  NewestPendingOnly'
<1>1. SUFFICES ASSUME crashes' = 0, NEW d \in IDs, NEW e \in IDs, d < e, Pending(d)', Pending(e)'
               PROVE  \E r \in Requests : request'[r].pc = "supersede" /\ request'[r].dep = e
  BY DEF NewestPendingOnly
<1>2. ASSUME NEW r \in Requests, NEW v, NEW digest, NEW previous,
             InsertDeployment(r, v, digest, previous), request[r].pc # "supersede"
      PROVE  \E q \in Requests : request'[q].pc = "supersede" /\ request'[q].dep = e
  <2>. DEFINE n == lastID + 1
  <2>1. /\ n \in IDs /\ lastID \in Nat /\ \A f \in IDs : f \in Nat
        /\ status' = [status EXCEPT ![n] = "queued"]
        /\ request' = [request EXCEPT ![r] = [pc |-> "supersede", version |-> v, dep |-> n]]
        /\ crashes = 0
    BY <1>1, <1>2, WorkedOn, Numbers DEF InsertDeployment
  <2>2. \A f \in IDs : status[f] # "none" <=> f <= lastID
    BY DEF References
  <2>. HIDE DEF n
  <2>3. CASE e = n
    BY <2>1, <2>3 DEF TypeOK
  <2>4. CASE e # n
    <3>1. status'[e] = status[e] /\ status[e] # "none"
      BY <1>1, <2>1, <2>4 DEF TypeOK, Pending, PendingStatuses
    <3>2. d # n /\ status'[d] = status[d]
      BY <1>1, <2>1, <2>2, <3>1 DEF TypeOK, n
    <3>3. PICK q \in Requests : request[q].pc = "supersede" /\ request[q].dep = e
      BY <1>1, <2>1, <3>1, <3>2 DEF NewestPendingOnly, Pending
    <3>4. q # r
      BY <1>2, <3>3
    <3>. QED  BY <2>1, <3>3, <3>4 DEF TypeOK
  <2>. QED  BY <2>3, <2>4
<1>3. CASE Inserts
  BY <1>2, <1>3 DEF Inserts, CreateDeployment, StartRollback
<1>4. CASE ~Inserts
  <2>1. Pending(d) /\ Pending(e)
    BY <1>1, <1>4, PendingIsOld
  <2>2. CASE \E r \in Requests : SupersedeDone(r)
    <3>1. PICK r \in Requests : SupersedeDone(r)
      BY <2>2
    <3>2. crashes = 0
      BY <1>1, <3>1 DEF SupersedeDone
    <3>3. PICK q \in Requests : request[q].pc = "supersede" /\ request[q].dep = e
      BY <1>1, <2>1, <3>2 DEF NewestPendingOnly
    <3>4. q # r
      BY <1>1, <2>1, <3>1, <3>3 DEF SupersedeDone, OlderPending
    <3>5. \E to : request' = [request EXCEPT ![r] = to]
      BY <3>1 DEF SupersedeDone
    <3>. QED  BY <3>3, <3>4, <3>5 DEF TypeOK
  <2>3. CASE Crash
    BY <1>1, <2>3 DEF Crash, TypeOK, HostingAssumption
  <2>4. CASE /\ crashes' = crashes
             /\ \A q \in Requests : request[q].pc = "supersede" => request'[q] = request[q]
    <3>1. PICK q \in Requests : request[q].pc = "supersede" /\ request[q].dep = e
      BY <1>1, <2>1, <2>4 DEF NewestPendingOnly
    <3>. QED  BY <2>4, <3>1
  <2>. QED  BY <1>4, <2>2, <2>3, <2>4, RequestMoves
<1>. QED  BY <1>3, <1>4

\* A deploy or a rollback leaves only itself pending (supersedePending), however many
\* requests are in progress: two rows are pending only while the request of the newer
\* one is still cancelling, or after a crash.
THEOREM NewestPendingHolds == Spec => []NewestPendingOnly
<1>1. ASSUME Init
      PROVE  NewestPendingOnly
  BY <1>1 DEF Init, NewestPendingOnly, Pending, PendingStatuses
<1>2. HostingAssumption /\ TypeOK /\ References /\ ImageInv /\ NewestPendingOnly /\ [Next]_vars
        => NewestPendingOnly'
  <2>1. ASSUME NewestPendingOnly, UNCHANGED vars
        PROVE  NewestPendingOnly'
    BY <2>1 DEF vars, NewestPendingOnly, Pending
  <2>. QED  BY <2>1, NewestStep
<1>. QED
  BY <1>1, <1>2, HostingAssumption, TypeCorrect, ReferencesHold, ImageInvariant, PTL DEF Spec

-----------------------------------------------------------------------------
\* Only markLive changes which rows are live.
LEMMA LiveMoves ==
    ASSUME HostingAssumption, TypeOK, References, ImageInv, Next
    PROVE  Live' = Live \/ \E d \in IDs : MarkLive(d) \/ RetirePrevious(d)
<1>1. ASSUME NEW d \in IDs, NEW to \in Statuses \ {"live", "superseded"}, Transition(d, to)
      PROVE  Live' = Live
  <2>1. CanTransition("live", to) => to = "superseded"
    BY DEF CanTransition, Transitions, Statuses, PendingStatuses
  <2>. QED  BY <1>1, <2>1 DEF Transition, TypeOK, Live
<1>2. ASSUME NEW c \in Callers, MarkDeploying(c)
      PROVE  Live' = Live
  <2>1. golive[c].dep \in IDs
    BY <1>2, WorkedOn DEF MarkDeploying, GoLiveAt
  <2>. QED  BY <1>1, <1>2, <2>1 DEF MarkDeploying, Statuses
<1>3. ASSUME NEW d \in IDs, ApplyImage(d)
      PROVE  Live' = Live
  <2>1. status' = status \/ (status[d] # "live" /\ status' = [status EXCEPT ![d] = "built"])
    BY <1>3, ImageIsFirst DEF ApplyImage
  <2>. QED  BY <2>1 DEF TypeOK, Live
<1>4. CASE Inserts
  <2>1. \E n \in IDs : status[n] = "none" /\ status' = [status EXCEPT ![n] = "queued"]
    <3>1. PICK r \in Requests : CreateDeployment(r) \/ \E d \in IDs : StartRollback(r, d)
      BY <1>4 DEF Inserts
    <3>2. /\ lastID + 1 \in IDs
          /\ status' = [status EXCEPT ![lastID + 1] = "queued"]
      BY <3>1 DEF CreateDeployment, StartRollback, InsertDeployment
    <3>3. status[lastID + 1] = "none"
      BY <3>2, WorkedOn DEF References
    <3>. QED  BY <3>2, <3>3
  <2>. QED  BY <2>1 DEF TypeOK, Live
<1>5. CASE status' = status
  BY <1>5 DEF Live
<1>. QED  BY <1>1, <1>2, <1>3, <1>4, <1>5, StatusMoves DEF Plain

\* Only the cron and a crash change what the cron remembers, and only the cron moves
\* the target's pointer.
LEMMA SyncMoves ==
    ASSUME TypeOK, Next
    PROVE  \/ SyncStep \/ Crash
           \/ UNCHANGED <<sync, crashes>> /\ target'.live = target.live
<1>1. ASSUME NEW r \in Requests, PrepareSigning(r)
      PROVE  UNCHANGED <<sync, crashes>> /\ target'.live = target.live
  BY <1>1 DEF PrepareSigning, TypeOK, TargetType
<1>2. ASSUME NEW c \in Callers, RecordVersion(c)
      PROVE  UNCHANGED <<sync, crashes>> /\ target'.live = target.live
  BY <1>2 DEF RecordVersion, TypeOK, TargetType
<1>. DEFINE Kept == UNCHANGED <<sync, crashes, target>>
<1>3. Kept => UNCHANGED <<sync, crashes>> /\ target'.live = target.live
  OBVIOUS
<1>. HIDE DEF Kept
<1>4. ASSUME NEW r \in Requests,
             \/ PrepareFails(r) \/ CreateDeployment(r) \/ SupersedeDone(r) \/ DispatchRun(r)
             \/ DispatchFails(r) \/ SaveRunID(r) \/ (\E v \in Versions : StartDeploy(r, v))
             \/ \E d \in IDs : SupersedeOne(r, d) \/ StartRollback(r, d)
      PROVE  Kept
  BY <1>4 DEF Kept, PrepareFails, CreateDeployment, InsertDeployment, SupersedeDone, DispatchRun,
     DispatchFails, SaveRunID, StartDeploy, SupersedeOne, StartRollback
<1>5. ASSUME NEW d \in IDs,
             \/ GrowLate(d) \/ CancelByUser(d) \/ StartBuilding(d) \/ ApplyFailure(d) \/ ApplyImage(d)
             \/ (\E outcome \in RunEnds : EndRun(d, outcome))
             \/ \E result \in Results : ConsumeNonce(d, result)
      PROVE  Kept
  BY <1>5 DEF Kept, GrowLate, CancelByUser, StartBuilding, ApplyFailure, ApplyImage, EndRun,
     ConsumeNonce
<1>6. ASSUME NEW c \in Callers,
             \/ LoadTarget(c) \/ ParkForSignature(c) \/ PublishAccepted(c) \/ PublishRefused(c)
             \/ SendImage(c) \/ DeployApp(c) \/ SendFails(c) \/ MarkDeploying(c)
      PROVE  Kept
  BY <1>6 DEF Kept, LoadTarget, ParkForSignature, PublishAccepted, PublishRefused, SendImage,
     DeployApp, SendFails,
     MarkDeploying
<1>7. ASSUME WalletStep \/ (\E n \in Records : ClaimSignature(n)) \/ ClusterStep
      PROVE  Kept
  BY <1>7 DEF Kept, WalletStep, ClaimSignature, RefuseSignature, RecordSignature, ListWaiting,
     ResumeWaiting, WalletReturns, ClusterStep
<1>. QED
  BY <1>1, <1>2, <1>3, <1>4, <1>5, <1>6, <1>7
  DEF Next, EnvironmentStep, RequestStep, CallbackStep, GoLiveStep

\* The steps of the cron outside markLive's writes keep the pointer, and read it anew.
LEMMA SyncElsewhere ==
    ASSUME HostingAssumption, TypeOK, PointerInv, crashes = 0, SyncStep,
           ~\E d \in IDs : MarkLive(d) \/ RetirePrevious(d) \/ PointTarget(d)
    PROVE  /\ target' = target /\ crashes' = crashes
           /\ sync.pc \in {"scan", "verdict"}
           /\ sync'.pc = "scan" \/ (sync'.pc = "verdict" /\ sync'.live = target.live)
<1>1. sync.pc \in {"retire", "point"} => \E e \in IDs : FirstListed(e)
  BY DEF PointerInv
<1>2. sync.pc \in {"scan", "verdict", "retire", "point"}
  BY DEF TypeOK, SyncType
<1>3. CASE ListInFlight
  <2>1. sync.pc \in {"scan", "verdict"}
    BY <1>1, <1>2, <1>3 DEF ListInFlight, FirstListed, Listed
  <2>2. sync'.pc = IdleSync.pc /\ IdleSync.pc = "scan"
    BY <1>3 DEF ListInFlight, IdleSync
  <2>. QED  BY <1>3, <2>1, <2>2 DEF ListInFlight
<1>4. ASSUME NEW d \in IDs, SyncBuild(d) \/ SyncBuilt(d) \/ SyncSigned(d) \/ SyncUnsigned(d)
      PROVE  /\ target' = target /\ crashes' = crashes
             /\ sync.pc \in {"scan", "verdict"} /\ sync'.pc = "scan"
  <2>1. /\ Handled(d) /\ target' = target /\ crashes' = crashes
        /\ sync.todo[d] # "deploying" /\ \E S : Handling(d, S) /\ "none" \notin S
    BY <1>4 DEF SyncBuild, SyncBuilt, SyncSigned, SyncUnsigned, SyncCallsGoLive, Handling
  <2>2. ~\E e \in IDs : FirstListed(e)
    BY <2>1, HandledFirst DEF FirstListed
  <2>. QED  BY <1>1, <1>2, <2>1, <2>2, HandledTodo
<1>5. ASSUME NEW d \in IDs, EndRollout(d)
      PROVE  /\ target' = target /\ crashes' = crashes
             /\ sync.pc \in {"scan", "verdict"} /\ sync'.pc = "scan"
  BY <1>5, HandledTodo DEF EndRollout
<1>6. ASSUME NEW d \in IDs, ReadRollout(d)
      PROVE  /\ target' = target /\ crashes' = crashes
             /\ sync.pc \in {"scan", "verdict"} /\ sync'.pc = "verdict" /\ sync'.live = target.live
  BY <1>6 DEF ReadRollout, TypeOK, SyncType
<1>. QED  BY <1>3, <1>4, <1>5, <1>6 DEF SyncStep

\* Every step keeps the live row and the target's pointer in agreement.
LEMMA PointerStep ==
    ASSUME HostingAssumption, TypeOK, References, ImageInv, PointerInv, Next
    PROVE  PointerInv'
<1>1. SUFFICES ASSUME crashes' = 0
               PROVE  PointerInv'
  BY DEF PointerInv
<1>2. CASE Crash
  BY <1>1, <1>2 DEF Crash, TypeOK, HostingAssumption
<1>3. ASSUME NEW d \in IDs, MarkLive(d)
      PROVE  PointerInv'
  <2>1. /\ crashes = 0 /\ target' = target /\ sync.pc = "verdict"
        /\ sync.live = target.live /\ Live = {target.live} \ {0}
        /\ FirstListed(d)
    BY <1>1, <1>3 DEF MarkLive, Handling, FirstListed, PointerInv
  <2>2. CASE CanTransition(status[d], "live")
    <3>1. status[d] # "live" /\ status' = [status EXCEPT ![d] = "live"]
      BY <1>3, <2>2 DEF MarkLive, Transition, CanTransition, Transitions, Statuses, PendingStatuses
    <3>2. d \notin Live /\ Live' = Live \cup {d}
      BY <3>1 DEF Live, TypeOK
    <3>3. d # 0
      BY Numbers
    <3>4. sync'.pc = "retire" /\ sync'.todo = sync.todo /\ sync'.live = sync.live
      BY <1>3, <2>2 DEF MarkLive, TypeOK, SyncType
    <3>. QED  BY <2>1, <3>2, <3>3, <3>4 DEF PointerInv, FirstListed, Listed
  <2>3. CASE ~CanTransition(status[d], "live")
    <3>1. status' = status /\ sync'.pc = "scan"
      BY <1>3, <2>3, HandledTodo DEF MarkLive, Transition
    <3>. QED  BY <2>1, <3>1 DEF PointerInv, Live
  <2>. QED  BY <2>2, <2>3
<1>4. ASSUME NEW d \in IDs, RetirePrevious(d)
      PROVE  PointerInv'
  <2>1. /\ crashes = 0 /\ target' = target /\ sync.pc = "retire" /\ sync.live = target.live
    BY <1>1, <1>4 DEF RetirePrevious, PointerInv
  <2>2. FirstListed(d) /\ d # target.live /\ Live = {target.live, d} \ {0} /\ d # 0
    <3>1. PICK e \in IDs : FirstListed(e) /\ e # target.live /\ Live = {target.live, e} \ {0}
      BY <2>1 DEF PointerInv
    <3>2. e = d
      BY <1>4, <3>1, HandledFirst DEF RetirePrevious
    <3>. QED  BY <3>1, <3>2, Numbers
  <2>3. Live' = {d}
    <3>1. CASE target.live = 0
      BY <1>4, <2>1, <2>2, <3>1 DEF RetirePrevious, Live
    <3>2. CASE target.live # 0
      <4>1. target.live \in IDs /\ status[target.live] = "live"
        BY <2>2, <3>2 DEF Live
      <4>2. CanTransition("live", "superseded")
        BY DEF CanTransition, Transitions, Statuses, PendingStatuses
      <4>3. status' = [status EXCEPT ![target.live] = "superseded"]
        BY <1>4, <2>1, <2>2, <3>2, <4>1, <4>2 DEF RetirePrevious, Transition
      <4>4. Live' = Live \ {target.live}
        BY <4>1, <4>3 DEF Live, TypeOK
      <4>. QED  BY <2>2, <4>4
    <3>. QED  BY <3>1, <3>2
  <2>4. sync'.pc = "point" /\ sync'.todo = sync.todo /\ sync'.live = sync.live
    BY <1>4 DEF RetirePrevious, TypeOK, SyncType
  <2>. QED  BY <2>1, <2>2, <2>3, <2>4 DEF PointerInv, FirstListed, Listed
<1>5. ASSUME NEW d \in IDs, PointTarget(d)
      PROVE  PointerInv'
  <2>1. Live = {d} /\ d # 0
    <3>1. PICK e \in IDs : FirstListed(e) /\ Live = {e}
      BY <1>1, <1>5 DEF PointTarget, PointerInv
    <3>2. e = d
      BY <1>5, <3>1, HandledFirst DEF PointTarget
    <3>. QED  BY <3>1, <3>2, Numbers
  <2>2. status' = status /\ target'.live = d /\ sync'.pc = "scan"
    BY <1>5, HandledTodo DEF PointTarget, TypeOK, TargetType
  <2>. QED  BY <2>1, <2>2 DEF PointerInv, Live
<1>6. CASE SyncStep /\ ~\E d \in IDs : MarkLive(d) \/ RetirePrevious(d) \/ PointTarget(d)
  <2>1. Live' = Live
    BY <1>6, LiveMoves
  <2>2. crashes' = crashes
    BY <1>6 DEF SyncStep, ListInFlight, SyncBuild, SyncBuilt, SyncSigned, SyncUnsigned,
       SyncCallsGoLive, ReadRollout, EndRollout, MarkLive, RetirePrevious, PointTarget
  <2>. QED  BY <1>1, <1>6, <2>1, <2>2, SyncElsewhere DEF PointerInv
<1>7. CASE /\ UNCHANGED <<sync, crashes>> /\ target'.live = target.live
           /\ ~\E d \in IDs : MarkLive(d) \/ RetirePrevious(d)
  <2>1. Live' = Live
    BY <1>7, LiveMoves
  <2>. QED  BY <1>1, <1>7, <2>1 DEF PointerInv, FirstListed, Listed
<1>. QED  BY <1>2, <1>3, <1>4, <1>5, <1>6, <1>7, SyncMoves

\* Without a crash the rows marked live are exactly the one the target points to, but
\* for markLive's three writes: no handler that runs in between disturbs them, and the
\* pointer read before them is still the target's.
THEOREM LivePointerHolds == Spec => []LivePointerExact
<1>1. ASSUME Init
      PROVE  PointerInv
  BY <1>1 DEF Init, PointerInv, Live, IdleSync
<1>2. HostingAssumption /\ TypeOK /\ References /\ ImageInv /\ PointerInv /\ [Next]_vars => PointerInv'
  <2>1. ASSUME PointerInv, UNCHANGED vars
        PROVE  PointerInv'
    BY <2>1 DEF vars, PointerInv, Live, FirstListed, Listed
  <2>. QED  BY <2>1, PointerStep
<1>3. TypeOK /\ PointerInv => LivePointerExact
  BY DEF TypeOK, SyncType, PointerInv, LivePointerExact
<1>. QED
  BY <1>1, <1>2, <1>3, HostingAssumption, TypeCorrect, ReferencesHold, ImageInvariant, PTL DEF Spec

-----------------------------------------------------------------------------
\* An existing row that has an image keeps it: a step of the lifecycle gives images
\* only to new rows and to rows without one.
LEMMA ImageStays ==
    ASSUME TypeOK, LifecycleStep, NEW d \in IDs, status[d] # "none", image[d] # NoImage
    PROVE  image'[d] = image[d]
<1>1. Phase(status[d]) # "none"
  BY DEF TypeOK, RowStatuses, Phase, Statuses, PendingStatuses
<1>2. ASSUME NEW e \in IDs, NEW i \in Digests, Lifecycle!Create(e, i) \/ Lifecycle!Build(e, i)
      PROVE  image'[d] = image[d]
  <2>1. e # d
    BY <1>1, <1>2 DEF Lifecycle!Create, Lifecycle!Build, Lifecycle!Move
  <2>2. image' = [image EXCEPT ![e] = i]
    BY <1>2 DEF Lifecycle!Create, Lifecycle!Build
  <2>. QED  BY <2>1, <2>2 DEF TypeOK
<1>3. ASSUME NEW e \in IDs,
             Lifecycle!Ship(e) \/ Lifecycle!GoLive(e) \/ Lifecycle!Retire(e) \/ Lifecycle!Close(e)
      PROVE  image'[d] = image[d]
  BY <1>3 DEF Lifecycle!Ship, Lifecycle!GoLive, Lifecycle!Retire, Lifecycle!Close
<1>. QED  BY <1>2, <1>3 DEF LifecycleStep, Lifecycle!Next, Lifecycle!vars

\* What has been shipped or proven stays so, and only the cluster moves its service.
LEMMA HistoryGrows ==
    ASSUME Next
    PROVE  /\ shipped \subseteq shipped' /\ proven \subseteq proven'
           /\ ClusterStep \/ UNCHANGED <<svc, proven>>
<1>1. ASSUME NEW c \in Callers, SendImage(c) \/ DeployApp(c) \/ SendFails(c)
      PROVE  shipped \subseteq shipped' /\ UNCHANGED <<svc, proven>>
  BY <1>1 DEF SendImage, DeployApp, SendFails, SaveDockerProvider, QueueJob
<1>2. ASSUME ClusterStep
      PROVE  shipped \subseteq shipped' /\ proven \subseteq proven'
  BY <1>2 DEF ClusterStep, JobUpdatesService, JobFails, ReplicasReady, RollbackStarts, RollbackCompletes
<1>. DEFINE Kept == UNCHANGED <<shipped, svc, proven>>
<1>3. Kept => shipped \subseteq shipped' /\ proven \subseteq proven' /\ UNCHANGED <<svc, proven>>
  OBVIOUS
<1>. HIDE DEF Kept
<1>4. ASSUME NEW r \in Requests,
             \/ PrepareSigning(r) \/ PrepareFails(r) \/ CreateDeployment(r) \/ SupersedeDone(r)
             \/ DispatchRun(r) \/ DispatchFails(r) \/ SaveRunID(r)
             \/ (\E v \in Versions : StartDeploy(r, v))
             \/ \E d \in IDs : SupersedeOne(r, d) \/ StartRollback(r, d)
      PROVE  Kept
  BY <1>4 DEF Kept, PrepareSigning, PrepareFails, CreateDeployment, InsertDeployment, SupersedeDone,
     DispatchRun, DispatchFails, SaveRunID, StartDeploy, SupersedeOne, StartRollback
<1>5. ASSUME NEW d \in IDs,
             \/ GrowLate(d) \/ CancelByUser(d) \/ StartBuilding(d) \/ ApplyFailure(d) \/ ApplyImage(d)
             \/ (\E outcome \in RunEnds : EndRun(d, outcome))
             \/ \E result \in Results : ConsumeNonce(d, result)
      PROVE  Kept
  BY <1>5 DEF Kept, GrowLate, CancelByUser, StartBuilding, ApplyFailure, ApplyImage, EndRun,
     ConsumeNonce
<1>6. ASSUME NEW c \in Callers,
             \/ LoadTarget(c) \/ ParkForSignature(c) \/ PublishAccepted(c) \/ PublishRefused(c)
             \/ RecordVersion(c) \/ MarkDeploying(c)
      PROVE  Kept
  BY <1>6 DEF Kept, LoadTarget, ParkForSignature, PublishAccepted, PublishRefused, RecordVersion,
     MarkDeploying
<1>7. ASSUME SyncStep
      PROVE  Kept
  BY <1>7 DEF Kept, SyncStep, ListInFlight, SyncBuild, SyncBuilt, SyncSigned, SyncUnsigned,
     SyncCallsGoLive, ReadRollout, EndRollout, MarkLive, RetirePrevious, PointTarget
<1>8. ASSUME WalletStep \/ (\E n \in Records : ClaimSignature(n)) \/ Crash
      PROVE  Kept
  BY <1>8 DEF Kept, WalletStep, ClaimSignature, RefuseSignature, RecordSignature, ListWaiting,
     ResumeWaiting, WalletReturns, Crash
<1>. QED
  BY <1>1, <1>2, <1>3, <1>4, <1>5, <1>6, <1>7, <1>8
  DEF Next, EnvironmentStep, RequestStep, CallbackStep, GoLiveStep

\* A goLive comes to its last write only by deploying the app.
LEMMA MarkComesFromDeploy ==
    ASSUME TypeOK, Next, NEW c \in Callers, golive'[c].pc = "mark"
    PROVE  golive'[c] = golive[c] \/ DeployApp(c)
<1>1. ASSUME NEW g \in Callers, NEW to, to.pc # "mark", golive' = [golive EXCEPT ![g] = to]
      PROVE  golive'[c] = golive[c]
  BY <1>1 DEF TypeOK
<1>2. ASSUME NEW d, NEW g \in Callers, golive' = [golive EXCEPT ![g] = GoLiveOf(d)]
      PROVE  golive'[c] = golive[c]
  BY <1>1, <1>2 DEF GoLiveOf
<1>3. ASSUME NEW g \in Callers, GoLiveEnds(g) \/ \E pc \in {"park", "publish", "record", "send", "deploy"} : GoLiveTo(g, pc)
      PROVE  golive'[c] = golive[c]
  BY <1>3 DEF GoLiveEnds, GoLiveTo, IdleGoLive, TypeOK, GoLiveType
<1>4. ASSUME NEW g \in Callers,
             \/ LoadTarget(g) \/ ParkForSignature(g) \/ PublishAccepted(g) \/ PublishRefused(g)
             \/ RecordVersion(g) \/ SendFails(g) \/ MarkDeploying(g)
      PROVE  golive'[c] = golive[c]
  BY <1>3, <1>4 DEF LoadTarget, AfterLoad, ParkForSignature, PublishAccepted, PublishRefused,
     RecordVersion,
     SendFails, MarkDeploying
<1>5. ASSUME NEW g \in Callers, SendImage(g) \/ DeployApp(g)
      PROVE  golive'[c] = golive[c] \/ DeployApp(c)
  BY <1>3, <1>5 DEF SendImage, DeployApp, GoLiveTo, TypeOK
<1>6. \A d \in IDs : d \in Callers
  BY HostingAssumption DEF IDs, Callers, WalletCaller, HostingAssumption
<1>7. SyncCaller \in Callers /\ WalletCaller \in Callers
  BY HostingAssumption DEF SyncCaller, Callers, WalletCaller, HostingAssumption
<1>8. ASSUME NEW r \in Requests, SupersedeDone(r)
      PROVE  golive'[c] = golive[c]
  BY <1>2, <1>6, <1>7, <1>8 DEF SupersedeDone, SyncCaller, TypeOK, RequestType
<1>9. ASSUME NEW d \in IDs, ApplyImage(d) \/ SyncBuilt(d) \/ SyncSigned(d) \/ ResumeWaiting(d)
      PROVE  golive'[c] = golive[c]
  BY <1>2, <1>6, <1>7, <1>9 DEF ApplyImage, SyncBuilt, SyncSigned, SyncCallsGoLive, ResumeWaiting
<1>10. ASSUME Crash
       PROVE  golive'[c] = golive[c]
  BY <1>10 DEF Crash, IdleGoLive
<1>. DEFINE Kept == golive' = golive
<1>11. ASSUME NEW r \in Requests,
              \/ PrepareSigning(r) \/ PrepareFails(r) \/ CreateDeployment(r) \/ DispatchRun(r)
              \/ DispatchFails(r) \/ SaveRunID(r) \/ (\E v \in Versions : StartDeploy(r, v))
              \/ \E d \in IDs : SupersedeOne(r, d) \/ StartRollback(r, d)
       PROVE  Kept
  BY <1>11 DEF Kept, PrepareSigning, PrepareFails, CreateDeployment, InsertDeployment,
     DispatchRun, DispatchFails, SaveRunID, StartDeploy, SupersedeOne, StartRollback
<1>12. ASSUME NEW d \in IDs,
              \/ GrowLate(d) \/ CancelByUser(d) \/ StartBuilding(d) \/ ApplyFailure(d)
              \/ (\E outcome \in RunEnds : EndRun(d, outcome))
              \/ (\E result \in Results : ConsumeNonce(d, result))
              \/ SyncBuild(d) \/ SyncUnsigned(d) \/ ReadRollout(d) \/ EndRollout(d)
              \/ MarkLive(d) \/ RetirePrevious(d) \/ PointTarget(d)
       PROVE  Kept
  BY <1>12 DEF Kept, GrowLate, CancelByUser, StartBuilding, ApplyFailure, EndRun, ConsumeNonce,
     SyncBuild, SyncUnsigned,
     ReadRollout, EndRollout, MarkLive, RetirePrevious, PointTarget
<1>13. ASSUME ListInFlight \/ RefuseSignature \/ RecordSignature \/ ListWaiting \/ WalletReturns
              \/ (\E n \in Records : ClaimSignature(n)) \/ ClusterStep
       PROVE  Kept
  BY <1>13 DEF Kept, ListInFlight, RefuseSignature, RecordSignature, ListWaiting, WalletReturns,
     ClaimSignature, ClusterStep
<1>. QED
  BY <1>4, <1>5, <1>8, <1>9, <1>10, <1>11, <1>12, <1>13
  DEF Kept, Next, EnvironmentStep, RequestStep, CallbackStep, GoLiveStep, SyncStep, WalletStep

\* Every step keeps what makes a live release a healthy one.
LEMMA HealthyStep ==
    ASSUME HostingAssumption, TypeOK, References, ImageInv, HealthyInv, Next
    PROVE  HealthyInv'
<1>. USE DEF HealthyInv
<1>1. /\ shipped \subseteq shipped' /\ proven \subseteq proven'
      /\ ClusterStep \/ UNCHANGED <<svc, proven>>
  BY HistoryGrows
<1>2. ASSUME NEW d \in IDs, status[d] # "none", image[d] # NoImage
      PROVE  image'[d] = image[d]
  BY <1>2, ImageStays, LifecycleMaps
<1>3. ASSUME NEW d \in IDs, status'[d] = "deploying"
      PROVE  d \in shipped'
  <2>1. ASSUME NEW e \in IDs, NEW to \in Statuses \ {"deploying"}, Transition(e, to)
        PROVE  status[d] = "deploying"
    BY <1>3, <2>1 DEF Transition, TypeOK
  <2>2. ASSUME NEW c \in Callers, MarkDeploying(c)
        PROVE  status[d] = "deploying" \/ d \in shipped
    <3>1. golive[c].dep \in IDs /\ golive[c].dep \in shipped
      BY <2>2, WorkedOn DEF MarkDeploying, GoLiveAt
    <3>. QED  BY <1>3, <2>2, <3>1 DEF MarkDeploying, Transition, TypeOK
  <2>3. ASSUME NEW e \in IDs, ApplyImage(e)
        PROVE  status[d] = "deploying"
    BY <1>3, <2>3 DEF ApplyImage, TypeOK
  <2>4. ASSUME NEW e \in IDs, MarkLive(e) \/ RetirePrevious(e)
        PROVE  status[d] = "deploying"
    <3>1. status' = status \/ \E f \in IDs : \E to \in Statuses \ {"deploying"} : Transition(f, to)
      BY <2>4 DEF MarkLive, RetirePrevious, TypeOK, SyncType, Statuses
    <3>. QED  BY <1>3, <2>1, <3>1
  <2>5. CASE Inserts
    <3>1. lastID + 1 \in IDs /\ status' = [status EXCEPT ![lastID + 1] = "queued"]
      BY <2>5 DEF Inserts, CreateDeployment, StartRollback, InsertDeployment
    <3>. QED  BY <1>1, <1>3, <3>1 DEF TypeOK
  <2>. QED  BY <1>1, <1>3, <2>1, <2>2, <2>3, <2>4, <2>5, StatusMoves DEF Plain
<1>4. ASSUME NEW c \in Callers, golive'[c].pc = "mark"
      PROVE  golive'[c].dep \in shipped'
  <2>1. CASE golive'[c] = golive[c]
    BY <1>1, <1>4, <2>1
  <2>2. CASE DeployApp(c)
    BY <2>2 DEF DeployApp, GoLiveTo, TypeOK, GoLiveType
  <2>. QED  BY <1>4, <2>1, <2>2, MarkComesFromDeploy
<1>5. svc'.ready /\ svc'.update # "rollback_completed" => svc'.image \in proven'
  <2>1. CASE JobUpdatesService
    BY <2>1 DEF JobUpdatesService
  <2>2. CASE ReplicasReady
    BY <2>2 DEF ReplicasReady, TypeOK, ClusterTypeOK, ServiceType
  <2>3. CASE JobFails
    BY <1>1, <2>3 DEF JobFails
  <2>4. CASE RollbackStarts
    BY <1>1, <2>4 DEF RollbackStarts, TypeOK, ClusterTypeOK, ServiceType
  <2>5. CASE RollbackCompletes
    BY <2>5 DEF RollbackCompletes, TypeOK, ClusterTypeOK, ServiceType
  <2>. QED  BY <1>1, <2>1, <2>2, <2>3, <2>4, <2>5 DEF ClusterStep
<1>6. ASSUME NEW d \in IDs, FirstListed(d)
      PROVE  status[d] # "none" /\ image[d] # NoImage
  BY <1>6, RememberedExists, Numbers
  DEF FirstListed, Remembered, References, ImageInv, WorkKnown, BuiltStatuses
<1>7. sync'.pc = "verdict" /\ sync'.verdict = "healthy" =>
          \E d \in IDs : FirstListed(d)' /\ image'[d] \in proven'
  <2>1. CASE sync' = sync
    BY <1>1, <1>2, <1>6, <2>1 DEF FirstListed, Listed
  <2>2. ASSUME NEW d \in IDs, ReadRollout(d), sync'.verdict = "healthy"
        PROVE  FirstListed(d)' /\ image'[d] \in proven'
    <3>1. sync'.todo = sync.todo /\ FirstListed(d)
      BY <2>2 DEF ReadRollout, Handling, FirstListed, TypeOK, SyncType
    <3>2. RolloutState(d, image[d]) = "healthy"
      BY <2>2 DEF ReadRollout, TypeOK, SyncType
    <3>3. svc.ready /\ svc.update # "rollback_completed" /\ image[d] \in {NoImage, svc.image}
      BY <3>2 DEF RolloutState, EvaluateRollout
    <3>. QED  BY <1>1, <1>2, <1>6, <3>1, <3>3 DEF FirstListed, Listed
  <2>3. CASE Crash
    BY <2>3 DEF Crash, IdleSync
  <2>4. CASE ListInFlight
    <3>1. sync'.pc = IdleSync.pc /\ IdleSync.pc = "scan"
      BY <2>4 DEF ListInFlight, IdleSync
    <3>. QED  BY <3>1
  <2>5. ASSUME NEW d \in IDs,
               \/ SyncBuild(d) \/ SyncBuilt(d) \/ SyncSigned(d) \/ SyncUnsigned(d) \/ EndRollout(d)
               \/ PointTarget(d)
        PROVE  sync'.pc = "scan"
    BY <2>5, HandledTodo DEF SyncBuild, SyncBuilt, SyncSigned, SyncUnsigned, SyncCallsGoLive,
       EndRollout,
       PointTarget
  <2>6. ASSUME NEW d \in IDs, MarkLive(d) \/ RetirePrevious(d)
        PROVE  sync'.pc # "verdict"
    BY <2>6, HandledTodo DEF MarkLive, RetirePrevious, TypeOK, SyncType
  <2>. QED
    BY <2>1, <2>2, <2>3, <2>4, <2>5, <2>6, SyncMoves DEF SyncStep
<1>8. ASSUME NEW d \in IDs, status'[d] = "live"
      PROVE  d \in shipped' /\ image'[d] \in proven'
  <2>1. CASE status[d] = "live"
    <3>1. image[d] # NoImage
      BY <2>1 DEF ImageInv, RowsKnown, BuiltOrLater
    <3>. QED  BY <1>1, <1>2, <2>1, <3>1 DEF Live
  <2>2. CASE status[d] # "live"
    <3>1. PICK e \in IDs : MarkLive(e) \/ RetirePrevious(e)
      BY <1>8, <2>2, LiveMoves DEF Live
    <3>2. MarkLive(e) /\ e = d /\ status[d] = "deploying"
      BY <1>8, <2>2, <3>1
      DEF MarkLive, RetirePrevious, Transition, CanTransition, Transitions, Statuses,
         PendingStatuses, TypeOK
    <3>3. PICK f \in IDs : FirstListed(f) /\ image[f] \in proven
      BY <3>2 DEF MarkLive
    <3>4. f = d
      BY <3>2, <3>3, HandledFirst DEF MarkLive
    <3>. QED  BY <1>1, <3>2, <3>3, <3>4 DEF MarkLive
  <2>. QED  BY <2>1, <2>2
<1>. QED  BY <1>3, <1>4, <1>5, <1>7, <1>8 DEF Live

\* A release is live only after it was handed to Dokploy and its own image ran on every
\* replica, though the verdict is acted on later and Swarm has moved on meanwhile.
THEOREM LiveWasHealthyHolds == Spec => []LiveWasHealthy
<1>1. ASSUME Init
      PROVE  HealthyInv
  BY <1>1 DEF Init, ClusterInit, HealthyInv, Live, IdleGoLive, IdleSync
<1>2. HostingAssumption /\ TypeOK /\ References /\ ImageInv /\ HealthyInv /\ [Next]_vars => HealthyInv'
  <2>1. ASSUME HealthyInv, UNCHANGED vars
        PROVE  HealthyInv'
    BY <2>1 DEF vars, HealthyInv, Live, FirstListed, Listed
  <2>. QED  BY <2>1, HealthyStep
<1>3. HealthyInv => LiveWasHealthy
  BY DEF HealthyInv, LiveWasHealthy, Live
<1>. QED
  BY <1>1, <1>2, <1>3, HostingAssumption, TypeCorrect, ReferencesHold, ImageInvariant, PTL DEF Spec
=============================================================================
