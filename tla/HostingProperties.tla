-------------------------- MODULE HostingProperties --------------------------
(***************************************************************************)
(* What managed hosting has to guarantee, stated over the state of Hosting. *)
(***************************************************************************)
EXTENDS Hosting

Live == {d \in IDs : status[d] = "live"}

\* supersedePending leaves at most the newest deployment pending: two are only
\* while the request of the newer one is still cancelling, or if it crashed.
NewestPendingOnly ==
    crashes = 0 =>
        \A d, e \in IDs :
            d < e /\ Pending(d) /\ Pending(e) =>
                \E r \in Requests : request[r].pc = "supersede" /\ request[r].dep = e

\* Without a crash, the rows marked live are exactly the one the target points
\* to, except while markLive is between its three writes.
LivePointerExact ==
    crashes = 0 /\ sync.pc \notin {"retire", "point"} => Live = {target.live} \ {0}

\* A deployment is live only if Dokploy was given it, and its own image once ran
\* on every replica: "Live once every replica runs the new digest".
LiveWasHealthy ==
    \A d \in Live : d \in shipped /\ image[d] \in proven

\* No image that the registry does not hold under the target's name reaches the
\* cluster, whatever the builder reports.
OnlyRegistryImages == {dok.image, svc.image} \ {NoImage} \subseteq registry

\* With REQUIRE_W3DS nothing ships before the deployer has signed.
SignedBeforeShipping ==
    RequireW3DS /\ shipped # {} => \E n \in Records : record[n] = "signed"

\* With REQUIRE_W3DS a release ships only after the publisher accepted its
\* version, whichever caller of goLive it was that published it.
AcceptedVersionShips ==
    RequireW3DS => \A d \in shipped : version[d] \in accepted

\* Handlers only work on deployments that exist, and so does everything that
\* remembers one: the invariant behind the others.
Working    == {"supersede", "dispatch", "save"}
Remembered(d) ==
    \/ run[d] # "none" \/ callback[d] # "idle" \/ sync.todo[d] # "none"
    \/ d \in wallet.waiting \/ d \in shipped
References ==
    /\ \A d \in IDs : status[d] # "none" <=> d <= lastID
    /\ \A c \in Callers : golive[c].pc # "idle" => golive[c].dep \in 1 .. lastID
    /\ \A r \in Requests : request[r].pc \in Working => request[r].dep \in 1 .. lastID
    /\ \A d \in IDs : Remembered(d) => d <= lastID

\* Why nothing ships unsigned or unpublished: goLive reads the target before it
\* publishes or sends, and what it read then cannot be taken back.
GoLivePast(c, pcs) == golive[c].pc \in pcs
SigningInv ==
    RequireW3DS =>
        /\ target.record # 0 => target.version \in accepted
        /\ \A c \in Callers :
            /\ GoLivePast(c, {"publish", "record", "send", "deploy", "mark"}) =>
                    \E n \in Records : record[n] = "signed"
            /\ GoLivePast(c, {"record", "send", "deploy", "mark"}) =>
                    version[golive[c].dep] \in accepted
        /\ SignedBeforeShipping /\ AcceptedVersionShips

\* Why only registry images reach the cluster and a deployment keeps its image:
\* every digest in a row or in the cluster came from the registry, whatever works
\* on a built deployment finds its image, a build reports only to a row that has
\* none, and markLive has made its row live before it retires the previous one.
ImagesRegistered ==
    /\ NoImage \notin registry
    /\ \A d \in IDs : image[d] \in registry \cup {NoImage}
    /\ {dok.image, svc.image, svc.prev} \subseteq registry \cup {NoImage}

BuiltStatuses == {"built", "awaiting_signature", "awaiting_certification", "deploying"}
BuiltOrLater  == BuiltStatuses \cup {"live", "superseded"}
RowsKnown ==
    \A d \in IDs :
        /\ status[d] \in BuiltOrLater \/ rollbackOf[d] # 0 => image[d] # NoImage
        /\ status[d] \in {"queued", "building"} /\ rollbackOf[d] = 0 => image[d] = NoImage

WorkKnown ==
    \A d \in IDs :
        \/ \E c \in Callers : golive[c].pc # "idle" /\ golive[c].dep = d
        \/ sync.todo[d] \in BuiltStatuses
        \/ d \in wallet.waiting
        => image[d] # NoImage

BuildsOnly ==
    /\ \A d \in IDs : /\ callback[d] # "idle" => run[d] # "none"
                      /\ run[d] # "none" => rollbackOf[d] = 0
    /\ \A r \in Requests :
        request[r].pc \in {"dispatch", "save"} => rollbackOf[request[r].dep] = 0

FirstListed(d) == sync.todo[d] = "deploying" /\ \A e \in Listed : d <= e
MarkedLive ==
    sync.pc \in {"retire", "point"} =>
        \E d \in IDs : FirstListed(d) /\ status[d] = "live"

ImageInv == ImagesRegistered /\ RowsKnown /\ WorkKnown /\ BuildsOnly /\ MarkedLive

\* Why the live row and the target's pointer agree: markLive works on what it read of
\* the target, and nothing else makes a row live, retires one or moves the pointer.
PointerInv ==
    crashes = 0 =>
        /\ sync.pc # "scan" => sync.live = target.live
        /\ sync.pc \in {"scan", "verdict"} => Live = {target.live} \ {0}
        /\ sync.pc = "retire" => \E d \in IDs : /\ FirstListed(d) /\ d # target.live
                                               /\ Live = {target.live, d} \ {0}
        /\ sync.pc = "point" => \E d \in IDs : FirstListed(d) /\ Live = {d}

\* Why a live release was healthy: only a shipped row is deploying, ready replicas
\* have run their image unless Swarm has gone back to it, and a verdict that is acted
\* on later is about an image that cannot change any more.
HealthyInv ==
    /\ \A d \in IDs : status[d] \in {"deploying", "live"} => d \in shipped
    /\ \A c \in Callers : golive[c].pc = "mark" => golive[c].dep \in shipped
    /\ \A d \in Live : image[d] \in proven
    /\ svc.ready /\ svc.update # "rollback_completed" => svc.image \in proven
    /\ sync.pc = "verdict" /\ sync.verdict = "healthy" =>
            \E d \in IDs : FirstListed(d) /\ image[d] \in proven

\* Every deployment in flight reaches an end: "a crash at any point is repaired on the
\* next tick" (SyncDeployments).
Unsettled(d) == status[d] \in InFlightStatuses
EverySettles == \A d \in IDs : Unsettled(d) ~> ~Unsettled(d)

\* A crash forgets only deployments whose build run was not recorded yet: queued, or
\* building when the build has reported meanwhile; no handler is left that works on them.
Forgotten(d) ==
    /\ crashes > 0 /\ status[d] \in {"queued", "building"} /\ ~job[d].run
    /\ callback[d] = "idle" /\ \A r \in Requests : request[r].dep # d
    /\ \A c \in Callers : golive[c].dep # d

\* What the code keeps of that promise: every deployment in flight reaches an end, unless
\* a crash has forgotten it.
OthersSettle ==
    \A d \in IDs :
        Unsettled(d) /\ ~Forgotten(d) ~> ~Unsettled(d) \/ Forgotten(d)

\* A publisher that does not refuse for ever: goLive parks the build of a version that
\* could not be published, to "let the sync loop retry" (ensureW3DSVersion).
PatientSpec == FairSpec /\ SF_vars(\E c \in Callers : PublishAccepted(c))

-----------------------------------------------------------------------------
\* The lifecycle that the rows implement.

Phase(s) ==
    CASE s = "none" -> "none"
      [] s \in PendingStatuses -> "pending"
      [] s = "deploying" -> "rolling"
      [] s = "live" -> "live"
      [] s = "superseded" -> "retired"
      [] OTHER -> "closed"

Lifecycle == INSTANCE DeploymentLifecycle
    WITH phase <- [d \in IDs |-> Phase(status[d])], Images <- Digests

\* The rows, moved by all handlers together, behave as one deployment lifecycle.
\* It is Lifecycle!Spec: the first disjunct is a stutter of it, and tells TLC at
\* once of the many steps that move no row.
LifecycleSpec ==
    /\ Lifecycle!Init
    /\ [][UNCHANGED <<status, image>> \/ Lifecycle!Next]_(Lifecycle!vars)

-----------------------------------------------------------------------------
\* What comments of the code promise, and the code does not keep.

\* deploy.go: older deployments are cancelled "so only the newest release is built
\* and shipped": Dokploy is never given a deployment that was cancelled.
CancelledNeverShips ==
    [][\A d \in IDs : dok'.job = d /\ dok' # dok /\ dok'.status = "running"
            => status[d] # "cancelled"]_vars
=============================================================================
